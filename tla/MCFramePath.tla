--------------------------- MODULE MCFramePath ----------------------------
(* The upright color images are as wide as the depth images.               *)
EXTENDS FramePath

Wide(w, h) == [raw |-> w, half |-> w, left |-> h, right |-> h]
Widths == [depth |-> Wide(4, 3), infra2 |-> Wide(4, 3), color |-> Wide(5, 4)]
Options == {<<"rgbd", "color">>, <<"image", "color">>,
            <<"aligned", "color">>}
Launches == {{}, {"sync", "align_depth", "rgbd"}}
===========================================================================
