---------------------------- MODULE MCTextureCache ----------------------------
(* Two pages of VRAM.  "shot" samples render target T1 on page 1, and T2     *)
(* covers both pages; "wide" reads one page or two, by the stride register; *)
(* "pal" sits on page 2 and needs the palette, and the GPU cannot decode    *)
(* "odd".  One set of two ways for all, so that entries are evicted.        *)
EXTENDS TextureCache

Setup(m, i, r, t, p, s, n) ==
  [mode |-> m, immediate |-> i, reliable |-> r, textures |-> t, palettes |-> p, strides |-> s, surfaces |-> n]

MCSetups ==
  { Setup("mt", TRUE, TRUE, {"wide", "pal"}, {0, 1}, {0, 1}, 2),
    Setup("soft", FALSE, TRUE, {"wide", "odd"}, {}, {0, 1}, 2),
    Setup("gpu", FALSE, TRUE, {"shot", "wide"}, {}, {}, 2),
    Setup("gpu", FALSE, FALSE, {"shot", "odd"}, {}, {}, 2),
    Setup("gpu", FALSE, TRUE, {"wide"}, {}, {0, 1}, 1),
    Setup("gpu", TRUE, TRUE, {"pal"}, {0, 1}, {}, 1) }

MCCovers == [t \in Textures |-> [s \in Strides |->
  CASE t = "wide" -> (IF s = 0 THEN {1} ELSE {1, 2}) [] t = "pal" -> {2} [] OTHER -> {1}]]
MCSetOf == [id \in Identities |-> 0]
MCTargetPages == [g \in Targets |-> IF g = "T1" THEN {1} ELSE {1, 2}]
MCDirect == [t \in Textures |-> IF t = "shot" THEN "T1" ELSE Nothing]
=============================================================================
