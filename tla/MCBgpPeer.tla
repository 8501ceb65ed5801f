------------------------------ MODULE MCBgpPeer ------------------------------
(* BgpPeer instantiated for TLC: the sentinels as model values, the        *)
(* numbers in the cfg.                                                      *)
EXTENDS BgpPeer
====
