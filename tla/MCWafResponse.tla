---------------------------- MODULE MCWafResponse ----------------------------
EXTENDS WafResponseProps, TLC

CONSTANTS e1, e2, e3, e4, out, in

MCEvents == {e1, e2, e3, e4}
MCIps == {out, in}
MCIpOf == e1 :> out @@ e2 :> out @@ e3 :> out @@ e4 :> in
MCExternal == {out}
MCSensitive == {e1, e2, e4}
MCSevere == {e1, e3}
=============================================================================
