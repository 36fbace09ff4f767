------------------------------- MODULE MCHdlc -------------------------------
EXTENDS Hdlc

Hex(n) == [i \in 1..8 |-> (n \div 2 ^ (i - 1)) % 2]
Bytes(f) == [k \in DOMAIN f |-> Hex(f[k])]
Port(flag, nrzi, harms, script) ==
    [flag |-> flag, nrzi |-> nrzi, harms |-> harms,
     script |-> [k \in DOMAIN script |-> Bytes(script[k])]]

(* Frames that look like flags and aborts, and need zeros in the FCS.        *)
Short == <<<<126>>, <<255>>, <<31>>>>
Dense == <<<<255, 255>>, <<31>>, <<255, 255, 255>>>>
Long == <<<<126, 0, 0, 255>>, <<255, 255, 31, 1>>, <<31, 3, 31, 15>>>>

MCPorts == {Port(3, FALSE, 1, Short), Port(4, TRUE, 1, Short), Port(7, TRUE, 1, Dense),
            Port(0, FALSE, 1, Long), Port(2, TRUE, 1, Long)}
MCPauses == {0, 5, 30}
MCHolds == {0, 12}
=============================================================================
