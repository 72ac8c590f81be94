------------------------------- MODULE MCCodec -------------------------------
(***************************************************************************)
(* Datagrams for TLC: messages of up to four bytes, of which the largest   *)
(* does not fit, and every foreign datagram of up to MaxForeign bytes 0    *)
(* to 2: short headers, headers without a body, bodies too short or too    *)
(* long, compression flags.                                                *)
(***************************************************************************)
EXTENDS Codec

CONSTANT MaxForeign

Strings(bytes, n) == UNION {[1 .. k -> bytes] : k \in 0 .. n}

MCMessage == {<< >>, <<1>>, <<2, 0>>, <<1, 2, 0>>, <<1, 1, 1, 1>>}
MCParses == {s \in Strings(0 .. 2, 4) : s = << >> \/ s[1] = 1 \/ (s[1] = 2 /\ Len(s) = 2)}
MCForeign == Strings(0 .. 2, MaxForeign)
==============================================================================
