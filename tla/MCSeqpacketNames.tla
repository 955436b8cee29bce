------------------------- MODULE MCSeqpacketNames -------------------------
(* SeqpacketNames on the Linux layout with a 3-byte sun_path: paths of 1  *)
(* to 3 bytes (3 fills sun_path, so the kernel reports capacity + 1),     *)
(* invalid paths, abstract names of 0 to 2 bytes, and one autobind name.  *)
EXTENDS SeqpacketNames, TLC

MCSunPathLen == 3
MCBytes == {0, 1, 2}
MCMaxInputLen == MCSunPathLen + 1
MCPathInputs == {<<>>, <<1>>, <<1, 2>>, <<1, 2, 2>>, <<1, 0>>, <<1, 1, 1, 1>>}
MCAbstractInputs == {<<>>, <<1>>, <<1, 2>>}
MCAutobindNames == {<<2, 2>>}
SockSymmetry == Permutations(Socks)
=============================================================================
