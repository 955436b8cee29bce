------------------------- MODULE MCUnixSocketAddr -------------------------
(***************************************************************************)
(* Model-checking instance of UnixSocketAddr.  sun_path is shrunk from   *)
(* 108 (Linux) or 104 (BSD, macOS) bytes to 3: enough for a path that     *)
(* leaves room for a NUL, one that fills the buffer, one that is too      *)
(* long, and abstract names of 0 .. 2 bytes.  Bytes are NUL, '/', '@' and *)
(* one ordinary byte.                                                      *)
(***************************************************************************)
EXTENDS UnixSocketAddr

MCSunPathLen == 3
MCBytes == {0, 1, 2, 3}
MCMaxInputLen == MCSunPathLen + 1

\* Linux / Android: sockaddr_un = { sa_family_t sun_family; char sun_path[] }
\* with a 2-byte sa_family_t.
LinuxPathOffset == 2
LinuxFamilySize == 2

\* BSDs and macOS: { u8 sun_len; sa_family_t sun_family; char sun_path[] }
\* with a 1-byte sa_family_t.
BsdPathOffset == 2
BsdFamilySize == 1
=============================================================================
