--------------------------- MODULE UnixSocketAddr ---------------------------
(***************************************************************************)
(* The address value of src/addr.rs: a `sockaddr_un` (family tag and a    *)
(* fixed-size `sun_path`) together with the number of bytes in use,       *)
(* `len`.  Every constructor, the view `as_ref()`, the kind predicates,   *)
(* the FFI round-trip normaliser `new_from_ffi()` and the raw accessors   *)
(* are operators; the state machine is a client that calls any of them    *)
(* with any input from small sets and keeps the last call and its         *)
(* outcome.  A client holding an address may also hand it back through    *)
(* `as_raw_general()` to `from_raw()`.                                    *)
(*                                                                         *)
(* Bytes are small integers: NUL is the '\0' byte, SLASH is '/', AT is    *)
(* '@'; any other member of Bytes stands for an ordinary path byte.       *)
(***************************************************************************)
EXTENDS Integers, Sequences, SequencesExt

CONSTANTS
  SunPathLen,    \* size_of_val(&sockaddr_un.sun_path)
  PathOffset,    \* path_offset(): size_of::<sockaddr_un>() - SunPathLen
  FamilySize,    \* size_of::<sa_family_t>()
  HasAbstract,   \* has_abstract_addresses(): Linux and Android only
  Bytes,         \* the byte values inputs are made of
  NUL, SLASH, AT,
  MaxInputLen,   \* longest string, name or path a client passes in
  MaxReportedLen,\* largest socklen_t a raw caller or FFI callback reports
  NoAddr         \* the address field of an Err outcome

ASSUME /\ SunPathLen \in Nat \ {0}
       /\ PathOffset \in Nat /\ FamilySize \in Nat /\ FamilySize <= PathOffset
       /\ HasAbstract \in BOOLEAN
       /\ {NUL, SLASH, AT} \subseteq Bytes /\ NUL = 0
       /\ MaxInputLen > SunPathLen
       /\ MaxReportedLen > PathOffset + SunPathLen

\* size_of::<sockaddr_un>(): the `capacity` of new_from_ffi()
Capacity == PathOffset + SunPathLen
PathIdx == 0 .. SunPathLen - 1
AF_UNIX == "AF_UNIX"
Families == {AF_UNIX, "AF_INET"}
ErrKinds == {"NotFound", "InvalidInput", "AddrNotAvailable", "InvalidData",
             "CallFailed", "Panic", "None"}

Addrs == [family : Families, sun_path : [PathIdx -> Bytes],
          len : 0 .. MaxReportedLen + 1]

Ok(a) == [ok |-> TRUE, err |-> "none", addr |-> a]
Err(k) == [ok |-> FALSE, err |-> k, addr |-> NoAddr]

\* Bytes lo .. hi-1 of a sun_path as a sequence.
Slice(f, lo, hi) == [k \in 1 .. hi - lo |-> f[lo + k - 1]]

\* Mutant: a copy that leaves a buffer sized by what was copied.
WriteBytesSized(f, at, s) ==
  [i \in 0 .. at + Len(s) - 1 |-> IF at <= i THEN s[i - at + 1] ELSE f[i]]

\* The `for (dst, src) in sun_path[at..].iter_mut().zip(s)` copy loops.
WriteBytes(f, at, s) ==
  [i \in DOMAIN f |-> IF at <= i /\ i < at + Len(s) THEN s[i - at + 1] ELSE f[i]]

(***************************************************************************)
(* new_unspecified(): zeroed `sockaddr_un`, family AF_UNIX, and `len` the *)
(* size of `sa_family_t` (which is not PathOffset where `sun_len` comes   *)
(* first).                                                                 *)
(***************************************************************************)
NewUnspecified ==
  [family |-> AF_UNIX, sun_path |-> [i \in PathIdx |-> NUL], len |-> FamilySize]

MaxPathLen == SunPathLen
MaxAbstractLen == SunPathLen - 1

(***************************************************************************)
(* UnixSocketAddrRef::from(&UnixSocketAddr), i.e. as_ref().  A slice     *)
(* index past the end of sun_path is a panic in the code.                 *)
(***************************************************************************)
Unnamed == [kind |-> "Unnamed", name |-> <<>>]
AsRef(a) ==
  LET nameLen == a.len - PathOffset
      s == Slice(a.sun_path, 0, nameLen)
  IN  IF nameLen <= 0 THEN Unnamed
      ELSE IF nameLen > SunPathLen THEN [kind |-> "Panic", name |-> <<>>]
      ELSE IF a.sun_path[0] = NUL
           THEN [kind |-> "Abstract", name |-> Slice(a.sun_path, 1, nameLen)]
           ELSE [kind |-> "Path", name |-> IF Last(s) = NUL THEN Front(s) ELSE s]

\* PartialEq for UnixSocketAddr (Hash hashes the same view).
AddrEq(a, b) == AsRef(a) = AsRef(b)

(***************************************************************************)
(* Debug: a debug_tuple "UnixSocketAddr" around the view's variant and    *)
(* its name (Path's and OsStr's Debug escape the bytes without loss).     *)
(***************************************************************************)
DebugOf(a) ==
  LET v == AsRef(a) IN
  [tuple |-> "UnixSocketAddr", variant |-> v.kind,
   field |-> IF v.kind = "Unnamed" THEN <<>> ELSE v.name]

(***************************************************************************)
(* Display (to_string()): "unnamed", a path through Path::display(), an   *)
(* abstract name as '@' and the name through to_string_lossy().  The      *)
(* model's bytes are ASCII, which both conversions keep as they are; the  *)
(* word "unnamed" is one token.                                            *)
(***************************************************************************)
DisplayOf(a) ==
  LET v == AsRef(a) IN
  CASE v.kind = "Path" -> v.name
    [] v.kind = "Abstract" -> <<AT>> \o v.name
    [] OTHER -> <<"unnamed">>

\* Mutant: an abstract name compared with the marker byte still in front.
EqBytesNoTail(a, u) ==
  LET r == AsRef(a) IN
  \/ r.kind = "Path" /\ u # <<>> /\ r.name = u
  \/ r.kind = "Abstract" /\ u # <<>> /\ Head(u) = NUL /\ r.name = u
  \/ r.kind = "Unnamed" /\ u = <<>>

\* PartialEq<[u8]>: compare with an unescaped byte string.
EqBytes(a, u) ==
  LET r == AsRef(a) IN
  \/ r.kind = "Path" /\ u # <<>> /\ r.name = u
  \/ r.kind = "Abstract" /\ u # <<>> /\ Head(u) = NUL /\ r.name = Tail(u)
  \/ r.kind = "Unnamed" /\ u = <<>>

\* The kind predicates is_unnamed() .. is_path().
IsUnnamed(a) ==
  IF HasAbstract THEN a.len <= PathOffset
  ELSE a.len <= PathOffset \/ a.sun_path[0] = NUL
\* Mutant: is_abstract() without the `len > path_offset()` test.
IsAbstractNoLen(a) == HasAbstract /\ a.sun_path[0] = NUL
IsAbstract(a) == HasAbstract /\ a.len > PathOffset /\ a.sun_path[0] = NUL
IsAbsolutePath(a) == a.len > PathOffset /\ a.sun_path[0] = SLASH
IsRelativePath(a) ==
  a.len > PathOffset /\ a.sun_path[0] # NUL /\ a.sun_path[0] # SLASH
IsPath(a) == a.len > PathOffset /\ a.sun_path[0] # NUL

\* Mutant: from_path() counting a terminating NUL even when there is no room.
FromPathAlwaysNul(p) ==
  IF p = <<>> THEN Err("NotFound")
  ELSE IF Len(p) > SunPathLen THEN Err("InvalidInput")
  ELSE IF Contains(p, NUL) THEN Err("InvalidInput")
  ELSE Ok([NewUnspecified EXCEPT
             !.sun_path = WriteBytes(@, 0, p), !.len = PathOffset + Len(p) + 1])

(***************************************************************************)
(* from_path(): NUL-free paths of 1 .. MaxPathLen bytes; a trailing NUL  *)
(* is counted in `len` when there is room for it.                         *)
(***************************************************************************)
FromPath(p) ==
  IF p = <<>> THEN Err("NotFound")
  ELSE IF Len(p) > SunPathLen THEN Err("InvalidInput")
  ELSE IF Contains(p, NUL) THEN Err("InvalidInput")
  ELSE Ok([NewUnspecified EXCEPT
             !.sun_path = WriteBytes(@, 0, p),
             !.len = PathOffset + Len(p) + (IF Len(p) < SunPathLen THEN 1 ELSE 0)])

\* Mutant: from_abstract() without the platform check.
FromAbstractAnyPlatform(n) ==
  IF Len(n) > MaxAbstractLen THEN Err("InvalidInput")
  ELSE Ok([NewUnspecified EXCEPT
             !.sun_path = WriteBytes(@, 1, n), !.len = PathOffset + 1 + Len(n)])

\* Mutant: from_abstract() checking the name against max_path_len().
FromAbstractPathLimit(n) ==
  IF ~HasAbstract THEN Err("AddrNotAvailable")
  ELSE IF Len(n) > MaxPathLen THEN Err("InvalidInput")
  ELSE Ok([NewUnspecified EXCEPT
             !.sun_path = WriteBytes(@, 1, n), !.len = PathOffset + 1 + Len(n)])

\* from_abstract(): one NUL marker byte, then the name, not NUL-terminated.
FromAbstract(n) ==
  IF ~HasAbstract THEN Err("AddrNotAvailable")
  ELSE IF Len(n) > MaxAbstractLen THEN Err("InvalidInput")
  ELSE Ok([NewUnspecified EXCEPT
             !.sun_path = WriteBytes(@, 1, n),
             !.len = PathOffset + 1 + Len(n)])

\* new(): leading '@' or NUL is abstract, empty is unnamed, else a path.
New(s) ==
  IF s = <<>> THEN Ok(NewUnspecified)
  ELSE IF Head(s) \in {AT, NUL} THEN FromAbstract(Tail(s))
  ELSE FromPath(s)

\* from_c_str(): `s` is CStr::to_bytes(), which never contains NUL.
FromCStr(s) ==
  IF s = <<>> THEN Ok(NewUnspecified)
  ELSE IF Len(s) > SunPathLen THEN Err("InvalidInput")
  ELSE Ok([NewUnspecified EXCEPT
             !.sun_path = WriteBytes(@, 0, s),
             !.len = PathOffset + Len(s) + (IF Len(s) < SunPathLen THEN 1 ELSE 0)])

\* from_std(): pathname => from_path(..).expect(..), unnamed => unspecified,
\* abstract => None.  A failed expect() is a panic.
FromStd(sa) ==
  CASE sa.kind = "pathname" ->
         LET r == FromPath(sa.path) IN IF r.ok THEN r ELSE Err("Panic")
    [] sa.kind = "unnamed" -> Ok(NewUnspecified)
    [] OTHER -> Err("None")

\* Mutant: new_from_ffi() without clamping a length one past the capacity.
NewFromFfiNoClamp(k) ==
  LET a == [family |-> k.family, sun_path |-> k.sun_path, len |-> k.len] IN
  IF k.fails THEN Err("CallFailed")
  ELSE IF a.family # AF_UNIX THEN Err("InvalidData")
  ELSE IF IsAbstract(a) THEN
         IF a.len > Capacity THEN Err("InvalidData") ELSE Ok(a)
  ELSE IF IsPath(a) THEN
         IF a.len > Capacity + 1 THEN Err("InvalidData")
         ELSE IF a.len >= Capacity THEN Ok(a)
         ELSE IF a.sun_path[a.len - 1 - PathOffset] # NUL
              THEN Ok([a EXCEPT !.len = @ + 1, !.sun_path[a.len - PathOffset] = NUL])
              ELSE Ok(a)
  ELSE Ok(a)

\* Mutant: new_from_ffi() writing the terminating NUL over the last path byte.
NewFromFfiNulOverLast(k) ==
  LET a == [family |-> k.family, sun_path |-> k.sun_path, len |-> k.len] IN
  IF k.fails THEN Err("CallFailed")
  ELSE IF a.family # AF_UNIX THEN Err("InvalidData")
  ELSE IF IsAbstract(a) THEN
         IF a.len > Capacity THEN Err("InvalidData") ELSE Ok(a)
  ELSE IF IsPath(a) THEN
         IF a.len > Capacity + 1 THEN Err("InvalidData")
         ELSE IF a.len >= Capacity THEN Ok([a EXCEPT !.len = Capacity])
         ELSE IF a.sun_path[a.len - 1 - PathOffset] # NUL
              THEN Ok([a EXCEPT !.len = @ + 1, !.sun_path[a.len - 1 - PathOffset] = NUL])
              ELSE Ok(a)
  ELSE Ok(a)

\* Mutant: the abstract refusal given the path limit, capacity + 1.
NewFromFfiAbstractPathLimit(k) ==
  LET a == [family |-> k.family, sun_path |-> k.sun_path, len |-> k.len] IN
  IF k.fails THEN Err("CallFailed")
  ELSE IF a.family # AF_UNIX THEN Err("InvalidData")
  ELSE IF IsAbstract(a) THEN
         IF a.len > Capacity + 1 THEN Err("InvalidData") ELSE Ok(a)
  ELSE IF IsPath(a) THEN
         IF a.len > Capacity + 1 THEN Err("InvalidData")
         ELSE IF a.len >= Capacity THEN Ok([a EXCEPT !.len = Capacity])
         ELSE IF a.sun_path[a.len - 1 - PathOffset] # NUL
              THEN Ok([a EXCEPT !.len = @ + 1, !.sun_path[a.len - PathOffset] = NUL])
              ELSE Ok(a)
  ELSE Ok(a)

(***************************************************************************)
(* new_from_ffi(): the buffer starts unspecified with len = Capacity; the *)
(* callback `k` writes family and sun_path and reports a length, or       *)
(* fails.  Then the family is checked, truncated abstract names are       *)
(* refused, and path lengths are clamped to Capacity or extended by a     *)
(* written terminating NUL.                                                *)
(***************************************************************************)
NewFromFfi(k) ==
  LET a == [family |-> k.family, sun_path |-> k.sun_path, len |-> k.len] IN
  IF k.fails THEN Err("CallFailed")
  ELSE IF a.family # AF_UNIX THEN Err("InvalidData")
  ELSE IF IsAbstract(a) THEN
         IF a.len > Capacity THEN Err("InvalidData") ELSE Ok(a)
  ELSE IF IsPath(a) THEN
         IF a.len > Capacity + 1 THEN Err("InvalidData")
         ELSE IF a.len >= Capacity THEN Ok([a EXCEPT !.len = Capacity])
         ELSE IF a.sun_path[a.len - 1 - PathOffset] # NUL
              THEN Ok([a EXCEPT !.len = @ + 1,
                                !.sun_path[a.len - PathOffset] = NUL])
              ELSE Ok(a)
  ELSE Ok(a)

(***************************************************************************)
(* from_raw(addr, len): `m` is the caller's memory behind the pointer.    *)
(* After validation the code copies `len` bytes starting at sun_path into *)
(* the SunPathLen-byte sun_path with copy_from_slice(), which panics       *)
(* unless both lengths are equal.                                          *)
(***************************************************************************)
FromRaw(m) ==
  IF m.null /\ m.len = 0 THEN Ok(NewUnspecified)
  ELSE IF m.null THEN Err("InvalidInput")
  ELSE IF m.len < PathOffset THEN Err("InvalidInput")
  ELSE IF m.len > PathOffset + SunPathLen THEN Err("InvalidInput")
  ELSE IF m.family # AF_UNIX THEN Err("InvalidData")
  ELSE IF m.len # SunPathLen THEN Err("Panic")
  ELSE Ok([NewUnspecified EXCEPT !.sun_path = m.sun_path, !.len = m.len])

\* from_raw_unchecked(): no validation at all.
FromRawUnchecked(m) == Ok([family |-> m.family, sun_path |-> m.sun_path, len |-> m.len])

\* as_raw_general(): the memory and length a held address exposes.
AsRawGeneral(a) == [null |-> FALSE, family |-> a.family, sun_path |-> a.sun_path, len |-> a.len]

-----------------------------------------------------------------------------
(***************************************************************************)
(* The client.  `op` and `arg` are the last call and its input, `res` its *)
(* outcome; the address a client holds is `res.addr` after an Ok.         *)
(***************************************************************************)
VARIABLES op, arg, res
vars == <<op, arg, res>>

SunPaths == [PathIdx -> Bytes]
ZeroPath == [i \in PathIdx |-> NUL]
Strings == SeqOf(Bytes, MaxInputLen)
CStrs == SeqOf(Bytes \ {NUL}, MaxInputLen)
StdAddrs ==
  {[kind |-> "pathname", path |-> p] : p \in SeqOf(Bytes \ {NUL}, SunPathLen) \ {<<>>}}
    \cup {[kind |-> k, path |-> <<>>] : k \in {"unnamed", "abstract"}}
\* What a getsockname()-style callback leaves behind; a failing callback's
\* writes are never looked at, so one stands for all.
FfiReports ==
  {[fails |-> TRUE, family |-> AF_UNIX, sun_path |-> ZeroPath, len |-> Capacity]}
    \cup [fails : {FALSE}, family : Families, sun_path : SunPaths,
           len : 0 .. MaxReportedLen]
RawMems ==
  [null : {TRUE}, family : {AF_UNIX}, sun_path : {ZeroPath}, len : {0, PathOffset}]
    \cup [null : {FALSE}, family : Families, sun_path : SunPaths,
           len : 0 .. MaxReportedLen]
\* from_raw_unchecked()'s documented precondition: len <= size_of sockaddr_un.
UncheckedMems == [family : {AF_UNIX}, sun_path : SunPaths, len : 0 .. Capacity]

Results == {Ok(a) : a \in Addrs} \cup {Err(k) : k \in ErrKinds}

TypeOK ==
  /\ op \in {"default", "new_unspecified", "new", "from_path", "from_abstract",
             "from_c_str", "from_std", "new_from_ffi", "from_raw",
             "from_raw_unchecked", "from_raw_of_held"}
  /\ res \in Results

Init == op = "default" /\ arg = <<>> /\ res = Ok(NewUnspecified)

Call(o, x, r) == op' = o /\ arg' = x /\ res' = r

NewUnspecifiedCall == Call("new_unspecified", <<>>, Ok(NewUnspecified))
NewCall == \E s \in Strings : Call("new", s, New(s))
FromPathCall == \E p \in Strings : Call("from_path", p, FromPath(p))
FromAbstractCall == \E n \in Strings : Call("from_abstract", n, FromAbstract(n))
FromCStrCall == \E s \in CStrs : Call("from_c_str", s, FromCStr(s))
FromStdCall == \E sa \in StdAddrs : Call("from_std", sa, FromStd(sa))
NewFromFfiCall == \E k \in FfiReports : Call("new_from_ffi", k, NewFromFfi(k))
FromRawCall == \E m \in RawMems : Call("from_raw", m, FromRaw(m))
FromRawUncheckedCall ==
  \E m \in UncheckedMems : Call("from_raw_unchecked", m, FromRawUnchecked(m))
\* from_raw(as_raw_general(&held)) on the address the client holds.
FromRawOfHeld ==
  /\ res.ok
  /\ Call("from_raw_of_held", res.addr, FromRaw(AsRawGeneral(res.addr)))

Next ==
  \/ NewUnspecifiedCall \/ NewCall \/ FromPathCall \/ FromAbstractCall
  \/ FromCStrCall \/ FromStdCall \/ NewFromFfiCall \/ FromRawCall
  \/ FromRawUncheckedCall \/ FromRawOfHeld

Spec == Init /\ [][Next]_vars

-----------------------------------------------------------------------------
(***************************************************************************)
(* Reference definitions from the spec.  `Outcome` is what a caller can  *)
(* observe of a result: the error kind, or the view of the address.       *)
(***************************************************************************)
Failed(k) == [kind |-> k, name |-> <<>>]
Outcome(r) == IF r.ok THEN AsRef(r.addr) ELSE Failed(r.err)
PathName(p) == [kind |-> "Path", name |-> p]
AbstractName(n) == [kind |-> "Abstract", name |-> n]

\* Spec 4.2: the outcome a constructor promises for input `s`.
SpecFromPath(p) ==
  CASE p = <<>> -> Failed("NotFound")
    [] Len(p) > MaxPathLen \/ Contains(p, NUL) -> Failed("InvalidInput")
    [] OTHER -> PathName(p)
SpecFromAbstract(n) ==
  CASE ~HasAbstract -> Failed("AddrNotAvailable")
    [] Len(n) > MaxAbstractLen -> Failed("InvalidInput")
    [] OTHER -> AbstractName(n)
SpecOutcome(o, s) ==
  CASE o = "from_path" -> SpecFromPath(s)
    [] o = "from_abstract" -> SpecFromAbstract(s)
    [] o = "from_c_str" -> IF s = <<>> THEN Unnamed ELSE SpecFromPath(s)
    [] o = "new" /\ s = <<>> -> Unnamed
    [] o = "new" /\ Head(s) \in {AT, NUL} -> SpecFromAbstract(Tail(s))
    [] o = "new" -> SpecFromPath(s)

(***************************************************************************)
(* Spec 4.4: the name a kernel reported through a getsockname()-style     *)
(* call, read off the buffer as if it went on past sun_path with one NUL  *)
(* byte (the byte a path one too long for the buffer lost).  On a system  *)
(* without abstract addresses a name starting with NUL is the unnamed     *)
(* address.  InvalidData when more was lost than that one byte.           *)
(***************************************************************************)
KernelName(k) ==
  LET n == k.len - PathOffset
      ext == [i \in 0 .. SunPathLen |-> IF i < SunPathLen THEN k.sun_path[i] ELSE NUL]
  IN  CASE n <= 0 -> Unnamed
        [] k.sun_path[0] = NUL /\ ~HasAbstract -> Unnamed
        [] k.sun_path[0] = NUL /\ n > SunPathLen -> Failed("InvalidData")
        [] k.sun_path[0] = NUL -> AbstractName(Slice(k.sun_path, 1, n))
        [] n > SunPathLen + 1 -> Failed("InvalidData")
        [] OTHER -> LET s == Slice(ext, 0, n)
                    IN PathName(IF Last(s) = NUL THEN Front(s) ELSE s)

\* A report as kernels make it: an abstract name (led by NUL) is any bytes,
\* and in a path name NUL can only end the reported name.
ReportIsCString(k) ==
  LET n == IF k.len - PathOffset <= SunPathLen
           THEN k.len - PathOffset ELSE SunPathLen + 1
  IN  k.sun_path[0] = NUL \/ \A i \in 0 .. n - 2 : k.sun_path[i] # NUL

SafeConstructors == {"default", "new_unspecified", "new", "from_path",
                     "from_abstract", "from_c_str", "from_std"}

-----------------------------------------------------------------------------
(***************************************************************************)
(* Properties.                                                             *)
(***************************************************************************)

(* Every address the API hands out, whatever a new_from_ffi() callback    *)
(* reported, is an AF_UNIX address whose view as_ref() (and so ==, hash   *)
(* and Display) can be taken without a slice index panic.                  *)
OkAddrViewable ==
  res.ok => res.addr.family = AF_UNIX /\ AsRef(res.addr).kind # "Panic"

(* The predicates is_unnamed(), is_abstract(), is_path() and              *)
(* is_absolute_path()/is_relative_path() classify every address the API   *)
(* hands out exactly as the view as_ref() that ==, hash and Display use.  *)
KindPredicatesAgree ==
  res.ok /\ AsRef(res.addr).kind # "Panic" =>
    LET a == res.addr
        k == AsRef(a).kind
    IN  /\ IsUnnamed(a) <=> k = "Unnamed"
        /\ IsAbstract(a) <=> k = "Abstract"
        /\ IsPath(a) <=> k = "Path"
        /\ IsPath(a) <=> (IsAbsolutePath(a) \/ IsRelativePath(a))

(* The constructors new(), from_path(), from_abstract() and from_c_str()  *)
(* fail with exactly the error kinds of spec 4.2, and otherwise produce   *)
(* an address whose view is the path or name given: the trailing NUL     *)
(* from_path() adds when there is room never shows.                        *)
ConstructorsMatchSpec ==
  op \in {"new", "from_path", "from_abstract", "from_c_str"} =>
    Outcome(res) = SpecOutcome(op, arg)

(* new_from_ffi() refuses a report that lost more than one byte and a     *)
(* non-Unix family, and otherwise returns an address whose view is the    *)
(* name the kernel reported: clamping an over-long length and appending a *)
(* terminating NUL never change it.                                        *)
FfiMatchesKernelName ==
  op = "new_from_ffi" /\ ~arg.fails /\ ReportIsCString(arg) =>
    Outcome(res) = IF arg.family # AF_UNIX THEN Failed("InvalidData")
                   ELSE KernelName(arg)

(* An address made by new(s) is equal, by PartialEq<[u8]>, to s with a    *)
(* leading '@' unescaped to the NUL marker: new()'s parser and the byte    *)
(* comparison agree on where a name starts and what a path includes.       *)
NewEqualsUnescapedInput ==
  op = "new" /\ res.ok =>
    EqBytes(res.addr, IF arg # <<>> /\ Head(arg) = AT THEN <<NUL>> \o Tail(arg) ELSE arg)

(* Spec 3: every address made by a safe constructor has                   *)
(* path_offset() <= len <= size_of::<sockaddr_un>().                      *)
SafeConstructorsKeepLenInvariant ==
  op \in SafeConstructors /\ res.ok =>
    PathOffset <= res.addr.len /\ res.addr.len <= Capacity

(* Handing an address the client holds to from_raw() through              *)
(* as_raw_general() gives back an equal address.                           *)
RawRoundTrip ==
  op = "from_raw_of_held" => res.ok /\ AddrEq(res.addr, arg)

=============================================================================
