--------------------------- MODULE ExchangeProofs ---------------------------
(***************************************************************************)
(* Proofs about Exchange, for any number of processes, wallets, messages,  *)
(* kills and changes of the bus.                                           *)
(***************************************************************************)
EXTENDS Exchange, SequenceTheorems, TLAPS

-----------------------------------------------------------------------------
(* The inductive invariant, in named parts *)

\* What holds of a process by itself: the library is up while a message is
\* under way, and a message under way has a number.
HostOK(h) ==
  /\ h \in Hosts
  /\ Holds(h)
  /\ h.at \notin {"off", "idle"} => h.library
  /\ h.at \in {"listed", "opened", "written", "answered"} => h.id \in Ids
  /\ h.at = "made" /\ h.job = "message" => h.id \in Ids

HostInv == \A p \in Processes : HostOK(host[p])

Empty(w) == wallet[w].in = <<>> /\ wallet[w].out = <<>>

\* A path nobody has had yet: not listed, not open, nothing pending.
FreshInv ==
  \A w \in fresh : /\ ~Contains(bus, w)
                   /\ Empty(w)
                   /\ \A p \in Processes : host[p].handle # w

\* Nobody but its holder has a wallet open.
ExclusiveInv ==
  \A p, q \in Processes :
    host[p].handle = host[q].handle => p = q \/ host[p].handle = NoPath

Writing(p, w) == host[p].at = "written" /\ host[p].handle = w

\* The one message under way is the one p wrote.
OnlyItsOwn(p, w) ==
  \/ wallet[w].in = <<host[p].id>> /\ wallet[w].out = <<>>
  \/ wallet[w].in = <<>> /\ wallet[w].out = <<host[p].id>>

\* While nobody was killed, a wallet that is plugged in holds what a process
\* that waits for it has written, and nothing else.
PendingInv ==
  kills = 0 =>
    \A w \in Paths : Contains(bus, w) =>
      /\ (\A p \in Processes : ~Writing(p, w)) => Empty(w)
      /\ \A p \in Processes : Writing(p, w) => OnlyItsOwn(p, w)

IInv == TypeOK /\ HostInv /\ FreshInv /\ ExclusiveInv /\ PendingInv /\ OwnAnswer

-----------------------------------------------------------------------------
(* Sequences *)

LEMMA ContainsConcat ==
  ASSUME NEW S, NEW s \in Seq(S), NEW t \in Seq(S)
  PROVE  /\ s \o t \in Seq(S)
         /\ \A x : Contains(s \o t, x) => Contains(s, x) \/ Contains(t, x)
PROOF
<1>1. /\ Len(s) \in Nat /\ Len(t) \in Nat /\ s \o t \in Seq(S)
      /\ Len(s \o t) = Len(s) + Len(t)
  BY ConcatProperties, LenProperties
<1>2. ASSUME NEW i \in 1 .. Len(s \o t)
      PROVE  Contains(s, (s \o t)[i]) \/ Contains(t, (s \o t)[i])
  <2>1. i \in 1 .. Len(s) + Len(t)
    BY <1>1
  <2>2. CASE i <= Len(s)
    <3>1. (s \o t)[i] = s[i] /\ i \in 1 .. Len(s)
      BY <2>1, <2>2, <1>1, ConcatProperties
    <3> QED BY <3>1 DEF Contains
  <2>3. CASE ~(i <= Len(s))
    <3>1. (s \o t)[i] = t[i - Len(s)]
      BY <2>1, <2>3, ConcatProperties
    <3>2. i - Len(s) \in 1 .. Len(t)
      BY <2>1, <2>3, <1>1
    <3> QED BY <3>1, <3>2 DEF Contains
  <2> QED BY <2>2, <2>3
<1> QED BY <1>1, <1>2 DEF Contains

LEMMA ContainsSubSeq ==
  ASSUME NEW S, NEW s \in Seq(S), NEW m \in Nat \ {0}, NEW n \in Int, n <= Len(s)
  PROVE  /\ SubSeq(s, m, n) \in Seq(S)
         /\ \A x : Contains(SubSeq(s, m, n), x) => Contains(s, x)
PROOF
<1>1. Len(s) \in Nat /\ \A i \in m .. n : i \in 1 .. Len(s) /\ s[i] \in S
  BY LenProperties, ElementOfSeq
<1>2. /\ SubSeq(s, m, n) \in Seq(S)
      /\ Len(SubSeq(s, m, n)) = IF m <= n THEN n - m + 1 ELSE 0
      /\ \A i \in 1 .. n - m + 1 : SubSeq(s, m, n)[i] = s[m + i - 1]
  BY <1>1, SubSeqProperties
<1>3. ASSUME NEW i \in 1 .. Len(SubSeq(s, m, n))
      PROVE  Contains(s, SubSeq(s, m, n)[i])
  <2>1. i \in 1 .. n - m + 1
    BY <1>2
  <2>2. SubSeq(s, m, n)[i] = s[m + i - 1] /\ m + i - 1 \in m .. n
    BY <2>1, <1>2
  <2> QED BY <2>2, <1>1 DEF Contains
<1> QED BY <1>2, <1>3 DEF Contains

\* The bus after a wallet was plugged in.
LEMMA Inserted ==
  ASSUME NEW S, NEW s \in Seq(S), NEW e \in S, NEW i \in 1 .. Len(s) + 1
  PROVE  /\ InsertAt(s, i, e) \in Seq(S)
         /\ \A x : Contains(InsertAt(s, i, e), x) => x = e \/ Contains(s, x)
PROOF
<1> DEFINE a == SubSeq(s, 1, i - 1)
           b == SubSeq(s, i, Len(s))
<1>1. a \in Seq(S) /\ \A x : Contains(a, x) => Contains(s, x)
  BY ContainsSubSeq, LenProperties
<1>2. b \in Seq(S) /\ \A x : Contains(b, x) => Contains(s, x)
  BY ContainsSubSeq, LenProperties
<1>3. <<e>> \in Seq(S) /\ \A x : Contains(<<e>>, x) => x = e
  BY DEF Contains
<1>4. InsertAt(s, i, e) = a \o <<e>> \o b
  BY DEF InsertAt
<1> HIDE DEF a, b
<1>5. /\ a \o <<e>> \in Seq(S)
      /\ \A x : Contains(a \o <<e>>, x) => Contains(a, x) \/ Contains(<<e>>, x)
  BY <1>1, <1>3, ContainsConcat
<1>6. /\ a \o <<e>> \o b \in Seq(S)
      /\ \A x : Contains(a \o <<e>> \o b, x) => Contains(a \o <<e>>, x) \/ Contains(b, x)
  BY <1>2, <1>5, ContainsConcat
<1> QED BY <1>1, <1>2, <1>3, <1>4, <1>5, <1>6, Zenon

\* The bus after a wallet was pulled out.
LEMMA Removed ==
  ASSUME NEW S, NEW s \in Seq(S), NEW i \in 1 .. Len(s)
  PROVE  /\ RemoveAt(s, i) \in Seq(S)
         /\ \A x : Contains(RemoveAt(s, i), x) => Contains(s, x)
PROOF
<1> DEFINE a == SubSeq(s, 1, i - 1)
           b == SubSeq(s, i + 1, Len(s))
<1>1. a \in Seq(S) /\ \A x : Contains(a, x) => Contains(s, x)
  BY ContainsSubSeq, LenProperties
<1>2. b \in Seq(S) /\ \A x : Contains(b, x) => Contains(s, x)
  BY ContainsSubSeq, LenProperties
<1>3. RemoveAt(s, i) = a \o b
  BY DEF RemoveAt
<1> HIDE DEF a, b
<1>4. a \o b \in Seq(S) /\ \A x : Contains(a \o b, x) => Contains(a, x) \/ Contains(b, x)
  BY <1>1, <1>2, ContainsConcat
<1> QED BY <1>1, <1>2, <1>3, <1>4, Zenon

\* What hid_close leaves of the answers taken: all are of the ones there were.
LEMMA Released ==
  ASSUME NEW S, NEW s \in Seq(S), NEW n \in 0 .. Len(s)
  PROVE  /\ SubSeq(s, n + 1, Len(s)) \in Seq(S)
         /\ s = <<>> => SubSeq(s, n + 1, Len(s)) = <<>>
         /\ Len(SubSeq(s, n + 1, Len(s))) <= Len(s)
PROOF
<1>1. SubSeq(s, n + 1, Len(s)) \in Seq(S)
  BY ContainsSubSeq, LenProperties
<1>2. s = <<>> => SubSeq(s, n + 1, Len(s)) = <<>>
  BY SubSeqEmpty, EmptySeq, LenProperties
<1>3. Len(SubSeq(s, n + 1, Len(s))) <= Len(s)
  <2>1. Len(s) \in Nat /\ \A i \in n + 1 .. Len(s) : s[i] \in S
    BY LenProperties, ElementOfSeq
  <2>2. Len(SubSeq(s, n + 1, Len(s))) =
          IF n + 1 <= Len(s) THEN Len(s) - (n + 1) + 1 ELSE 0
    BY <2>1, SubSeqProperties
  <2> QED BY <2>1, <2>2
<1> QED BY <1>1, <1>2, <1>3

-----------------------------------------------------------------------------
(* Steps *)

LEMMA OffOK ==
  /\ HostOK(Off)
  /\ Off.at = "off" /\ Off.handle = NoPath /\ ~Off.calm
BY ExchangeAssumption DEF Off, Hosts, Holds, HostOK

LEMMA InitInv == Init => IInv
PROOF
<1> SUFFICES ASSUME Init PROVE IInv
  OBVIOUS
<1> USE ExchangeAssumption
<1>1. Off \in Hosts /\ Holds(Off) /\ HostOK(Off)
  BY OffOK DEF HostOK
<1>2. HostInv /\ host \in [Processes -> Hosts] /\ \A p \in Processes : Holds(host[p])
  BY <1>1 DEF Init, HostInv
<1>3. wallet \in [Paths -> [in : Seq(Ids), out : Seq(Ids), asked : 0 .. MaxMessages]]
  BY EmptySeq DEF Init
<1>4. TypeOK
  BY <1>2, <1>3 DEF TypeOK, Init
<1>5. FreshInv
  BY DEF FreshInv, Init, Empty, Off
<1>6. ExclusiveInv
  BY DEF ExclusiveInv, Init, Off
<1>7. PendingInv
  BY DEF PendingInv, Init, Empty, Off, Writing
<1>8. OwnAnswer
  BY DEF OwnAnswer, Init, Off
<1> QED BY <1>2, <1>4, <1>5, <1>6, <1>7, <1>8 DEF IInv

\* A step of process p alone, which writes and reads nothing; it may open a
\* wallet that nobody has open.
LEMMA HostOnly ==
  ASSUME IInv, NEW p \in Processes, NEW h,
         Becomes(p, h), HostOK(h),
         UNCHANGED <<bus, fresh, wallet, kills, changes>>,
         sent' \in 0 .. MaxMessages,
         host[p].at # "written", h.at # "written",
         h.at = "answered" => h = host[p],
         \/ h.handle = NoPath
         \/ h.handle = host[p].handle
         \/ Contains(bus, h.handle) /\ \A q \in Processes : host[q].handle # h.handle
  PROVE  IInv'
PROOF
<1>1. /\ host' \in [Processes -> Hosts]
      /\ host'[p] = h
      /\ \A q \in Processes : q # p => host'[q] = host[q]
      /\ \A q \in Processes : HostOK(host'[q])
  BY DEF IInv, TypeOK, Becomes, HostInv, HostOK
<1>2. TypeOK'
  BY <1>1 DEF IInv, TypeOK, HostOK
<1>3. HostInv'
  BY <1>1 DEF HostInv
<1>4. FreshInv'
  BY <1>1, ExchangeAssumption DEF IInv, FreshInv, Empty, TypeOK
<1>5. ExclusiveInv'
  BY <1>1 DEF IInv, ExclusiveInv
<1>6. \A q \in Processes, w \in Paths :
        Writing(q, w)' <=> Writing(q, w)
  BY <1>1 DEF Writing
<1>7. PendingInv'
  BY <1>1, <1>6 DEF IInv, PendingInv, Empty, OnlyItsOwn, Writing
<1>8. OwnAnswer'
  BY <1>1 DEF IInv, OwnAnswer
<1> QED BY <1>2, <1>3, <1>4, <1>5, <1>7, <1>8 DEF IInv

LEMMA StartStep ==
  ASSUME IInv, NEW p \in Processes, Start(p)
  PROVE  IInv'
PROOF
<1> DEFINE h == [Off EXCEPT !.at = "idle", !.calm = Quiet]
<1>1. HostOK(h) /\ h.at = "idle" /\ h.handle = NoPath
  <2>1. Quiet \in BOOLEAN
    BY DEF Quiet
  <2> QED BY <2>1, OffOK DEF Hosts, Holds, HostOK
<1> QED BY <1>1, HostOnly DEF Start, IInv, TypeOK

LEMMA ListUsbStep ==
  ASSUME IInv, NEW p \in Processes, ListUsb(p)
  PROVE  IInv'
PROOF
<1> DEFINE h == [Off EXCEPT !.at = "made", !.job = "list", !.library = TRUE]
<1>1. HostOK(h) /\ h.at = "made" /\ h.handle = NoPath
  BY OffOK DEF Hosts, Holds, HostOK
<1> QED BY <1>1, HostOnly DEF ListUsb, IInv, TypeOK

LEMMA MakeKernelStep ==
  ASSUME IInv, NEW p \in Processes, MakeKernel(p)
  PROVE  IInv'
PROOF
<1> DEFINE h == [host[p] EXCEPT !.at = "made", !.library = TRUE, !.id = sent']
<1>1. sent' \in Ids /\ sent' \in 0 .. MaxMessages
  BY ExchangeAssumption DEF MakeKernel, IInv, TypeOK, Ids
<1>2. HostOK(host[p]) /\ host[p].at = "idle"
  BY DEF IInv, HostInv, MakeKernel
<1>3. HostOK(h) /\ h.at = "made" /\ h.handle = NoPath
  BY <1>1, <1>2 DEF Hosts, Holds, HostOK
<1> QED BY <1>1, <1>2, <1>3, HostOnly DEF MakeKernel

LEMMA EnumerateStep ==
  ASSUME IInv, NEW p \in Processes, Enumerate(p)
  PROVE  IInv'
PROOF
<1>1. HostOK(host[p]) /\ host[p].at = "made"
  BY DEF IInv, HostInv, Enumerate
<1>2. PICK h : /\ Becomes(p, h)
               /\ \/ host[p].job = "list" /\ h = [host[p] EXCEPT !.at = "leaving"]
                  \/ h = [host[p] EXCEPT !.at = "leaving", !.failed = TRUE]
                  \/ /\ host[p].job = "message" /\ bus # <<>>
                     /\ h = [host[p] EXCEPT !.at = "listed", !.dev = bus[1]]
  BY <1>1 DEF Enumerate, HostOK, Hosts
<1>3. bus # <<>> => bus[1] \in Paths
  BY ElementOfSeq, EmptySeq DEF IInv, TypeOK
<1>4. HostOK(h) /\ h.at \in {"leaving", "listed"} /\ h.handle = host[p].handle
  BY <1>1, <1>2, <1>3 DEF HostOK, Hosts, Holds
<1> QED BY <1>1, <1>2, <1>4, HostOnly DEF Enumerate, IInv, TypeOK

LEMMA OpenStep ==
  ASSUME IInv, NEW p \in Processes, Open(p)
  PROVE  IInv'
PROOF
<1> DEFINE h == [host[p] EXCEPT !.at = "opened", !.handle = host[p].dev]
<1>1. HostOK(host[p]) /\ host[p].at = "listed"
  BY DEF IInv, HostInv, Open
<1>2. host[p].dev \in Paths
  BY ElementOfSeq DEF Open, Contains, IInv, TypeOK
<1>3. HostOK(h) /\ h.at = "opened" /\ h.handle = host[p].dev
  BY <1>1, <1>2, ExchangeAssumption DEF HostOK, Hosts, Holds
<1> QED BY <1>1, <1>3, HostOnly DEF Open, IInv, TypeOK

LEMMA ThrowsStep ==
  ASSUME IInv, NEW p \in Processes, Throws(p)
  PROVE  IInv'
PROOF
<1> DEFINE h == [host[p] EXCEPT !.at = "leaving", !.failed = TRUE]
<1>1. HostOK(host[p]) /\ host[p].at \in {"listed", "answered"}
  BY DEF IInv, HostInv, Throws
<1>2. HostOK(h) /\ h.at = "leaving" /\ h.handle = host[p].handle
  BY <1>1 DEF HostOK, Hosts, Holds
<1> QED BY <1>1, <1>2, HostOnly DEF Throws, IInv, TypeOK

LEMMA DecodeStep ==
  ASSUME IInv, NEW p \in Processes, Decode(p)
  PROVE  IInv'
PROOF
<1> DEFINE h == [host[p] EXCEPT !.at = "leaving", !.reply_to = host[p].got]
<1>1. HostOK(host[p]) /\ host[p].at = "answered"
  BY DEF IInv, HostInv, Decode
<1>2. HostOK(h) /\ h.at = "leaving" /\ h.handle = host[p].handle
  BY <1>1 DEF HostOK, Hosts, Holds
<1> QED BY <1>1, <1>2, HostOnly DEF Decode, IInv, TypeOK

LEMMA DestroyKernelStep ==
  ASSUME IInv, NEW p \in Processes, DestroyKernel(p)
  PROVE  IInv'
PROOF
<1>1. HostOK(host[p]) /\ host[p].at = "closed"
  BY DEF IInv, HostInv, DestroyKernel
<1>2. PICK h : /\ Becomes(p, h)
               /\ h = Off \/ h = [host[p] EXCEPT !.at = "idle", !.library = FALSE]
  BY DEF DestroyKernel
<1>3. HostOK(h) /\ h.at \in {"off", "idle"} /\ h.handle = NoPath
  BY <1>1, <1>2, OffOK DEF HostOK, Hosts, Holds
<1> QED BY <1>1, <1>2, <1>3, HostOnly DEF DestroyKernel, IInv, TypeOK

LEMMA ReturnStep ==
  ASSUME IInv, NEW p \in Processes, Return(p)
  PROVE  IInv'
PROOF
<1> QED BY OffOK, HostOnly DEF Return, IInv, TypeOK

\* hid_close changes nothing but the answers of the wallet it closes.
LEMMA ReleaseStep ==
  ASSUME TypeOK, NEW v \in Paths \union {NoPath}, Release(v)
  PROVE  /\ wallet' \in [Paths -> [in : Seq(Ids), out : Seq(Ids), asked : 0 .. MaxMessages]]
         /\ \A w \in Paths : /\ wallet'[w].in = wallet[w].in
                             /\ wallet'[w].asked = wallet[w].asked
                             /\ w # v => wallet'[w] = wallet[w]
                             /\ wallet[w].out = <<>> => wallet'[w].out = <<>>
                             /\ Len(wallet'[w].out) <= Len(wallet[w].out)
PROOF
<1>0. \A w \in Paths : Len(wallet[w].out) \in Nat
  BY LenProperties DEF TypeOK
<1>1. CASE v = NoPath
  BY <1>0, <1>1 DEF Release, TypeOK
<1>2. CASE v # NoPath
  <2>1. PICK n \in 0 .. Len(wallet[v].out) :
          wallet' = [wallet EXCEPT ![v].out = SubSeq(@, n + 1, Len(@))]
    BY <1>2 DEF Release
  <2>2. v \in Paths /\ wallet[v].out \in Seq(Ids)
    BY <1>2 DEF TypeOK
  <2> DEFINE left == SubSeq(wallet[v].out, n + 1, Len(wallet[v].out))
  <2>3. /\ left \in Seq(Ids) /\ (wallet[v].out = <<>> => left = <<>>)
        /\ Len(left) <= Len(wallet[v].out)
    BY <2>2, Released
  <2>4. wallet' = [wallet EXCEPT ![v].out = left]
    BY <2>1
  <2> HIDE DEF left
  <2>5. /\ wallet' \in [Paths -> [in : Seq(Ids), out : Seq(Ids), asked : 0 .. MaxMessages]]
        /\ wallet'[v] = [wallet[v] EXCEPT !.out = left]
        /\ \A w \in Paths : w # v => wallet'[w] = wallet[w]
    BY <2>2, <2>3, <2>4 DEF TypeOK
  <2>6. /\ wallet'[v].out = left /\ wallet'[v].in = wallet[v].in
        /\ wallet'[v].asked = wallet[v].asked
    BY <2>2, <2>5 DEF TypeOK
  <2>7. ASSUME NEW w \in Paths
        PROVE  Len(wallet'[w].out) <= Len(wallet[w].out)
    <3>1. CASE w = v
      BY <3>1, <2>3, <2>6
    <3>2. CASE w # v
      <4>1. Len(wallet'[w].out) = Len(wallet[w].out)
        BY <3>2, <2>5
      <4> QED BY <4>1, <1>0
    <3> QED BY <3>1, <3>2
  <2> QED BY <2>3, <2>5, <2>6, <2>7
<1> QED BY <1>1, <1>2

\* Process p closes what it holds; it waits for nothing a plugged-in wallet
\* could still send.
LEMMA ClosingStep ==
  ASSUME IInv, NEW p \in Processes, NEW h,
         Becomes(p, h), HostOK(h), Release(host[p].handle),
         UNCHANGED <<bus, fresh, sent, kills, changes>>,
         host[p].at = "written" => ~Contains(bus, host[p].handle),
         h.at \in {"leaving", "closed"}, h.handle = NoPath
  PROVE  IInv'
PROOF
<1>1. /\ host' \in [Processes -> Hosts]
      /\ host'[p] = h
      /\ \A q \in Processes : q # p => host'[q] = host[q]
      /\ \A q \in Processes : HostOK(host'[q])
  BY DEF IInv, TypeOK, Becomes, HostInv, HostOK
<1>2. host[p].handle \in Paths \union {NoPath}
  BY DEF IInv, HostInv, HostOK, Hosts
<1>3. /\ wallet' \in [Paths -> [in : Seq(Ids), out : Seq(Ids), asked : 0 .. MaxMessages]]
      /\ \A w \in Paths : /\ wallet'[w].in = wallet[w].in
                          /\ w # host[p].handle => wallet'[w] = wallet[w]
                          /\ wallet[w].out = <<>> => wallet'[w].out = <<>>
  BY <1>2, ReleaseStep DEF IInv
<1>4. TypeOK'
  BY <1>1, <1>3 DEF IInv, TypeOK, HostOK
<1>5. HostInv'
  BY <1>1 DEF HostInv
<1>6. FreshInv'
  BY <1>1, <1>3, ExchangeAssumption DEF IInv, FreshInv, Empty, TypeOK
<1>7. ExclusiveInv'
  BY <1>1 DEF IInv, ExclusiveInv
<1>8. PendingInv'
  <2> SUFFICES ASSUME kills = 0, NEW w \in Paths, Contains(bus, w)
               PROVE  /\ (\A q \in Processes : ~Writing(q, w)') => Empty(w)'
                      /\ \A q \in Processes : Writing(q, w)' => OnlyItsOwn(q, w)'
    BY DEF PendingInv
  <2>1. \A q \in Processes : Writing(q, w)' <=> Writing(q, w)
    BY <1>1 DEF Writing
  <2>2. (\A q \in Processes : ~Writing(q, w)') => Empty(w)'
    BY <2>1, <1>3 DEF IInv, PendingInv, Empty
  <2>3. ASSUME NEW q \in Processes, Writing(q, w)'
        PROVE  OnlyItsOwn(q, w)'
    <3>1. Writing(q, w) /\ q # p /\ host'[q] = host[q]
      BY <2>1, <2>3, <1>1 DEF Writing
    <3>2. w # host[p].handle
      BY <3>1, ExchangeAssumption DEF IInv, ExclusiveInv, Writing
    <3> QED BY <3>1, <3>2, <1>3 DEF IInv, PendingInv, OnlyItsOwn
  <2> QED BY <2>2, <2>3
<1>9. OwnAnswer'
  BY <1>1 DEF IInv, OwnAnswer
<1> QED BY <1>4, <1>5, <1>6, <1>7, <1>8, <1>9 DEF IInv

LEMMA CallThrowsStep ==
  ASSUME IInv, NEW p \in Processes, CallThrows(p)
  PROVE  IInv'
PROOF
<1> DEFINE h == [host[p] EXCEPT !.at = "leaving", !.failed = TRUE, !.handle = NoPath]
<1>1. HostOK(host[p]) /\ host[p].at \in {"opened", "written"}
  BY DEF IInv, HostInv, CallThrows
<1>2. HostOK(h) /\ h.at = "leaving" /\ h.handle = NoPath
  BY <1>1 DEF HostOK, Hosts, Holds
<1> QED BY <1>2, ClosingStep DEF CallThrows

LEMMA DestroyDeviceStep ==
  ASSUME IInv, NEW p \in Processes, DestroyDevice(p)
  PROVE  IInv'
PROOF
<1> DEFINE h == [host[p] EXCEPT !.at = "closed", !.dev = NoPath, !.handle = NoPath]
<1>1. HostOK(host[p]) /\ host[p].at = "leaving"
  BY DEF IInv, HostInv, DestroyDevice
<1>2. HostOK(h) /\ h.at = "closed" /\ h.handle = NoPath
  BY <1>1 DEF HostOK, Hosts, Holds
<1> QED BY <1>1, <1>2, ClosingStep DEF DestroyDevice

\* A process that is disturbed stays where it is.
LEMMA DisturbsStep ==
  ASSUME IInv, NEW p \in Processes, NEW h, HostOK(h), Disturbs(p, h)
  PROVE  /\ host' \in [Processes -> Hosts]
         /\ host'[p] = h
         /\ \A q \in Processes : HostOK(host'[q])
         /\ \A q \in Processes : q # p =>
              /\ host'[q].at = host[q].at /\ host'[q].handle = host[q].handle
              /\ host'[q].id = host[q].id /\ host'[q].got = host[q].got
              /\ ~host'[q].calm
PROOF
<1>1. ASSUME NEW q \in Processes, q # p
      PROVE  /\ HostOK(host'[q]) /\ ~host'[q].calm
             /\ host'[q].at = host[q].at /\ host'[q].handle = host[q].handle
             /\ host'[q].id = host[q].id /\ host'[q].got = host[q].got
  <2>1. host'[q] = [host[q] EXCEPT !.calm = FALSE] /\ HostOK(host[q])
    BY <1>1 DEF Disturbs, IInv, HostInv
  <2> QED BY <2>1 DEF HostOK, Hosts, Holds
<1>2. host'[p] = h
  BY DEF Disturbs
<1>3. \A q \in Processes : HostOK(host'[q])
  BY <1>1, <1>2
<1>4. host' \in [Processes -> Hosts]
  <2>1. host' = [q \in Processes |-> host'[q]]
    BY DEF Disturbs
  <2> QED BY <2>1, <1>3 DEF HostOK
<1> QED BY <1>1, <1>2, <1>3, <1>4

LEMMA WriteStep ==
  ASSUME IInv, NEW p \in Processes, Write(p)
  PROVE  IInv'
PROOF
<1> DEFINE h == [host[p] EXCEPT !.at = "written"]
<1>0. PICK v : v = host[p].handle
  OBVIOUS
<1>1. HostOK(host[p]) /\ host[p].at = "opened"
  BY DEF IInv, HostInv, Write
<1>2. HostOK(h) /\ h.at = "written" /\ h.handle = v /\ h.id = host[p].id /\ h.id \in Ids
  BY <1>0, <1>1 DEF HostOK, Hosts, Holds
<1>3. /\ host' \in [Processes -> Hosts]
      /\ host'[p] = h
      /\ \A q \in Processes : HostOK(host'[q])
      /\ \A q \in Processes : q # p =>
           /\ host'[q].at = host[q].at /\ host'[q].handle = host[q].handle
           /\ host'[q].id = host[q].id /\ host'[q].got = host[q].got
  BY <1>2, DisturbsStep DEF Write
<1>4. v \in Paths /\ v # NoPath /\ Contains(bus, v)
  BY <1>0, <1>1, ExchangeAssumption DEF Write, HostOK, Hosts, Holds
<1>5. /\ wallet' = [wallet EXCEPT ![v].in = Append(@, host[p].id)]
      /\ UNCHANGED <<bus, fresh, sent, kills, changes>>
  BY <1>0 DEF Write
<1> HIDE DEF h
<1>6. /\ wallet' \in [Paths -> [in : Seq(Ids), out : Seq(Ids), asked : 0 .. MaxMessages]]
      /\ \A w \in Paths : w # v => wallet'[w] = wallet[w]
      /\ wallet'[v].in = Append(wallet[v].in, host[p].id)
      /\ wallet'[v].out = wallet[v].out
  <2>1. wallet[v].in \in Seq(Ids) /\ Append(wallet[v].in, host[p].id) \in Seq(Ids)
    BY <1>2, <1>4 DEF IInv, TypeOK
  <2> QED BY <2>1, <1>4, <1>5 DEF IInv, TypeOK
<1>7. TypeOK'
  BY <1>3, <1>5, <1>6 DEF IInv, TypeOK, HostOK
<1>8. HostInv'
  BY <1>3 DEF HostInv
<1>9. FreshInv'
  <2>1. v \notin fresh /\ fresh \subseteq Paths
    BY <1>0 DEF IInv, FreshInv, TypeOK
  <2>2. ASSUME NEW w \in fresh
        PROVE  ~Contains(bus, w) /\ Empty(w)' /\ \A q \in Processes : host'[q].handle # w
    BY <2>1, <2>2, <1>2, <1>3, <1>6 DEF IInv, FreshInv, Empty
  <2> QED BY <2>2, <1>5 DEF FreshInv
<1>10. ExclusiveInv'
  BY <1>0, <1>2, <1>3 DEF IInv, ExclusiveInv
<1>11. \A q \in Processes : q # p => host[q].handle # v
  BY <1>0, <1>4 DEF IInv, ExclusiveInv
<1>12. PendingInv'
  <2> SUFFICES ASSUME kills = 0, NEW w \in Paths, Contains(bus, w)
               PROVE  /\ (\A q \in Processes : ~Writing(q, w)') => Empty(w)'
                      /\ \A q \in Processes : Writing(q, w)' => OnlyItsOwn(q, w)'
    BY <1>5 DEF PendingInv
  <2>1. CASE w # v
    <3>1. \A q \in Processes : Writing(q, w)' <=> Writing(q, w)
      BY <2>1, <1>1, <1>2, <1>3 DEF Writing
    <3>2. /\ (\A q \in Processes : ~Writing(q, w)) => Empty(w)
          /\ \A q \in Processes : Writing(q, w) => OnlyItsOwn(q, w)
      BY DEF IInv, PendingInv
    <3>3. wallet'[w] = wallet[w]
      BY <2>1, <1>6
    <3>4. Empty(w)' <=> Empty(w)
      BY <3>3 DEF Empty
    <3>5. ASSUME NEW q \in Processes, Writing(q, w), OnlyItsOwn(q, w)
          PROVE  OnlyItsOwn(q, w)'
      <4>1. q # p
        BY <1>1, <3>5 DEF Writing
      <4> QED BY <1>3, <3>3, <3>5, <4>1 DEF OnlyItsOwn
    <3> QED BY <3>1, <3>2, <3>4, <3>5
  <2>2. CASE w = v
    <3>1. Empty(v)
      BY <2>2, <1>1, <1>11 DEF IInv, PendingInv, Writing
    <3>2. wallet'[v].in = <<host'[p].id>> /\ wallet'[v].out = <<>>
      BY <3>1, <1>2, <1>3, <1>6 DEF Empty
    <3>3. Writing(p, v)' /\ \A q \in Processes : Writing(q, v)' => q = p
      BY <1>2, <1>3, <1>11 DEF Writing
    <3> QED BY <2>2, <3>2, <3>3 DEF OnlyItsOwn
  <2> QED BY <2>1, <2>2
<1>13. OwnAnswer'
  BY <1>2, <1>3, <1>5 DEF IInv, OwnAnswer
<1> QED BY <1>7, <1>8, <1>9, <1>10, <1>12, <1>13 DEF IInv

LEMMA ReadStep ==
  ASSUME IInv, NEW p \in Processes, Read(p)
  PROVE  IInv'
PROOF
<1>0. PICK v : v = host[p].handle
  OBVIOUS
<1> DEFINE h == [host[p] EXCEPT !.at = "answered", !.got = Head(wallet[v].out)]
<1>1. HostOK(host[p]) /\ host[p].at = "written"
  BY DEF IInv, HostInv, Read
<1>2. v \in Paths /\ v # NoPath /\ Contains(bus, v)
  BY <1>0, <1>1, ExchangeAssumption DEF Read, HostOK, Hosts, Holds
<1>3. /\ wallet[v].out # <<>> /\ wallet[v].out \in Seq(Ids)
      /\ Head(wallet[v].out) \in Ids /\ Tail(wallet[v].out) \in Seq(Ids)
  BY <1>0, <1>2, HeadTailProperties DEF Read, IInv, TypeOK
<1>4. HostOK(h) /\ h.at = "answered" /\ h.handle = v /\ h.got = Head(wallet[v].out) /\ h.id = host[p].id
  <2>1. Head(wallet[v].out) \in 0 .. MaxMessages
    BY <1>3, ExchangeAssumption DEF Ids
  <2> HIDE DEF h
  <2>2. PICK x \in 0 .. MaxMessages : x = Head(wallet[v].out)
    BY <2>1
  <2>3. h = [host[p] EXCEPT !.at = "answered", !.got = x]
    BY <2>2 DEF h
  <2> QED BY <1>0, <1>1, <2>2, <2>3 DEF HostOK, Hosts, Holds
<1>5. /\ Becomes(p, h)
      /\ wallet' = [wallet EXCEPT ![v].out = Tail(@)]
      /\ UNCHANGED <<bus, fresh, sent, kills, changes>>
  BY <1>0 DEF Read
<1>6. kills = 0 => wallet[v].in = <<>> /\ wallet[v].out = <<host[p].id>>
  BY <1>0, <1>1, <1>2, <1>3 DEF IInv, PendingInv, Writing, OnlyItsOwn
<1> HIDE DEF h
<1>7. /\ host' \in [Processes -> Hosts]
      /\ host'[p] = h
      /\ \A q \in Processes : q # p => host'[q] = host[q]
      /\ \A q \in Processes : HostOK(host'[q])
  BY <1>4, <1>5 DEF IInv, TypeOK, Becomes, HostInv, HostOK
<1>8. /\ wallet' \in [Paths -> [in : Seq(Ids), out : Seq(Ids), asked : 0 .. MaxMessages]]
      /\ \A w \in Paths : w # v => wallet'[w] = wallet[w]
      /\ wallet'[v].in = wallet[v].in
      /\ wallet'[v].out = Tail(wallet[v].out)
  BY <1>2, <1>3, <1>5 DEF IInv, TypeOK
<1>9. TypeOK'
  BY <1>5, <1>7, <1>8 DEF IInv, TypeOK, HostOK
<1>10. HostInv'
  BY <1>7 DEF HostInv
<1>11. FreshInv'
  <2>1. v \notin fresh /\ fresh \subseteq Paths
    BY <1>0 DEF IInv, FreshInv, TypeOK
  <2>2. ASSUME NEW w \in fresh
        PROVE  ~Contains(bus, w) /\ Empty(w)' /\ \A q \in Processes : host'[q].handle # w
    BY <2>1, <2>2, <1>4, <1>7, <1>8 DEF IInv, FreshInv, Empty
  <2> QED BY <2>2, <1>5 DEF FreshInv
<1>12. ExclusiveInv'
  BY <1>0, <1>4, <1>7 DEF IInv, ExclusiveInv
<1>13. PendingInv'
  <2> SUFFICES ASSUME kills = 0, NEW w \in Paths, Contains(bus, w)
               PROVE  /\ (\A q \in Processes : ~Writing(q, w)') => Empty(w)'
                      /\ \A q \in Processes : Writing(q, w)' => OnlyItsOwn(q, w)'
    BY <1>5 DEF PendingInv
  <2>1. CASE w # v
    <3>1. \A q \in Processes : Writing(q, w)' <=> Writing(q, w)
      BY <2>1, <1>0, <1>4, <1>7 DEF Writing
    <3>2. \A q \in Processes : Writing(q, w) => q # p
      BY <2>1, <1>0 DEF Writing
    <3> QED BY <3>1, <3>2, <2>1, <1>7, <1>8 DEF IInv, PendingInv, Empty, OnlyItsOwn
  <2>2. CASE w = v
    <3>1. Empty(v)'
      <4>1. Tail(<<host[p].id>>) = <<>>
        OBVIOUS
      <4> QED BY <4>1, <1>6, <1>8 DEF Empty
    <3>2. \A q \in Processes : ~Writing(q, v)'
      BY <1>0, <1>2, <1>4, <1>7 DEF Writing, IInv, ExclusiveInv
    <3> QED BY <2>2, <3>1, <3>2
  <2> QED BY <2>1, <2>2
<1>14. OwnAnswer'
  BY <1>4, <1>5, <1>6, <1>7 DEF IInv, OwnAnswer
<1> QED BY <1>9, <1>10, <1>11, <1>12, <1>13, <1>14 DEF IInv

LEMMA KillStep ==
  ASSUME IInv, NEW p \in Processes, Kill(p)
  PROVE  IInv'
PROOF
<1>1. /\ host' \in [Processes -> Hosts]
      /\ host'[p] = Off
      /\ \A q \in Processes : HostOK(host'[q])
      /\ \A q \in Processes : q # p =>
           /\ host'[q].at = host[q].at /\ host'[q].handle = host[q].handle
  BY OffOK, DisturbsStep DEF Kill
<1>2. host[p].handle \in Paths \union {NoPath}
  BY DEF IInv, HostInv, HostOK, Hosts
<1>3. /\ wallet' \in [Paths -> [in : Seq(Ids), out : Seq(Ids), asked : 0 .. MaxMessages]]
      /\ \A w \in Paths : /\ wallet'[w].in = wallet[w].in
                          /\ wallet[w].out = <<>> => wallet'[w].out = <<>>
  BY <1>2, ReleaseStep DEF IInv, Kill
<1>4. kills' \in 0 .. MaxKills /\ kills' # 0 /\ UNCHANGED <<bus, fresh, sent, changes>>
  BY ExchangeAssumption DEF Kill, IInv, TypeOK
<1>5. TypeOK'
  BY <1>1, <1>3, <1>4 DEF IInv, TypeOK, HostOK
<1>6. HostInv'
  BY <1>1 DEF HostInv
<1>7. FreshInv'
  BY <1>1, <1>3, <1>4, OffOK, ExchangeAssumption DEF IInv, FreshInv, Empty, TypeOK
<1>8. ExclusiveInv'
  BY <1>1, OffOK DEF IInv, ExclusiveInv
<1>9. PendingInv' /\ OwnAnswer'
  BY <1>4 DEF PendingInv, OwnAnswer
<1> QED BY <1>5, <1>6, <1>7, <1>8, <1>9 DEF IInv

LEMMA AnswerStep ==
  ASSUME IInv, NEW v \in Paths, Answer(v)
  PROVE  IInv'
PROOF
<1>1. /\ wallet[v].in # <<>> /\ wallet[v].in \in Seq(Ids) /\ wallet[v].out \in Seq(Ids)
      /\ Head(wallet[v].in) \in Ids /\ Tail(wallet[v].in) \in Seq(Ids)
      /\ Contains(bus, v)
  BY HeadTailProperties DEF Answer, IInv, TypeOK
<1>2. /\ wallet' \in [Paths -> [in : Seq(Ids), out : Seq(Ids), asked : 0 .. MaxMessages]]
      /\ \A w \in Paths : w # v => wallet'[w] = wallet[w]
      /\ wallet'[v].in = Tail(wallet[v].in)
      /\ wallet'[v].out = Append(wallet[v].out, Head(wallet[v].in))
  BY <1>1 DEF Answer, IInv, TypeOK, Ids
<1>3. UNCHANGED <<host, bus, fresh, sent, kills, changes>>
  BY DEF Answer
<1>4. TypeOK' /\ HostInv' /\ ExclusiveInv' /\ OwnAnswer'
  BY <1>2, <1>3 DEF IInv, TypeOK, HostInv, ExclusiveInv, OwnAnswer
<1>5. FreshInv'
  BY <1>1, <1>2, <1>3 DEF IInv, FreshInv, Empty, TypeOK
<1>6. PendingInv'
  <2> SUFFICES ASSUME kills = 0, NEW w \in Paths, Contains(bus, w)
               PROVE  /\ (\A q \in Processes : ~Writing(q, w)) => Empty(w)'
                      /\ \A q \in Processes : Writing(q, w) => OnlyItsOwn(q, w)'
    BY <1>3 DEF PendingInv, Writing
  <2>1. CASE w # v
    BY <2>1, <1>2, <1>3 DEF IInv, PendingInv, Empty, OnlyItsOwn
  <2>2. CASE w = v
    <3>1. ~ \A q \in Processes : ~Writing(q, v)
      BY <1>1, <2>2 DEF IInv, PendingInv, Empty
    <3>2. ASSUME NEW q \in Processes, Writing(q, v)
          PROVE  OnlyItsOwn(q, v)'
      <4>1. wallet[v].in = <<host[q].id>> /\ wallet[v].out = <<>>
        BY <1>1, <2>2, <3>2 DEF IInv, PendingInv, OnlyItsOwn
      <4> QED BY <4>1, <1>2, <1>3 DEF OnlyItsOwn
    <3> QED BY <2>2, <3>1, <3>2
  <2> QED BY <2>1, <2>2
<1> QED BY <1>4, <1>5, <1>6 DEF IInv

LEMMA UncalmedStep ==
  ASSUME IInv, host' = Uncalmed
  PROVE  /\ host' \in [Processes -> Hosts]
         /\ \A q \in Processes :
              /\ HostOK(host'[q])
              /\ host'[q].at = host[q].at /\ host'[q].handle = host[q].handle
              /\ host'[q].id = host[q].id /\ host'[q].got = host[q].got
              /\ ~host'[q].calm
PROOF
<1>1. ASSUME NEW q \in Processes
      PROVE  /\ HostOK(host'[q]) /\ ~host'[q].calm
             /\ host'[q].at = host[q].at /\ host'[q].handle = host[q].handle
             /\ host'[q].id = host[q].id /\ host'[q].got = host[q].got
  <2>1. host'[q] = [host[q] EXCEPT !.calm = FALSE] /\ HostOK(host[q])
    BY DEF Uncalmed, IInv, HostInv
  <2> QED BY <2>1 DEF HostOK, Hosts, Holds
<1>2. host' \in [Processes -> Hosts]
  <2>1. host' = [q \in Processes |-> host'[q]]
    BY DEF Uncalmed
  <2> QED BY <2>1, <1>1 DEF HostOK
<1> QED BY <1>1, <1>2

\* A change of the bus after which every wallet listed was listed before, or
\* is fresh.
LEMMA BusStep ==
  ASSUME IInv, host' = Uncalmed, UNCHANGED <<wallet, sent, kills>>,
         changes' \in 0 .. MaxChanges, bus' \in Seq(Paths), fresh' \subseteq fresh,
         \A w \in Paths : Contains(bus', w) => w \notin fresh' /\ (Contains(bus, w) \/ w \in fresh)
  PROVE  IInv'
PROOF
<1>1. /\ host' \in [Processes -> Hosts]
      /\ \A q \in Processes :
           /\ HostOK(host'[q])
           /\ host'[q].at = host[q].at /\ host'[q].handle = host[q].handle
           /\ host'[q].id = host[q].id /\ host'[q].got = host[q].got
  BY UncalmedStep
<1>2. TypeOK'
  BY <1>1 DEF IInv, TypeOK, HostOK
<1>3. HostInv'
  BY <1>1 DEF HostInv
<1>4. FreshInv'
  BY <1>1 DEF IInv, FreshInv, Empty, TypeOK
<1>5. ExclusiveInv' /\ OwnAnswer'
  BY <1>1 DEF IInv, ExclusiveInv, OwnAnswer
<1>6. PendingInv'
  <2> SUFFICES ASSUME kills = 0, NEW w \in Paths, Contains(bus', w)
               PROVE  /\ (\A q \in Processes : ~Writing(q, w)') => Empty(w)'
                      /\ \A q \in Processes : Writing(q, w)' => OnlyItsOwn(q, w)'
    BY DEF PendingInv
  <2>1. \A q \in Processes : Writing(q, w)' <=> Writing(q, w)
    BY <1>1 DEF Writing
  <2>2. CASE Contains(bus, w)
    BY <2>1, <2>2, <1>1 DEF IInv, PendingInv, Empty, OnlyItsOwn
  <2>3. CASE w \in fresh
    BY <2>1, <2>3 DEF IInv, FreshInv, Empty, Writing
  <2> QED BY <2>2, <2>3
<1> QED BY <1>2, <1>3, <1>4, <1>5, <1>6 DEF IInv

LEMMA PlugStep ==
  ASSUME IInv, NEW v \in Paths, Plug(v)
  PROVE  IInv'
PROOF
<1>1. PICK i \in 1 .. Len(bus) + 1 : bus' = InsertAt(bus, i, v)
  BY DEF Plug
<1>2. bus' \in Seq(Paths) /\ \A w : Contains(bus', w) => w = v \/ Contains(bus, w)
  BY <1>1, Inserted DEF IInv, TypeOK
<1>3. changes' \in 0 .. MaxChanges /\ v \in fresh /\ fresh' = fresh \ {v}
  BY ExchangeAssumption DEF Plug, IInv, TypeOK
<1>4. \A w \in Paths : Contains(bus', w) =>
        w \notin fresh' /\ (Contains(bus, w) \/ w \in fresh)
  BY <1>2, <1>3 DEF IInv, FreshInv
<1> QED BY <1>2, <1>3, <1>4, BusStep DEF Plug

LEMMA UnplugStep ==
  ASSUME IInv, NEW v \in Paths, Unplug(v)
  PROVE  IInv'
PROOF
<1>1. PICK i \in 1 .. Len(bus) : bus' = RemoveAt(bus, i)
  BY DEF Unplug
<1>2. bus' \in Seq(Paths) /\ \A w : Contains(bus', w) => Contains(bus, w)
  BY <1>1, Removed DEF IInv, TypeOK
<1>3. changes' \in 0 .. MaxChanges
  BY ExchangeAssumption DEF Unplug, IInv, TypeOK
<1>4. \A w \in Paths : Contains(bus', w) =>
        w \notin fresh /\ (Contains(bus, w) \/ w \in fresh)
  BY <1>2 DEF IInv, FreshInv
<1> QED BY <1>2, <1>3, <1>4, BusStep DEF Unplug

LEMMA NextInv == IInv /\ [Next]_vars => IInv'
PROOF
<1> SUFFICES ASSUME IInv, [Next]_vars PROVE IInv'
  OBVIOUS
<1>1. ASSUME NEW p \in Processes,
             \/ Start(p) \/ ListUsb(p) \/ MakeKernel(p) \/ HostStep(p) \/ Return(p) \/ Kill(p)
      PROVE  IInv'
  BY <1>1, StartStep, ListUsbStep, MakeKernelStep, EnumerateStep, OpenStep, ThrowsStep,
     WriteStep, ReadStep, CallThrowsStep, DecodeStep, DestroyDeviceStep, DestroyKernelStep,
     ReturnStep, KillStep DEF HostStep
<1>2. ASSUME NEW w \in Paths, Answer(w) \/ Plug(w) \/ Unplug(w)
      PROVE  IInv'
  BY <1>2, AnswerStep, PlugStep, UnplugStep
<1>3. ASSUME UNCHANGED vars
      PROVE  IInv'
  BY <1>3 DEF vars, IInv, TypeOK, HostInv, FreshInv, ExclusiveInv, PendingInv, OwnAnswer,
     Empty, Writing, OnlyItsOwn
<1> QED BY <1>1, <1>2, <1>3 DEF Next

THEOREM Invariance == Spec => []IInv
BY InitInv, NextInv, PTL DEF Spec

-----------------------------------------------------------------------------
(* Theorems *)

\* The type invariant holds for any number of processes and wallets
\* (message_communication).
THEOREM TypeCorrect == Spec => []TypeOK
PROOF
<1>1. IInv => TypeOK
  BY DEF IInv
<1> QED BY <1>1, Invariance, PTL

\* No handle outlives the library, on whatever path a message is left
\* (message_communication, ~kernel).
THEOREM LibraryUp == Spec => []LibraryOutlivesHandle
PROOF
<1>1. IInv => LibraryOutlivesHandle
  <2> SUFFICES ASSUME IInv, NEW p \in Processes, host[p].handle # NoPath
               PROVE  host[p].library
    BY DEF LibraryOutlivesHandle
  <2>1. HostOK(host[p])
    BY DEF IInv, HostInv
  <2> QED BY <2>1 DEF HostOK, Holds, Hosts
<1> QED BY <1>1, Invariance, PTL

\* However many processes share the wallets, and whatever is plugged in and
\* out: while none was killed, each reads the answer to its own message
\* (message_communication, call).
THEOREM EachReadsItsOwn == Spec => []OwnAnswer
PROOF
<1>1. IInv => OwnAnswer
  BY DEF IInv
<1> QED BY <1>1, Invariance, PTL

-----------------------------------------------------------------------------
(* What the killed leave behind *)

In(w)  == Len(wallet[w].in)
Out(w) == Len(wallet[w].out)
Pending(w) == In(w) + Out(w)

\* LeftByTheKilled, of one wallet.
Left(w) ==
  /\ Pending(w) <= kills + 1
  /\ Pending(w) = kills + 1 => \E p \in Processes : Writing(p, w)

LeftInv == \A w \in Paths : Contains(bus, w) => Left(w)

LEMMA PendingNat ==
  ASSUME TypeOK, NEW w \in Paths
  PROVE  /\ In(w) \in Nat /\ Out(w) \in Nat /\ Pending(w) \in Nat /\ kills \in Nat
         /\ Empty(w) => Pending(w) = 0
PROOF
<1>1. wallet[w].in \in Seq(Ids) /\ wallet[w].out \in Seq(Ids) /\ kills \in Nat
  BY DEF TypeOK
<1>2. In(w) \in Nat /\ Out(w) \in Nat
  BY <1>1, LenProperties DEF In, Out
<1>3. Empty(w) => In(w) = 0 /\ Out(w) = 0
  BY EmptySeq DEF Empty, In, Out
<1> QED BY <1>1, <1>2, <1>3 DEF Pending

LEMMA PendingNatNext ==
  ASSUME TypeOK', NEW w \in Paths
  PROVE  In(w)' \in Nat /\ Out(w)' \in Nat /\ Pending(w)' \in Nat /\ kills' \in Nat
PROOF
<1>1. /\ wallet'[w].in \in Seq(Ids) /\ wallet'[w].out \in Seq(Ids)
      /\ kills' \in Nat
  BY DEF TypeOK
<1>2. In(w)' \in Nat /\ Out(w)' \in Nat
  BY <1>1, LenProperties DEF In, Out
<1> QED BY <1>1, <1>2 DEF Pending

\* A wallet that stays as it is.
LEMMA SamePending ==
  ASSUME TypeOK, NEW w \in Paths, wallet'[w] = wallet[w]
  PROVE  Pending(w)' = Pending(w) /\ Pending(w)' <= Pending(w)
PROOF
<1>1. Pending(w)' = Pending(w)
  BY DEF Pending, In, Out
<1> QED BY <1>1, PendingNat

LEMMA InitLeft == Init => LeftInv
PROOF
<1> SUFFICES ASSUME Init, NEW w \in Paths
             PROVE  Left(w)
  BY DEF LeftInv
<1>1. IInv /\ Empty(w) /\ kills = 0
  BY InitInv DEF Init, Empty
<1> QED BY <1>1, PendingNat DEF Left, IInv

\* A wallet that gets no message more, and nobody who waits for it leaves.
LEMMA LeftKept ==
  ASSUME IInv, IInv', LeftInv, NEW w \in Paths,
         Contains(bus, w), kills' >= kills, Pending(w)' <= Pending(w),
         \A p \in Processes : Writing(p, w) => Writing(p, w)'
  PROVE  Left(w)'
PROOF
<1>1. TypeOK /\ TypeOK'
  BY DEF IInv
<1>3. Pending(w) \in Nat /\ kills \in Nat
  BY <1>1, PendingNat
<1>4. Pending(w)' \in Nat /\ kills' \in Nat
  BY <1>1, PendingNatNext
<1>2. Left(w)
  BY DEF LeftInv
<1> QED BY <1>2, <1>3, <1>4 DEF Left

LEMMA ReleasePending ==
  ASSUME IInv, IInv', NEW v \in Paths \union {NoPath}, Release(v), NEW w \in Paths
  PROVE  Pending(w)' <= Pending(w)
PROOF
<1>1. In(w) \in Nat /\ Out(w) \in Nat
  BY PendingNat DEF IInv
<1>2. In(w)' \in Nat /\ Out(w)' \in Nat
  BY PendingNatNext DEF IInv
<1>3. In(w)' = In(w) /\ Out(w)' <= Out(w)
  BY ReleaseStep DEF IInv, In, Out
<1> QED BY <1>1, <1>2, <1>3 DEF Pending

\* A step of p alone from where it waits for no plugged-in wallet.
LEMMA LeftHostOnly ==
  ASSUME IInv, IInv', LeftInv, NEW p \in Processes, NEW h,
         Becomes(p, h), UNCHANGED <<bus, kills>>,
         host[p].at = "written" => ~Contains(bus, host[p].handle),
         \A w \in Paths : Pending(w)' <= Pending(w)
  PROVE  LeftInv'
PROOF
<1>1. \A q \in Processes : q # p => host'[q] = host[q]
  BY DEF IInv, TypeOK, Becomes
<1> SUFFICES ASSUME NEW w \in Paths, Contains(bus, w)
             PROVE  Left(w)'
  BY DEF LeftInv
<1>2. \A q \in Processes : Writing(q, w) => Writing(q, w)'
  BY <1>1 DEF Writing
<1>3. kills' >= kills
  BY DEF IInv, TypeOK
<1> QED BY <1>2, <1>3, LeftKept

LEMMA LeftHostSteps ==
  ASSUME IInv, IInv', LeftInv, NEW p \in Processes,
         \/ Start(p) \/ ListUsb(p) \/ MakeKernel(p) \/ Enumerate(p) \/ Open(p)
         \/ Throws(p) \/ Decode(p) \/ DestroyKernel(p) \/ Return(p)
         \/ CallThrows(p) \/ DestroyDevice(p)
  PROVE  LeftInv'
PROOF
<1>1. \E h : Becomes(p, h)
  BY DEF Start, ListUsb, MakeKernel, Enumerate, Open, Throws, Decode, DestroyKernel, Return,
     CallThrows, DestroyDevice
<1>2. host[p].at = "written" => ~Contains(bus, host[p].handle)
  BY DEF Start, ListUsb, MakeKernel, Enumerate, Open, Throws, Decode, DestroyKernel, Return,
     CallThrows, DestroyDevice
<1>3. UNCHANGED <<bus, kills>> /\ (wallet' = wallet \/ Release(host[p].handle))
  BY DEF Start, ListUsb, MakeKernel, Enumerate, Open, Throws, Decode, DestroyKernel, Return,
     CallThrows, DestroyDevice
<1>4. host[p].handle \in Paths \union {NoPath}
  BY DEF IInv, HostInv, HostOK, Hosts
<1>5. ASSUME NEW w \in Paths
      PROVE  Pending(w)' <= Pending(w)
  <2>1. CASE wallet' = wallet
    BY <2>1, SamePending DEF IInv
  <2>2. CASE Release(host[p].handle)
    BY <2>2, <1>4, ReleasePending
  <2> QED BY <2>1, <2>2, <1>3
<1> QED BY <1>1, <1>2, <1>3, <1>5, LeftHostOnly

LEMMA LeftWrite ==
  ASSUME IInv, IInv', LeftInv, NEW p \in Processes, Write(p)
  PROVE  LeftInv'
PROOF
<1>0. PICK v, h : v = host[p].handle /\ h = [host[p] EXCEPT !.at = "written"]
  OBVIOUS
<1>1. HostOK(host[p]) /\ host[p].at = "opened"
  BY DEF IInv, HostInv, Write
<1>2. HostOK(h) /\ h.at = "written" /\ h.handle = v /\ host[p].id \in Ids
  BY <1>0, <1>1 DEF HostOK, Hosts, Holds
<1>3. /\ host'[p] = h
      /\ \A q \in Processes : q # p =>
           host'[q].at = host[q].at /\ host'[q].handle = host[q].handle
  BY <1>0, <1>2, DisturbsStep DEF Write
<1>4. v \in Paths /\ v # NoPath /\ Contains(bus, v)
  BY <1>0, <1>1, ExchangeAssumption DEF Write, HostOK, Hosts, Holds
<1>5. wallet' = [wallet EXCEPT ![v].in = Append(@, host[p].id)] /\ UNCHANGED <<bus, kills>>
  BY <1>0 DEF Write
<1>6. /\ \A w \in Paths : w # v => wallet'[w] = wallet[w]
      /\ wallet'[v].in = Append(wallet[v].in, host[p].id)
      /\ wallet'[v].out = wallet[v].out
  BY <1>4, <1>5 DEF IInv, TypeOK
<1>7. Left(v)'
  <2>1. \A q \in Processes : ~Writing(q, v)
    BY <1>0, <1>1, <1>4 DEF IInv, ExclusiveInv, Writing
  <2>2. Left(v) /\ Pending(v) \in Nat /\ kills \in Nat
    BY <1>4, PendingNat DEF LeftInv, IInv
  <2>3. Pending(v) <= kills
    BY <2>1, <2>2 DEF Left
  <2>4. In(v)' = In(v) + 1 /\ Out(v)' = Out(v)
    BY <1>2, <1>4, <1>6, AppendProperties DEF IInv, TypeOK, In, Out
  <2>5. Pending(v)' = Pending(v) + 1
    <3>1. In(v) \in Nat /\ Out(v) \in Nat
      BY <1>4, PendingNat DEF IInv
    <3> QED BY <3>1, <2>4 DEF Pending
  <2>6. Writing(p, v)'
    BY <1>2, <1>3 DEF Writing
  <2> QED BY <2>2, <2>3, <2>5, <2>6, <1>5 DEF Left
<1>8. ASSUME NEW w \in Paths, w # v, Contains(bus, w)
      PROVE  Left(w)'
  <2>1. \A q \in Processes : Writing(q, w) => Writing(q, w)'
    BY <1>1, <1>3 DEF Writing
  <2>2. Pending(w)' <= Pending(w) /\ kills' >= kills
    BY <1>5, <1>6, <1>8, SamePending, PendingNat DEF IInv
  <2> QED BY <2>1, <2>2, <1>8, LeftKept
<1> QED BY <1>5, <1>7, <1>8 DEF LeftInv

LEMMA LeftRead ==
  ASSUME IInv, IInv', LeftInv, NEW p \in Processes, Read(p)
  PROVE  LeftInv'
PROOF
<1>0. PICK v : v = host[p].handle
  OBVIOUS
<1>1. HostOK(host[p]) /\ host[p].at = "written"
  BY DEF IInv, HostInv, Read
<1>2. v \in Paths /\ Contains(bus, v)
  BY <1>0, <1>1, ExchangeAssumption DEF Read, HostOK, Hosts, Holds
<1>3. \A q \in Processes : q # p => host'[q] = host[q]
  BY DEF Read, Becomes, IInv, TypeOK
<1>4. /\ wallet[v].out # <<>> /\ UNCHANGED <<bus, kills>>
      /\ wallet' = [wallet EXCEPT ![v].out = Tail(@)]
  BY <1>0 DEF Read
<1>5. /\ \A w \in Paths : w # v => wallet'[w] = wallet[w]
      /\ wallet'[v].in = wallet[v].in
      /\ wallet'[v].out = Tail(wallet[v].out)
  BY <1>2, <1>4 DEF IInv, TypeOK
<1>6. Left(v)'
  <2>1. Out(v)' = Out(v) - 1 /\ In(v)' = In(v)
    BY <1>2, <1>4, <1>5, HeadTailProperties DEF IInv, TypeOK, In, Out
  <2>2. Left(v)
    BY <1>2 DEF LeftInv
  <2>3. In(v) \in Nat /\ Out(v) \in Nat /\ kills \in Nat
    BY <1>2, PendingNat DEF IInv
  <2> QED BY <2>1, <2>2, <2>3, <1>4, <1>5 DEF Left, Pending
<1>7. ASSUME NEW w \in Paths, w # v, Contains(bus, w)
      PROVE  Left(w)'
  <2>1. \A q \in Processes : Writing(q, w) => Writing(q, w)'
    BY <1>0, <1>3, <1>7 DEF Writing
  <2>2. Pending(w)' <= Pending(w) /\ kills' >= kills
    BY <1>4, <1>5, <1>7, SamePending, PendingNat DEF IInv
  <2> QED BY <2>1, <2>2, <1>7, LeftKept
<1> QED BY <1>4, <1>6, <1>7 DEF LeftInv

\* A kill makes room for the one exchange it leaves behind.
LEMMA LeftKill ==
  ASSUME IInv, IInv', LeftInv, NEW p \in Processes, Kill(p)
  PROVE  LeftInv'
PROOF
<1>1. host[p].handle \in Paths \union {NoPath}
  BY DEF IInv, HostInv, HostOK, Hosts
<1>2. kills' = kills + 1 /\ kills \in Nat /\ bus' = bus
  BY DEF Kill, IInv, TypeOK
<1> SUFFICES ASSUME NEW w \in Paths, Contains(bus, w)
             PROVE  Left(w)'
  BY <1>2 DEF LeftInv
<1>3. Pending(w) \in Nat /\ Pending(w)' <= Pending(w)
  BY <1>1, PendingNat, ReleasePending DEF IInv, Kill
<1>4. Pending(w)' \in Nat
  BY PendingNatNext DEF IInv
<1>5. Left(w)
  BY DEF LeftInv
<1> QED BY <1>2, <1>3, <1>4, <1>5 DEF Left

LEMMA LeftAnswer ==
  ASSUME IInv, IInv', LeftInv, NEW v \in Paths, Answer(v)
  PROVE  LeftInv'
PROOF
<1>1. wallet[v].in # <<>> /\ UNCHANGED <<host, bus, kills>>
  BY DEF Answer
<1>2. /\ \A w \in Paths : w # v => wallet'[w] = wallet[w]
      /\ wallet'[v].in = Tail(wallet[v].in)
      /\ wallet'[v].out = Append(wallet[v].out, Head(wallet[v].in))
  BY DEF Answer, IInv, TypeOK
<1> SUFFICES ASSUME NEW w \in Paths, Contains(bus, w)
             PROVE  Left(w)'
  BY <1>1 DEF LeftInv
<1>3. \A q \in Processes : Writing(q, w) => Writing(q, w)'
  BY <1>1 DEF Writing
<1>4. Pending(w)' <= Pending(w)
  <2>1. CASE w # v
    BY <2>1, <1>2, SamePending DEF IInv
  <2>2. CASE w = v
    <3>1. wallet[v].in \in Seq(Ids) /\ wallet[v].out \in Seq(Ids)
      BY DEF IInv, TypeOK
    <3>2. In(v)' = In(v) - 1 /\ Head(wallet[v].in) \in Ids
      BY <3>1, <1>1, <1>2, HeadTailProperties DEF In
    <3>3. Out(v)' = Out(v) + 1
      BY <3>1, <3>2, <1>2, AppendProperties DEF Out
    <3>4. In(v) \in Nat /\ Out(v) \in Nat
      BY PendingNat DEF IInv
    <3> QED BY <2>2, <3>2, <3>3, <3>4 DEF Pending
  <2> QED BY <2>1, <2>2
<1>5. kills' >= kills
  BY <1>1 DEF IInv, TypeOK
<1> QED BY <1>3, <1>4, <1>5, LeftKept

\* A wallet that comes is new.
LEMMA LeftBus ==
  ASSUME IInv, IInv', LeftInv, NEW v \in Paths, Plug(v) \/ Unplug(v)
  PROVE  LeftInv'
PROOF
<1>1. UNCHANGED <<wallet, kills>> /\ host' = Uncalmed
  BY DEF Plug, Unplug
<1>2. \A q \in Processes, w \in Paths : Writing(q, w) => Writing(q, w)'
  BY <1>1, UncalmedStep DEF Writing
<1>3. \A w : Contains(bus', w) => Contains(bus, w) \/ (w = v /\ w \in fresh)
  <2>1. CASE Plug(v)
    <3>1. PICK i \in 1 .. Len(bus) + 1 : bus' = InsertAt(bus, i, v)
      BY <2>1 DEF Plug
    <3>2. \A w : Contains(bus', w) => w = v \/ Contains(bus, w)
      BY <3>1, Inserted DEF IInv, TypeOK
    <3> QED BY <2>1, <3>2 DEF Plug
  <2>2. CASE Unplug(v)
    <3>1. PICK i \in 1 .. Len(bus) : bus' = RemoveAt(bus, i)
      BY <2>2 DEF Unplug
    <3> QED BY <3>1, Removed DEF IInv, TypeOK
  <2> QED BY <2>1, <2>2
<1> SUFFICES ASSUME NEW w \in Paths, Contains(bus', w)
             PROVE  Left(w)'
  BY DEF LeftInv
<1>4. CASE Contains(bus, w)
  <2>1. Pending(w)' <= Pending(w) /\ kills' >= kills
    BY <1>1, SamePending, PendingNat DEF IInv
  <2> QED BY <2>1, <1>2, <1>4, LeftKept
<1>5. CASE w \in fresh
  <2>1. Pending(w) = 0 /\ kills \in Nat /\ Pending(w)' = Pending(w)
    BY <1>1, <1>5, PendingNat, SamePending DEF IInv, FreshInv
  <2> QED BY <2>1, <1>1 DEF Left
<1> QED BY <1>3, <1>4, <1>5

LEMMA NextLeft == IInv /\ IInv' /\ LeftInv /\ [Next]_vars => LeftInv'
PROOF
<1> SUFFICES ASSUME IInv, IInv', LeftInv, [Next]_vars PROVE LeftInv'
  OBVIOUS
<1>1. ASSUME NEW p \in Processes,
             \/ Start(p) \/ ListUsb(p) \/ MakeKernel(p) \/ HostStep(p) \/ Return(p) \/ Kill(p)
      PROVE  LeftInv'
  BY <1>1, LeftHostSteps, LeftWrite, LeftRead, LeftKill DEF HostStep
<1>2. ASSUME NEW w \in Paths, Answer(w) \/ Plug(w) \/ Unplug(w)
      PROVE  LeftInv'
  BY <1>2, LeftAnswer, LeftBus
<1>3. ASSUME UNCHANGED vars
      PROVE  LeftInv'
  BY <1>3 DEF vars, LeftInv, Left, Pending, In, Out, Writing
<1> QED BY <1>1, <1>2, <1>3 DEF Next

\* Whatever the number of processes, kills and wallets: a wallet has never more
\* to give than one exchange for each kill and the one under way
\* (call, message_communication).
THEOREM KilledLeaveOneEach == Spec => []LeftByTheKilled
PROOF
<1>1. Spec => []LeftInv
  BY InitInv, InitLeft, NextInv, NextLeft, PTL DEF Spec
<1>2. LeftInv => LeftByTheKilled
  BY DEF LeftInv, Left, Pending, In, Out, Writing, LeftByTheKilled
<1> QED BY <1>1, <1>2, PTL

-----------------------------------------------------------------------------
(* Dialogues nobody disturbs *)

\* The process h waits for the wallet w.
Awaits(h, w) == h.at = "written" /\ h.handle = w

\* Its last exchange, if there was one, went well.
Going(h) ==
  h.at \in {"idle", "made", "listed", "opened"} \/ (h.at \in {"leaving", "closed"} /\ ~h.failed)

\* Nothing is pending but the message of h, the wallet h chose is still the
\* first one, what h reads is the answer to its message, and the wallet's last
\* question is the one h is going to reply to.
CalmOK(h) ==
  /\ h.at # "off"
  /\ \A w \in Paths : ~Awaits(h, w) => Empty(w)
  /\ \A w \in Paths : Awaits(h, w) =>
       \/ wallet[w].in = <<h.id>> /\ wallet[w].out = <<>>
       \/ wallet[w].in = <<>> /\ wallet[w].out = <<h.id>> /\ wallet[w].asked = h.id
  /\ h.at \in {"listed", "opened", "written", "answered"} => bus # <<>> /\ h.dev = bus[1]
  /\ h.at \in {"opened", "written", "answered"} => h.handle = h.dev
  /\ h.at = "answered" => h.got = h.id /\ wallet[h.handle].asked = h.got
  /\ Going(h) /\ h.reply_to # 0 => bus # <<>> /\ wallet[bus[1]].asked = h.reply_to

CalmInv == \A p \in Processes : host[p].calm => CalmOK(host[p])

LEMMA InitCalm == Init => CalmInv
BY OffOK DEF Init, CalmInv

\* A step of p alone that touches no wallet.
LEMMA CalmHostOnly ==
  ASSUME IInv, CalmInv, NEW p \in Processes, NEW h,
         Becomes(p, h), UNCHANGED <<bus, wallet>>, h.calm => CalmOK(h)
  PROVE  CalmInv'
PROOF
<1>1. host'[p] = h /\ \A q \in Processes : q # p => host'[q] = host[q]
  BY DEF IInv, TypeOK, Becomes
<1>2. ASSUME NEW q \in Processes, host'[q].calm
      PROVE  CalmOK(host'[q])
  BY <1>1, <1>2 DEF CalmInv
<1> QED BY <1>2 DEF CalmInv, CalmOK, Empty

\* The same, where p leaves no exchange behind it.
LEMMA CalmHostSteps ==
  ASSUME IInv, CalmInv, NEW p \in Processes,
         \/ Start(p) \/ ListUsb(p) \/ MakeKernel(p) \/ Enumerate(p) \/ Open(p)
         \/ Throws(p) \/ Decode(p) \/ DestroyKernel(p) \/ Return(p)
  PROVE  CalmInv'
PROOF
<1>1. HostOK(host[p]) /\ (host[p].calm => CalmOK(host[p]))
  BY DEF IInv, HostInv, CalmInv
<1>2. CASE Start(p)
  <2> DEFINE h == [Off EXCEPT !.at = "idle", !.calm = Quiet]
  <2>1. h.at = "idle" /\ h.reply_to = 0 /\ h.calm = Quiet
    BY DEF Off
  <2>2. h.calm => CalmOK(h)
    BY <2>1 DEF CalmOK, Quiet, Awaits, Empty
  <2> QED BY <2>2, <1>2, CalmHostOnly DEF Start
<1>3. CASE ListUsb(p)
  <2> DEFINE h == [Off EXCEPT !.at = "made", !.job = "list", !.library = TRUE]
  <2>1. ~h.calm
    BY DEF Off
  <2> QED BY <2>1, <1>3, CalmHostOnly DEF ListUsb
<1>4. CASE MakeKernel(p)
  <2> DEFINE h == [host[p] EXCEPT !.at = "made", !.library = TRUE, !.id = sent']
  <2>1. /\ host[p].at = "idle" /\ h.at = "made" /\ h.reply_to = host[p].reply_to
        /\ h.calm = host[p].calm
    BY <1>1, <1>4 DEF MakeKernel, HostOK, Hosts
  <2>2. h.calm => CalmOK(h)
    BY <2>1, <1>1 DEF CalmOK, Awaits, Empty, Going
  <2> QED BY <2>2, <1>4, CalmHostOnly DEF MakeKernel
<1>5. CASE Enumerate(p)
  <2>1. PICK h : /\ Becomes(p, h)
                 /\ \/ host[p].job = "list" /\ h = [host[p] EXCEPT !.at = "leaving"]
                    \/ bus = <<>> /\ h = [host[p] EXCEPT !.at = "leaving", !.failed = TRUE]
                    \/ bus # <<>> /\ h = [host[p] EXCEPT !.at = "listed", !.dev = bus[1]]
    BY <1>1, <1>5 DEF Enumerate, HostOK, Hosts
  <2>2. /\ host[p].at = "made" /\ h.calm = host[p].calm /\ h.reply_to = host[p].reply_to
        /\ h.at = "leaving" \/ (h.at = "listed" /\ bus # <<>> /\ h.dev = bus[1])
    BY <1>1, <1>5, <2>1 DEF Enumerate, HostOK, Hosts
  <2>3. h.calm => CalmOK(h)
    BY <2>2, <1>1 DEF CalmOK, Awaits, Empty, Going
  <2> QED BY <2>1, <2>3, <1>5, CalmHostOnly DEF Enumerate
<1>6. CASE Open(p)
  <2> DEFINE h == [host[p] EXCEPT !.at = "opened", !.handle = host[p].dev]
  <2>1. /\ host[p].at = "listed" /\ h.at = "opened" /\ h.reply_to = host[p].reply_to
        /\ h.calm = host[p].calm /\ h.dev = host[p].dev /\ h.handle = host[p].dev
    BY <1>1, <1>6 DEF Open, HostOK, Hosts
  <2>2. h.calm => CalmOK(h)
    BY <2>1, <1>1 DEF CalmOK, Awaits, Empty, Going
  <2> QED BY <2>2, <1>6, CalmHostOnly DEF Open
<1>7. CASE Throws(p)
  <2> DEFINE h == [host[p] EXCEPT !.at = "leaving", !.failed = TRUE]
  <2>1. /\ host[p].at \in {"listed", "answered"} /\ h.at = "leaving" /\ h.failed
        /\ h.calm = host[p].calm
    BY <1>1, <1>7 DEF Throws, HostOK, Hosts
  <2>2. h.calm => CalmOK(h)
    BY <2>1, <1>1 DEF CalmOK, Awaits, Empty, Going
  <2> QED BY <2>2, <1>7, CalmHostOnly DEF Throws
<1>8. CASE Decode(p)
  <2> DEFINE h == [host[p] EXCEPT !.at = "leaving", !.reply_to = host[p].got]
  <2>1. /\ host[p].at = "answered" /\ h.at = "leaving" /\ h.reply_to = host[p].got
        /\ h.calm = host[p].calm
    BY <1>1, <1>8 DEF Decode, HostOK, Hosts
  <2>2. h.calm => CalmOK(h)
    BY <2>1, <1>1 DEF CalmOK, Awaits, Empty, Going
  <2> QED BY <2>2, <1>8, CalmHostOnly DEF Decode
<1>9. CASE DestroyKernel(p)
  <2>1. PICK h : /\ Becomes(p, h)
                 /\ \/ h = Off
                    \/ ~host[p].failed /\ h = [host[p] EXCEPT !.at = "idle", !.library = FALSE]
    BY <1>9 DEF DestroyKernel
  <2>2. \/ ~h.calm
        \/ /\ host[p].at = "closed" /\ ~host[p].failed /\ h.at = "idle"
           /\ h.reply_to = host[p].reply_to /\ h.calm = host[p].calm
    BY <1>1, <1>9, <2>1, OffOK DEF DestroyKernel, HostOK, Hosts
  <2>3. h.calm => CalmOK(h)
    BY <2>2, <1>1 DEF CalmOK, Awaits, Empty, Going
  <2> QED BY <2>1, <2>3, <1>9, CalmHostOnly DEF DestroyKernel
<1>10. CASE Return(p)
  BY <1>10, OffOK, CalmHostOnly DEF Return
<1> QED BY <1>2, <1>3, <1>4, <1>5, <1>6, <1>7, <1>8, <1>9, <1>10

\* A process that is calm and holds a wallet holds one that is plugged in.
LEMMA CalmHolds ==
  ASSUME IInv, CalmInv, NEW p \in Processes, host[p].calm,
         host[p].at \in {"opened", "written", "answered"}
  PROVE  /\ Contains(bus, host[p].handle)
         /\ host[p].handle \in Paths
PROOF
<1>1. bus # <<>> /\ host[p].handle = bus[1]
  BY DEF CalmInv, CalmOK
<1>2. 1 \in 1 .. Len(bus)
  BY <1>1, EmptySeq DEF IInv, TypeOK
<1>3. bus[1] \in Paths
  BY <1>2, ElementOfSeq DEF IInv, TypeOK
<1> QED BY <1>1, <1>2, <1>3 DEF Contains

LEMMA CalmWrite ==
  ASSUME IInv, CalmInv, NEW p \in Processes, Write(p)
  PROVE  CalmInv'
PROOF
<1>0. PICK v, m, h : /\ v = host[p].handle /\ m = host[p].id
                     /\ h = [host[p] EXCEPT !.at = "written"]
  OBVIOUS
<1>1. HostOK(host[p]) /\ host[p].at = "opened"
  BY DEF IInv, HostInv, Write
<1>2. /\ h.at = "written" /\ h.handle = v /\ h.dev = host[p].dev
      /\ h.id = m /\ h.calm = host[p].calm /\ HostOK(h)
  BY <1>0, <1>1 DEF HostOK, Hosts, Holds
<1>3. host'[p] = h /\ \A q \in Processes : q # p => ~host'[q].calm
  <2>1. Disturbs(p, h)
    BY <1>0 DEF Write
  <2> QED BY <2>1, <1>2, DisturbsStep
<1>4. ASSUME host[p].calm
      PROVE  CalmOK(h)'
  <2>1. v \in Paths /\ v = host[p].dev /\ bus # <<>> /\ host[p].dev = bus[1] /\ bus' = bus
    BY <1>0, <1>1, <1>4, CalmHolds DEF CalmInv, CalmOK, Write
  <2>2. \A w \in Paths : wallet[w].in = <<>> /\ wallet[w].out = <<>>
    BY <1>1, <1>4 DEF CalmInv, CalmOK, Awaits, Empty
  <2>3. wallet' = [wallet EXCEPT ![v].in = Append(@, m)]
    BY <1>0 DEF Write
  <2>4. wallet' = [wallet EXCEPT ![v] = [@ EXCEPT !.in = Append(wallet[v].in, m)]]
    BY <2>3
  <2>5. wallet[v].in = <<>> /\ Append(<<>>, m) = <<m>>
    BY <2>1, <2>2
  <2>6. wallet' = [wallet EXCEPT ![v] = [@ EXCEPT !.in = <<m>>]]
    BY <2>4, <2>5
  <2>7. /\ wallet'[v].in = <<h.id>> /\ wallet'[v].out = <<>>
        /\ \A w \in Paths : w # v => wallet'[w] = wallet[w]
    BY <2>1, <2>2, <2>6, <1>2 DEF IInv, TypeOK
  <2>8. \A w \in Paths : w # v => Empty(w)'
    BY <2>2, <2>7 DEF Empty
  <2> QED BY <2>1, <2>7, <2>8, <1>2 DEF CalmOK, Awaits, Going
<1>5. ASSUME NEW q \in Processes, host'[q].calm
      PROVE  CalmOK(host[q])'
  <2>1. q = p
    BY <1>3, <1>5
  <2>2. host[p].calm
    BY <2>1, <1>2, <1>3, <1>5
  <2>3. CalmOK(h)'
    BY <2>2, <1>4
  <2>4. h = host'[q]
    BY <2>1, <1>3
  <2> QED BY <2>3, <2>4 DEF CalmOK, Awaits, Going
<1> QED BY <1>5 DEF CalmInv

LEMMA CalmRead ==
  ASSUME IInv, CalmInv, NEW p \in Processes, Read(p)
  PROVE  CalmInv'
PROOF
<1>0. PICK v, x, h : /\ v = host[p].handle /\ x = Head(wallet[v].out)
                     /\ h = [host[p] EXCEPT !.at = "answered", !.got = x]
  OBVIOUS
<1>1. HostOK(host[p]) /\ host[p].at = "written"
  BY DEF IInv, HostInv, Read
<1>2. /\ h.at = "answered" /\ h.handle = v /\ h.dev = host[p].dev /\ h.got = x
      /\ h.id = host[p].id /\ h.calm = host[p].calm
  BY <1>0, <1>1 DEF HostOK, Hosts
<1>3. Becomes(p, h) /\ wallet[v].out # <<>> /\ bus' = bus
  BY <1>0 DEF Read
<1>4. host'[p] = h /\ \A q \in Processes : q # p => host'[q] = host[q]
  BY <1>3 DEF IInv, TypeOK, Becomes
<1>5. v \in Paths
  BY <1>0, <1>1, ExchangeAssumption DEF HostOK, Hosts, Holds
<1>6. wallet' = [wallet EXCEPT ![v].out = Tail(@)]
  BY <1>0 DEF Read
<1>7. ASSUME NEW q \in Processes, q # p
      PROVE  ~host[q].calm
  <2>1. SUFFICES ASSUME host[q].calm PROVE FALSE
    OBVIOUS
  <2>2. ~Awaits(host[q], v)
    BY <1>0, <1>1, <1>5, <1>7, ExchangeAssumption DEF Awaits, IInv, ExclusiveInv
  <2> QED BY <2>1, <2>2, <1>3, <1>5 DEF CalmInv, CalmOK, Empty
<1>8. ASSUME host[p].calm
      PROVE  CalmOK(h)'
  <2>1. v = host[p].dev /\ bus # <<>> /\ host[p].dev = bus[1]
    BY <1>0, <1>1, <1>8 DEF CalmInv, CalmOK
  <2>2. wallet[v].in = <<>> /\ wallet[v].out = <<host[p].id>> /\ wallet[v].asked = host[p].id
    BY <1>0, <1>1, <1>3, <1>5, <1>8 DEF CalmInv, CalmOK, Awaits
  <2>3. \A w \in Paths : w # v => Empty(w)
    BY <1>0, <1>8 DEF CalmInv, CalmOK, Awaits
  <2>4. Tail(<<host[p].id>>) = <<>> /\ x = host[p].id
    BY <2>2, <1>0
  <2>5. wallet'[v].asked = x /\ \A w \in Paths : Empty(w)'
    BY <2>2, <2>3, <2>4, <1>5, <1>6 DEF Empty, IInv, TypeOK
  <2> QED BY <2>1, <2>4, <2>5, <1>2, <1>3 DEF CalmOK, Awaits, Going
<1>9. ASSUME NEW q \in Processes, host'[q].calm
      PROVE  CalmOK(host[q])'
  <2>1. q = p
    BY <1>4, <1>7, <1>9
  <2>2. host[p].calm
    BY <2>1, <1>2, <1>4, <1>9
  <2>3. CalmOK(h)'
    BY <2>2, <1>8
  <2>4. h = host'[q]
    BY <2>1, <1>4
  <2> QED BY <2>3, <2>4 DEF CalmOK, Awaits, Going
<1> QED BY <1>9 DEF CalmInv

\* Closing a wallet takes nothing from those that are calm.
LEMMA CalmClosing ==
  ASSUME IInv, CalmInv, NEW p \in Processes, CallThrows(p) \/ DestroyDevice(p)
  PROVE  CalmInv'
PROOF
<1>1. HostOK(host[p])
  BY DEF IInv, HostInv
<1>2. PICK h : /\ Becomes(p, h)
               /\ \/ /\ CallThrows(p)
                     /\ h = [host[p] EXCEPT !.at = "leaving", !.failed = TRUE, !.handle = NoPath]
                  \/ /\ DestroyDevice(p)
                     /\ h = [host[p] EXCEPT !.at = "closed", !.dev = NoPath, !.handle = NoPath]
  BY DEF CallThrows, DestroyDevice
<1>3. host'[p] = h /\ \A q \in Processes : q # p => host'[q] = host[q]
  BY <1>2 DEF IInv, TypeOK, Becomes
<1>4. /\ h.calm = host[p].calm /\ h.reply_to = host[p].reply_to /\ (~CallThrows(p) => h.failed = host[p].failed)
      /\ h.at \in {"leaving", "closed"}
      /\ CallThrows(p) \/ host[p].at = "leaving"
  BY <1>1, <1>2 DEF HostOK, Hosts, CallThrows, DestroyDevice
<1>5. host[p].calm => ~CallThrows(p)
  BY CalmHolds DEF CallThrows
<1>6. bus' = bus /\ Release(host[p].handle) /\ host[p].handle \in Paths \union {NoPath}
  BY <1>1 DEF CallThrows, DestroyDevice, HostOK, Hosts
<1>7. \A w \in Paths : /\ wallet'[w].in = wallet[w].in
                       /\ wallet'[w].asked = wallet[w].asked
                       /\ w # host[p].handle => wallet'[w] = wallet[w]
                       /\ wallet[w].out = <<>> => wallet'[w].out = <<>>
  BY <1>6, ReleaseStep DEF IInv
<1>8. \A w \in Paths : Empty(w) => Empty(w)'
  BY <1>7 DEF Empty
<1>9. bus # <<>> => bus[1] \in Paths
  BY ElementOfSeq, EmptySeq DEF IInv, TypeOK
<1>10. ASSUME NEW q \in Processes, q # p, host[q].calm
       PROVE  CalmOK(host[q])'
  <2>1. CalmOK(host[q])
    BY <1>10 DEF CalmInv
  <2>2. ASSUME NEW w \in Paths, Awaits(host[q], w)
        PROVE  wallet'[w] = wallet[w]
    BY <2>2, <1>7, <1>10, ExchangeAssumption DEF Awaits, IInv, ExclusiveInv
  <2>3. host[q].at = "answered" => wallet'[host[q].handle].asked = wallet[host[q].handle].asked
    BY <1>7, <1>10, CalmHolds
  <2>4. \A w \in Paths : Awaits(host[q], w) =>
          \/ wallet'[w].in = <<host[q].id>> /\ wallet'[w].out = <<>>
          \/ /\ wallet'[w].in = <<>> /\ wallet'[w].out = <<host[q].id>>
             /\ wallet'[w].asked = host[q].id
    BY <2>1, <2>2 DEF CalmOK
  <2>5. \A w \in Paths : ~Awaits(host[q], w) => Empty(w)'
    BY <2>1, <1>8 DEF CalmOK
  <2>6. Going(host[q]) /\ host[q].reply_to # 0 =>
          bus # <<>> /\ wallet'[bus[1]].asked = host[q].reply_to
    BY <2>1, <1>7, <1>9 DEF CalmOK
  <2>7. PICK g : g = host[q]
    OBVIOUS
  <2>8. /\ g.at # "off"
        /\ \A w \in Paths : ~Awaits(g, w) => Empty(w)'
        /\ \A w \in Paths : Awaits(g, w) =>
             \/ wallet'[w].in = <<g.id>> /\ wallet'[w].out = <<>>
             \/ wallet'[w].in = <<>> /\ wallet'[w].out = <<g.id>> /\ wallet'[w].asked = g.id
        /\ g.at \in {"listed", "opened", "written", "answered"} => bus' # <<>> /\ g.dev = bus'[1]
        /\ g.at \in {"opened", "written", "answered"} => g.handle = g.dev
        /\ g.at = "answered" => g.got = g.id /\ wallet'[g.handle].asked = g.got
        /\ Going(g) /\ g.reply_to # 0 => bus' # <<>> /\ wallet'[bus'[1]].asked = g.reply_to
    BY <2>1, <2>3, <2>4, <2>5, <2>6, <2>7, <1>6 DEF CalmOK
  <2>9. CalmOK(g)'
    BY <2>8 DEF CalmOK, Awaits, Going
  <2>10. host'[q] = g
    BY <2>7, <1>3, <1>10
  <2> QED BY <2>9, <2>10 DEF CalmOK, Awaits, Going
<1>11. ASSUME host[p].calm
       PROVE  CalmOK(h)'
  <2>1. CalmOK(host[p]) /\ host[p].at = "leaving" /\ h.failed = host[p].failed
    BY <1>4, <1>5, <1>11 DEF CalmInv
  <2>2. \A w \in Paths : Empty(w)'
    BY <2>1, <1>8 DEF CalmOK, Awaits
  <2> QED BY <2>1, <2>2, <1>4, <1>6, <1>7, <1>9 DEF CalmOK, Awaits, Going
<1> QED BY <1>3, <1>4, <1>10, <1>11 DEF CalmInv

LEMMA CalmAnswer ==
  ASSUME IInv, CalmInv, NEW v \in Paths, Answer(v)
  PROVE  CalmInv'
PROOF
<1>1. wallet[v].in # <<>> /\ host' = host /\ bus' = bus
  BY DEF Answer
<1>2. /\ \A w \in Paths : w # v => wallet'[w] = wallet[w]
      /\ wallet'[v].in = Tail(wallet[v].in)
      /\ wallet'[v].out = Append(wallet[v].out, Head(wallet[v].in))
      /\ wallet'[v].asked = Head(wallet[v].in)
  BY DEF Answer, IInv, TypeOK
<1>3. ASSUME NEW p \in Processes, host[p].calm
      PROVE  CalmOK(host[p])'
  <2>1. CalmOK(host[p]) /\ Awaits(host[p], v)
    BY <1>1, <1>3 DEF CalmInv, CalmOK, Empty
  <2>2. wallet[v].in = <<host[p].id>> /\ wallet[v].out = <<>>
    BY <1>1, <2>1 DEF CalmOK
  <2>3. Tail(<<host[p].id>>) = <<>> /\ Head(<<host[p].id>>) = host[p].id
        /\ Append(<<>>, host[p].id) = <<host[p].id>>
    OBVIOUS
  <2>4. wallet'[v].in = <<>> /\ wallet'[v].out = <<host[p].id>> /\ wallet'[v].asked = host[p].id
    BY <2>2, <2>3, <1>2
  <2>5. \A w \in Paths : w # v => Empty(w)' /\ ~Awaits(host[p], w)
    BY <2>1, <1>2 DEF CalmOK, Awaits, Empty
  <2> QED BY <2>1, <2>4, <2>5, <1>1 DEF CalmOK, Awaits, Going
<1> QED BY <1>1, <1>3 DEF CalmInv

\* A kill or a change of the bus leaves nobody calm.
LEMMA CalmDisturbed ==
  ASSUME IInv, CalmInv,
         \/ \E p \in Processes : Kill(p)
         \/ \E w \in Paths : Plug(w) \/ Unplug(w)
  PROVE  CalmInv'
PROOF
<1>1. ASSUME NEW p \in Processes, Kill(p)
      PROVE  \A q \in Processes : ~host'[q].calm
  BY <1>1, OffOK, DisturbsStep DEF Kill
<1>2. ASSUME NEW w \in Paths, Plug(w) \/ Unplug(w)
      PROVE  \A q \in Processes : ~host'[q].calm
  BY <1>2, UncalmedStep DEF Plug, Unplug
<1> QED BY <1>1, <1>2 DEF CalmInv

LEMMA NextCalm == IInv /\ CalmInv /\ [Next]_vars => CalmInv'
PROOF
<1> SUFFICES ASSUME IInv, CalmInv, [Next]_vars PROVE CalmInv'
  OBVIOUS
<1>1. ASSUME NEW p \in Processes,
             \/ Start(p) \/ ListUsb(p) \/ MakeKernel(p) \/ HostStep(p) \/ Return(p) \/ Kill(p)
      PROVE  CalmInv'
  BY <1>1, CalmHostSteps, CalmWrite, CalmRead, CalmClosing, CalmDisturbed DEF HostStep
<1>2. ASSUME NEW w \in Paths, Answer(w) \/ Plug(w) \/ Unplug(w)
      PROVE  CalmInv'
  BY <1>2, CalmAnswer, CalmDisturbed
<1>3. ASSUME UNCHANGED vars
      PROVE  CalmInv'
  BY <1>3 DEF vars, CalmInv, CalmOK, Empty
<1> QED BY <1>1, <1>2, <1>3 DEF Next

\* In a dialogue nobody disturbs, each message reaches the wallet that asked
\* for it, although every message enumerates and opens anew
\* (message_communication).
THEOREM DialogueKeepsItsWallet == Spec => ReachesTheAsker
PROOF
<1>1. ASSUME IInv, CalmInv, NEW p \in Processes,
             Write(p), host[p].calm, host[p].reply_to # 0
      PROVE  /\ wallet[host[p].handle].asked = host[p].reply_to
             /\ wallet[host[p].handle].in = <<>>
  <2>1. host[p].at = "opened" /\ CalmOK(host[p])
    BY <1>1 DEF Write, CalmInv
  <2>2. host[p].handle \in Paths
    BY <2>1, <1>1, CalmHolds
  <2> QED BY <2>1, <2>2, <1>1 DEF CalmOK, Awaits, Going, Empty
<1>2. IInv /\ CalmInv =>
        \A p \in Processes :
          Write(p) /\ host[p].calm /\ host[p].reply_to # 0 =>
            /\ wallet[host[p].handle].asked = host[p].reply_to
            /\ wallet[host[p].handle].in = <<>>
  BY <1>1
<1>3. Spec => [](IInv /\ CalmInv)
  BY InitInv, InitCalm, NextInv, NextCalm, PTL DEF Spec
<1> QED BY <1>2, <1>3, PTL DEF ReachesTheAsker
-----------------------------------------------------------------------------
(* Exchange implements Dialogue *)

Nobody == [turn |-> "none", wallet |-> NoPath, message |-> 0]

\* A step that leaves the other dialogues as they were or silences them.
LEMMA Disturbing ==
  ASSUME \A q \in Processes : Talk(q)' = Talk(q) \/ Talk(q)' = Nobody,
         \A w \in Paths : wallet'[w].asked = wallet[w].asked
  PROVE  Undisturbed!Disturb
PROOF
<1> DEFINE left == {q \in Processes : Talk(q)' = Nobody}
<1>1. left \in SUBSET Processes
  OBVIOUS
<1>2. [q \in Processes |-> Talk(q)'] =
        [q \in Processes |-> IF q \in left THEN Nobody ELSE Talk(q)]
  OBVIOUS
<1>3. [q \in Processes |-> Talk(q)]' =
        [q \in Processes |-> IF q \in left THEN Undisturbed!Silent
                             ELSE [r \in Processes |-> Talk(r)][q]]
  BY <1>2 DEF Nobody, Undisturbed!Silent
<1>4. [w \in Paths |-> wallet[w].asked]' = [w \in Paths |-> wallet[w].asked]
  OBVIOUS
<1> QED BY <1>1, <1>3, <1>4 DEF Undisturbed!Disturb

\* What the others are talking about stays, when one process takes a step
\* that writes nothing.
LEMMA OthersTalk ==
  ASSUME IInv, NEW p \in Processes, NEW h, Becomes(p, h), bus' = bus,
         \A w \in Paths : wallet'[w].in = wallet[w].in
  PROVE  /\ host'[p] = h
         /\ \A q \in Processes : q # p => Talk(q)' = Talk(q)
PROOF
<1>1. host'[p] = h /\ \A q \in Processes : q # p => host'[q] = host[q]
  BY DEF IInv, TypeOK, Becomes
<1>2. ASSUME NEW q \in Processes, q # p
      PROVE  Talk(q)' = Talk(q)
  <2>1. host[q].at = "written" => host[q].handle \in Paths
    BY DEF IInv, HostInv, HostOK, Hosts, Holds
  <2> QED BY <1>1, <1>2, <2>1 DEF Talk
<1> QED BY <1>1, <1>2

\* A step of one process between two exchanges, or one that ends its dialogue.
LEMMA SilentStep ==
  ASSUME IInv, NEW p \in Processes, NEW h, Becomes(p, h), bus' = bus,
         \A w \in Paths : /\ wallet'[w].in = wallet[w].in
                          /\ wallet'[w].asked = wallet[w].asked,
         h.calm /\ ~h.failed =>
           /\ host[p].calm /\ ~host[p].failed /\ h.reply_to = host[p].reply_to
           /\ h.at \notin {"written", "answered"}
           /\ host[p].at \notin {"written", "answered"}
  PROVE  Undisturbed!Disturb
PROOF
<1>1. host'[p] = h /\ \A q \in Processes : q # p => Talk(q)' = Talk(q)
  BY OthersTalk
<1>2. Talk(p)' = Talk(p) \/ Talk(p)' = Nobody
  <2>1. CASE ~h.calm \/ h.failed
    BY <1>1, <2>1 DEF Talk, Nobody
  <2>2. CASE h.calm /\ ~h.failed
    BY <1>1, <2>2 DEF Talk
  <2> QED BY <2>1, <2>2
<1> QED BY <1>1, <1>2, Disturbing

\* The statements of message_communication around call, and the end of a
\* command.
LEMMA SilentSteps ==
  ASSUME IInv, NEW p \in Processes,
         \/ ListUsb(p) \/ MakeKernel(p) \/ Enumerate(p) \/ Open(p) \/ Throws(p)
         \/ DestroyKernel(p) \/ Return(p)
  PROVE  Undisturbed!Disturb
PROOF
<1>1. HostOK(host[p])
  BY DEF IInv, HostInv
<1>2. CASE ListUsb(p)
  <2> DEFINE h == [Off EXCEPT !.at = "made", !.job = "list", !.library = TRUE]
  <2>1. ~h.calm
    BY DEF Off
  <2> QED BY <2>1, <1>2, SilentStep DEF ListUsb
<1>3. CASE MakeKernel(p)
  <2> DEFINE h == [host[p] EXCEPT !.at = "made", !.library = TRUE, !.id = sent']
  <2>1. /\ host[p].at = "idle" /\ h.at = "made" /\ h.reply_to = host[p].reply_to
        /\ h.calm = host[p].calm /\ h.failed = host[p].failed
    BY <1>1, <1>3 DEF MakeKernel, HostOK, Hosts
  <2> QED BY <2>1, <1>3, SilentStep DEF MakeKernel
<1>4. CASE Enumerate(p)
  <2>1. PICK h : /\ Becomes(p, h)
                 /\ \/ h = [host[p] EXCEPT !.at = "leaving"]
                    \/ h = [host[p] EXCEPT !.at = "leaving", !.failed = TRUE]
                    \/ h = [host[p] EXCEPT !.at = "listed", !.dev = bus[1]]
    BY <1>1, <1>4 DEF Enumerate, HostOK, Hosts
  <2>2. /\ host[p].at = "made" /\ h.at \in {"leaving", "listed"}
        /\ h.reply_to = host[p].reply_to
        /\ h.calm = host[p].calm /\ (h.failed = host[p].failed \/ h.failed)
    BY <1>1, <1>4, <2>1 DEF Enumerate, HostOK, Hosts
  <2> QED BY <2>1, <2>2, <1>4, SilentStep DEF Enumerate
<1>5. CASE Open(p)
  <2> DEFINE h == [host[p] EXCEPT !.at = "opened", !.handle = host[p].dev]
  <2>1. /\ host[p].at = "listed" /\ h.at = "opened" /\ h.reply_to = host[p].reply_to
        /\ h.calm = host[p].calm /\ h.failed = host[p].failed
    BY <1>1, <1>5 DEF Open, HostOK, Hosts
  <2> QED BY <2>1, <1>5, SilentStep DEF Open
<1>6. CASE Throws(p)
  <2> DEFINE h == [host[p] EXCEPT !.at = "leaving", !.failed = TRUE]
  <2>1. h.failed
    BY <1>1 DEF HostOK, Hosts
  <2> QED BY <2>1, <1>6, SilentStep DEF Throws
<1>7. CASE DestroyKernel(p)
  <2>1. PICK h : /\ Becomes(p, h)
                 /\ h = Off \/ h = [host[p] EXCEPT !.at = "idle", !.library = FALSE]
    BY <1>7 DEF DestroyKernel
  <2>2. \/ ~h.calm
        \/ /\ host[p].at = "closed" /\ h.at = "idle" /\ h.reply_to = host[p].reply_to
           /\ h.calm = host[p].calm /\ h.failed = host[p].failed
    BY <1>1, <1>7, <2>1, OffOK DEF DestroyKernel, HostOK, Hosts
  <2> QED BY <2>1, <2>2, <1>7, SilentStep DEF DestroyKernel
<1>8. CASE Return(p)
  BY <1>8, OffOK, SilentStep DEF Return
<1> QED BY <1>2, <1>3, <1>4, <1>5, <1>6, <1>7, <1>8

\* A command begins: with nothing left over, its dialogue does.
LEMMA StartBegins ==
  ASSUME IInv, CalmInv, NEW p \in Processes, Start(p)
  PROVE  Undisturbed!Begin(p) \/ Undisturbed!Disturb
PROOF
<1> DEFINE h == [Off EXCEPT !.at = "idle", !.calm = Quiet]
<1>1. h.at = "idle" /\ (h.calm <=> Quiet) /\ ~h.failed /\ h.reply_to = 0
  BY DEF Off
<1>2. host[p].at = "off" /\ Becomes(p, h) /\ UNCHANGED <<bus, wallet>>
  BY DEF Start
<1> HIDE DEF h
<1>3. CASE ~Quiet
  BY <1>1, <1>2, <1>3, SilentStep
<1>4. CASE Quiet
  <2>1. host'[p] = h /\ \A q \in Processes : q # p => Talk(q)' = Talk(q)
    BY <1>2, OthersTalk
  <2>2. Talk(p) = Nobody
    BY <1>2 DEF Talk, Nobody, CalmInv, CalmOK
  <2>3. Talk(p)' = [turn |-> "process", wallet |-> NoPath, message |-> 0]
    BY <1>1, <1>4, <2>1 DEF Talk
  <2>4. [q \in Processes |-> Talk(q)'] =
          [[q \in Processes |-> Talk(q)] EXCEPT
             ![p] = [turn |-> "process", wallet |-> NoPath, message |-> 0]]
    BY <2>1, <2>3
  <2>5. [Undisturbed!Silent EXCEPT !.turn = "process"] =
          [turn |-> "process", wallet |-> NoPath, message |-> 0]
    BY DEF Undisturbed!Silent
  <2>6. [w \in Paths |-> wallet[w].asked]' = [w \in Paths |-> wallet[w].asked]
    BY <1>2
  <2>7. [q \in Processes |-> Talk(q)][p].turn = "none"
    BY <2>2 DEF Nobody
  <2>8. Undisturbed!Begin(p)
    BY <2>4, <2>5, <2>6, <2>7 DEF Undisturbed!Begin
  <2> QED BY <2>8
<1> QED BY <1>3, <1>4

\* What the process hears next is in its hands: reading it is no step of the
\* dialogue yet.
LEMMA ReadUnheard ==
  ASSUME IInv, CalmInv, NEW p \in Processes, Read(p)
  PROVE  Undisturbed!Disturb
PROOF
<1> DEFINE v == host[p].handle
           h == [host[p] EXCEPT !.at = "answered", !.got = Head(wallet[v].out)]
<1>1. /\ host[p].at = "written" /\ v \in Paths /\ h.at = "answered" /\ h.handle = v
      /\ h.id = host[p].id /\ h.calm = host[p].calm /\ h.failed = host[p].failed
  BY ExchangeAssumption DEF Read, IInv, HostInv, HostOK, Hosts, Holds
<1>2. /\ Becomes(p, h) /\ bus' = bus /\ wallet[v].out # <<>>
      /\ wallet' = [wallet EXCEPT ![v].out = Tail(@)]
  BY DEF Read
<1>3. \A w \in Paths : wallet'[w].in = wallet[w].in /\ wallet'[w].asked = wallet[w].asked
  BY <1>2 DEF IInv, TypeOK
<1> HIDE DEF h
<1>4. host'[p] = h /\ \A q \in Processes : q # p => Talk(q)' = Talk(q)
  BY <1>2, <1>3, OthersTalk
<1>5. host[p].calm => wallet[v].in = <<>>
  BY <1>1, <1>2 DEF CalmInv, CalmOK, Awaits
<1>6. Talk(p)' = Talk(p)
  BY <1>1, <1>4, <1>5 DEF Talk
<1> QED BY <1>3, <1>4, <1>6, Disturbing

\* A handle is given back after the exchange, or by the exception that ends the
\* dialogue.
LEMMA ClosingSilent ==
  ASSUME IInv, NEW p \in Processes, CallThrows(p) \/ DestroyDevice(p)
  PROVE  Undisturbed!Disturb
PROOF
<1>1. HostOK(host[p])
  BY DEF IInv, HostInv
<1>2. PICK h : /\ Becomes(p, h)
               /\ \/ h = [host[p] EXCEPT !.at = "leaving", !.failed = TRUE, !.handle = NoPath]
                  \/ /\ host[p].at = "leaving"
                     /\ h = [host[p] EXCEPT !.at = "closed", !.dev = NoPath, !.handle = NoPath]
  BY DEF CallThrows, DestroyDevice
<1>3. bus' = bus /\ Release(host[p].handle) /\ host[p].handle \in Paths \union {NoPath}
  BY <1>1 DEF CallThrows, DestroyDevice, HostOK, Hosts
<1>4. \A w \in Paths : wallet'[w].in = wallet[w].in /\ wallet'[w].asked = wallet[w].asked
  BY <1>3, ReleaseStep DEF IInv
<1>5. \/ h.failed
      \/ /\ host[p].at = "leaving" /\ h.at = "closed" /\ h.reply_to = host[p].reply_to
         /\ h.calm = host[p].calm /\ h.failed = host[p].failed
  BY <1>1, <1>2 DEF HostOK, Hosts
<1> QED BY <1>2, <1>3, <1>4, <1>5, SilentStep

\* The answer is decoded: now the process has heard it.
LEMMA DecodeHears ==
  ASSUME IInv, CalmInv, NEW p \in Processes, Decode(p)
  PROVE  Undisturbed!Hear(p) \/ Undisturbed!Disturb
PROOF
<1> DEFINE h == [host[p] EXCEPT !.at = "leaving", !.reply_to = host[p].got]
<1>1. /\ host[p].at = "answered" /\ h.at = "leaving" /\ h.reply_to = host[p].got
      /\ h.calm = host[p].calm /\ h.failed = host[p].failed /\ host[p].id \in Ids
  BY DEF Decode, IInv, HostInv, HostOK, Hosts
<1>2. Becomes(p, h) /\ bus' = bus /\ wallet' = wallet
  BY DEF Decode
<1> HIDE DEF h
<1>3. CASE ~host[p].calm \/ host[p].failed
  BY <1>1, <1>2, <1>3, SilentStep
<1>4. CASE host[p].calm /\ ~host[p].failed
  <2>1. host'[p] = h /\ \A q \in Processes : q # p => Talk(q)' = Talk(q)
    BY <1>2, OthersTalk
  <2>2. host[p].got = host[p].id /\ host[p].handle = bus[1] /\ host[p].id # 0
    BY <1>1, <1>4, ExchangeAssumption DEF CalmInv, CalmOK, Ids
  <2>3. Talk(p) = [turn |-> "answer", wallet |-> bus[1], message |-> host[p].id]
    BY <1>1, <1>4, <2>2 DEF Talk
  <2>4. Talk(p)' = [turn |-> "process", wallet |-> bus[1], message |-> host[p].id]
    BY <1>1, <1>2, <1>4, <2>1, <2>2 DEF Talk
  <2>5. [q \in Processes |-> Talk(q)'] =
          [[q \in Processes |-> Talk(q)] EXCEPT ![p] = [Talk(p) EXCEPT !.turn = "process"]]
    <3>1. Talk(p)' = [Talk(p) EXCEPT !.turn = "process"]
      BY <2>3, <2>4
    <3> QED BY <2>1, <3>1
  <2>6. [w \in Paths |-> wallet[w].asked]' = [w \in Paths |-> wallet[w].asked]
    BY <1>2
  <2>7. [q \in Processes |-> Talk(q)][p].turn = "answer"
    BY <2>3
  <2>8. Undisturbed!Hear(p)
    BY <2>5, <2>6, <2>7 DEF Undisturbed!Hear
  <2> QED BY <2>8
<1> QED BY <1>3, <1>4

\* The process writes its message, to the wallet that asked, and disturbs all
\* others.
LEMMA WriteSays ==
  ASSUME IInv, CalmInv, NEW p \in Processes, Write(p)
  PROVE  \/ Undisturbed!Disturb
         \/ \E w \in Paths, m \in Ids : Undisturbed!Say(p, w, m)
PROOF
<1> DEFINE v == host[p].handle
           h == [host[p] EXCEPT !.at = "written"]
<1>1. /\ HostOK(host[p]) /\ host[p].at = "opened" /\ v \in Paths /\ host[p].id \in Ids
  BY ExchangeAssumption DEF Write, IInv, HostInv, HostOK, Hosts, Holds
<1>2. /\ h.at = "written" /\ h.handle = v /\ h.id = host[p].id
      /\ h.calm = host[p].calm /\ h.failed = host[p].failed /\ HostOK(h)
  BY <1>1 DEF HostOK, Hosts, Holds
<1>3. /\ Disturbs(p, h) /\ bus' = bus
      /\ wallet' = [wallet EXCEPT ![v].in = Append(@, host[p].id)]
  BY DEF Write
<1> HIDE DEF h
<1>4. host'[p] = h /\ \A q \in Processes : q # p => ~host'[q].calm
  BY <1>2, <1>3, DisturbsStep
<1>5. \A q \in Processes : q # p => Talk(q)' = Nobody
  BY <1>4 DEF Talk, Nobody
<1>6. /\ \A w \in Paths : wallet'[w].asked = wallet[w].asked
      /\ wallet'[v].in = Append(wallet[v].in, host[p].id)
  BY <1>1, <1>3 DEF IInv, TypeOK
<1>7. CASE ~host[p].calm \/ host[p].failed
  <2>1. Talk(p)' = Nobody
    BY <1>2, <1>4, <1>7 DEF Talk, Nobody
  <2> QED BY <1>5, <1>6, <2>1, Disturbing
<1>8. CASE host[p].calm /\ ~host[p].failed
  <2>1. wallet'[v].in # <<>>
    <3>1. wallet[v].in = <<>>
      BY <1>1, <1>8 DEF CalmInv, CalmOK, Awaits, Empty
    <3>2. Append(<<>>, host[p].id) # <<>>
      OBVIOUS
    <3> QED BY <1>6, <3>1, <3>2
  <2>2. Talk(p)' = [turn |-> "wallet", wallet |-> v, message |-> host[p].id]
    BY <1>2, <1>4, <1>8, <2>1 DEF Talk
  <2>3. /\ v = bus[1]
        /\ host[p].reply_to # 0 => wallet[v].asked = host[p].reply_to
    BY <1>1, <1>8 DEF CalmInv, CalmOK, Going
  <2>4. /\ Talk(p).turn = "process" /\ Talk(p).message = host[p].reply_to
        /\ Talk(p).message # 0 => Talk(p).wallet = v
    BY <1>1, <1>8, <2>3 DEF Talk
  <2>5. [q \in Processes |-> Talk(q)'] =
          [q \in Processes |->
             IF q = p THEN [turn |-> "wallet", wallet |-> v, message |-> host[p].id]
             ELSE Undisturbed!Silent]
    BY <1>5, <2>2 DEF Nobody, Undisturbed!Silent
  <2>6. [w \in Paths |-> wallet[w].asked]' = [w \in Paths |-> wallet[w].asked]
    BY <1>6
  <2>7. Undisturbed!Say(p, v, host[p].id)
    BY <1>1, <2>3, <2>4, <2>5, <2>6 DEF Undisturbed!Say
  <2> QED BY <1>1, <2>7
<1> QED BY <1>7, <1>8

\* The wallet handles a message: in a dialogue, the one it was told.
LEMMA AnswerHandles ==
  ASSUME IInv, CalmInv, NEW v \in Paths, Answer(v)
  PROVE  \E m \in Ids : Undisturbed!Handle(v, m)
PROOF
<1>0. PICK x : x = Head(wallet[v].in)
  OBVIOUS
<1>1. /\ wallet[v].in # <<>> /\ host' = host /\ bus' = bus
      /\ wallet' = [wallet EXCEPT ![v] = [in    |-> Tail(@.in),
                                          out   |-> Append(@.out, Head(@.in)),
                                          asked |-> Head(@.in)]]
  BY DEF Answer
<1>2. x \in Ids
  BY <1>0, <1>1 DEF IInv, TypeOK
<1>3. /\ wallet'[v].in = Tail(wallet[v].in) /\ wallet'[v].asked = x
      /\ \A w \in Paths : w # v => wallet'[w] = wallet[w]
  BY <1>0, <1>1 DEF IInv, TypeOK
<1>4. ASSUME NEW p \in Processes, host[p].calm, ~host[p].failed
      PROVE  /\ Talk(p) = [turn |-> "wallet", wallet |-> v, message |-> x]
             /\ Talk(p)' = [turn |-> "answer", wallet |-> v, message |-> x]
  <2>1. CalmOK(host[p]) /\ Awaits(host[p], v)
    BY <1>1, <1>4 DEF CalmInv, CalmOK, Empty
  <2>2. host[p].at = "written" /\ host[p].handle = v /\ wallet[v].in = <<host[p].id>>
    BY <1>1, <2>1 DEF CalmOK, Awaits
  <2>3. Tail(<<host[p].id>>) = <<>> /\ Head(<<host[p].id>>) = host[p].id
    OBVIOUS
  <2>4. x = host[p].id /\ wallet'[v].in = <<>>
    BY <1>0, <1>3, <2>2, <2>3
  <2> QED BY <1>1, <1>4, <2>2, <2>4 DEF Talk
<1>5. ASSUME NEW p \in Processes, ~(host[p].calm /\ ~host[p].failed)
      PROVE  Talk(p) = Nobody /\ Talk(p)' = Nobody
  BY <1>1, <1>5 DEF Talk, Nobody
<1>6. Nobody.wallet # v
  BY ExchangeAssumption DEF Nobody
<1>7. \A p \in Processes : Talk(p).wallet = v => Talk(p).turn = "wallet" /\ Talk(p).message = x
  BY <1>4, <1>5, <1>6
<1>8. \A p \in Processes :
        Talk(p)' = IF Talk(p).wallet = v THEN [Talk(p) EXCEPT !.turn = "answer"] ELSE Talk(p)
  BY <1>4, <1>5, <1>6
<1>9. [w \in Paths |-> wallet[w].asked]' =
        [[w \in Paths |-> wallet[w].asked] EXCEPT ![v] = x]
  BY <1>3
<1>10. Undisturbed!Handle(v, x)
  BY <1>7, <1>8, <1>9 DEF Undisturbed!Handle
<1> QED BY <1>2, <1>10

\* A kill, or a change of the bus, ends all dialogues.
LEMMA DisturbedSilent ==
  ASSUME IInv,
         \/ \E p \in Processes : Kill(p)
         \/ \E w \in Paths : Plug(w) \/ Unplug(w)
  PROVE  Undisturbed!Disturb
PROOF
<1>1. /\ \A q \in Processes : ~host'[q].calm
      /\ \A w \in Paths : wallet'[w].asked = wallet[w].asked
  <2>1. ASSUME NEW p \in Processes, Kill(p)
        PROVE  /\ \A q \in Processes : ~host'[q].calm
               /\ \A w \in Paths : wallet'[w].asked = wallet[w].asked
    <3>1. \A q \in Processes : ~host'[q].calm
      BY <2>1, OffOK, DisturbsStep DEF Kill
    <3>2. host[p].handle \in Paths \union {NoPath} /\ Release(host[p].handle)
      BY <2>1 DEF Kill, IInv, HostInv, HostOK, Hosts
    <3> QED BY <3>1, <3>2, ReleaseStep DEF IInv
  <2>2. ASSUME NEW w \in Paths, Plug(w) \/ Unplug(w)
        PROVE  /\ \A q \in Processes : ~host'[q].calm
               /\ wallet' = wallet
    BY <2>2, UncalmedStep DEF Plug, Unplug
  <2> QED BY <2>1, <2>2
<1>2. \A q \in Processes : Talk(q)' = Nobody
  BY <1>1 DEF Talk, Nobody
<1> QED BY <1>1, <1>2, Disturbing

\* Every step of the processes and the wallets is one of the dialogues.
LEMMA StepFollows ==
  ASSUME IInv, CalmInv, [Next]_vars
  PROVE  [Undisturbed!Next]_(Undisturbed!vars)
PROOF
<1>1. ASSUME NEW p \in Processes,
             \/ Start(p) \/ ListUsb(p) \/ MakeKernel(p) \/ HostStep(p) \/ Return(p) \/ Kill(p)
      PROVE  Undisturbed!Next
  <2>1. \/ Undisturbed!Begin(p) \/ Undisturbed!Hear(p) \/ Undisturbed!Disturb
        \/ \E w \in Paths, m \in Ids : Undisturbed!Say(p, w, m)
    BY <1>1, StartBegins, SilentSteps, ReadUnheard, ClosingSilent, DecodeHears, WriteSays,
       DisturbedSilent, Zenon DEF HostStep
  <2> QED BY <2>1, Zenon DEF Undisturbed!Next
<1>2. ASSUME NEW w \in Paths, Answer(w) \/ Plug(w) \/ Unplug(w)
      PROVE  Undisturbed!Next
  <2>1. Undisturbed!Disturb \/ \E m \in Ids : Undisturbed!Handle(w, m)
    BY <1>2, AnswerHandles, DisturbedSilent, Zenon
  <2> QED BY <2>1, Zenon DEF Undisturbed!Next
<1>3. ASSUME UNCHANGED vars
      PROVE  UNCHANGED Undisturbed!vars
  <2>1. \A p \in Processes : Talk(p)' = Talk(p)
    BY <1>3 DEF vars, Talk
  <2>2. wallet' = wallet
    BY <1>3 DEF vars
  <2> QED BY <2>1, <2>2 DEF Undisturbed!vars
<1> QED BY <1>1, <1>2, <1>3 DEF Next

LEMMA InitFollows ==
  Init => Undisturbed!Init
PROOF
<1> SUFFICES ASSUME Init PROVE Undisturbed!Init
  OBVIOUS
<1>1. \A p \in Processes : Talk(p) = Nobody
  BY OffOK DEF Init, Talk, Nobody
<1>2. \A w \in Paths : wallet[w].asked = 0
  BY DEF Init
<1> QED BY <1>1, <1>2 DEF Undisturbed!Init, Undisturbed!Silent, Nobody

\* A dialogue nobody disturbs is one with a single wallet, in turns, although
\* each of its messages makes a kernel, enumerates and opens anew
\* (message_communication, call).
THEOREM DialogueInTurns == Spec => FollowsDialogue
PROOF
<1>1. Spec => [](IInv /\ CalmInv)
  BY InitInv, InitCalm, NextInv, NextCalm, PTL DEF Spec
<1>2. IInv /\ CalmInv /\ [Next]_vars => [Undisturbed!Next]_(Undisturbed!vars)
  BY StepFollows
<1> QED BY <1>1, <1>2, InitFollows, PTL DEF Spec, FollowsDialogue, Undisturbed!Spec
=============================================================================
