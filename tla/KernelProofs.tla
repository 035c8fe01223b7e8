---------------------------- MODULE KernelProofs ----------------------------
(***************************************************************************)
(* Proofs about Kernel, for any number of threads, devices and calls: the  *)
(* recursive mutex is given back, and every method is atomic.              *)
(***************************************************************************)
EXTENDS Kernel, SequenceTheorems, TLAPS

-----------------------------------------------------------------------------
(* The inductive invariant, in named parts *)

\* A thread that has taken the first step of a method: it has the mutex.
Inside(self) == self.call # Idle /\ self.step > 1

\* How often the mutex is locked before step i of op.
Depth(op, i) ==
  CASE op \in {"enumerate", "get", "acquire", "release"} -> 1
    [] op = "get_by_session"    -> IF i \in 4 .. 5 THEN 2 ELSE 1
    [] op = "open_and_acquire"  -> IF i \in {3, 4, 7, 8} THEN 2 ELSE 1
    [] op = "close_and_release" -> IF i \in 5 .. 6 THEN 3
                                   ELSE IF i \in {3, 4, 7, 10, 11} THEN 2 ELSE 1

\* The mutex belongs to the one thread that is inside a method.
MutexInv ==
  /\ mutex.holder = NoThread <=> mutex.depth = 0
  /\ \A t \in Threads :
       /\ mutex.holder = t => Inside(thread[t])
       /\ Inside(thread[t]) =>
            mutex.holder = t /\ mutex.depth = Depth(thread[t].call.op, thread[t].step)

\* A session id was issued, and belongs to one path.
SessionsOK(k) ==
  /\ \A p \in Paths : k.sessions[p] = NoSession \/ k.sessions[p] \in k.issued
  /\ \A p, q \in Paths : k.sessions[p] = k.sessions[q] => p = q \/ k.sessions[p] = NoSession

Same(k, b) == k.sessions = b.sessions /\ k.handles = b.handles /\ k.issued = b.issued

Assigned(self, k, b) ==
  /\ self.result \in Ids \ b.issued
  /\ k.sessions = [b.sessions EXCEPT ![self.path] = self.result]
  /\ k.issued = b.issued \union {self.result}

Erased(self, k, b) ==
  /\ k.sessions = [p \in Paths |-> IF b.sessions[p] = self.call.arg THEN NoSession
                                                                    ELSE b.sessions[p]]
  /\ k.issued = b.issued

\* What the method that has the mutex has made of the state b it found.
Progress(self, k, b) ==
  LET op == self.call.op
      i  == self.step
  IN  /\ op \in {"enumerate", "get", "get_by_session"} => Same(k, b)
      /\ op \in {"acquire", "release"} => k.handles = b.handles
      /\ op \in {"acquire", "release"} /\ i = 2 => Same(k, b)
      /\ op = "acquire" /\ i = 3 => Assigned(self, k, b)
      /\ op = "release" /\ i = 3 => Erased(self, k, b)
      /\ op = "open_and_acquire" =>
           /\ k.handles = IF i <= 5 THEN b.handles ELSE b.handles \union {self.path}
           /\ IF i <= 7 THEN k.sessions = b.sessions /\ k.issued = b.issued
                        ELSE Assigned(self, k, b)
      /\ op = "close_and_release" =>
           /\ k.handles = IF i <= 8 THEN b.handles ELSE b.handles \ {self.path}
           /\ IF i <= 10 THEN k.sessions = b.sessions /\ k.issued = b.issued
                         ELSE Erased(self, k, b)

\* What it has found out, and is going to return.
Findings(self, k, b) ==
  LET op == self.call.op
      i  == self.step
  IN  /\ op \in OnPaths => self.path \in Paths /\ self.path = self.call.arg
      /\ op \in OnSessions => self.call.arg \in k.issued
      /\ (op = "get_by_session" /\ i > 2) \/ (op = "close_and_release" /\ i > 3) =>
           self.path \in Paths /\ b.sessions[self.path] = self.call.arg
      /\ op = "open_and_acquire" /\ i > 3 => self.path \in k.device_kernels
      /\ op \in {"enumerate", "release", "close_and_release"} => self.result = NoResult
      /\ (op = "get" /\ i > 2) \/ (op = "get_by_session" /\ i > 4) => self.result = self.path
      /\ op # "enumerate" \/ i <= 2 => self.list = {}
      /\ op = "enumerate" /\ i > 2 => \A x \in self.list : \E p \in Paths : x = <<p, b.sessions[p]>>

CallOK(self, k, b) ==
  IF self.call = Idle
    THEN self.step = 1
    ELSE /\ self.call \in Calls
         /\ self.step \in 1 .. Len(Program(self.call.op))
         /\ Findings(self, k, b)
         /\ Inside(self) => Progress(self, k, b)

CallInv == \A t \in Threads : CallOK(thread[t], kernel, before)

IInv == TypeOK /\ MutexInv /\ SessionsOK(kernel) /\ SessionsOK(before) /\ CallInv

-----------------------------------------------------------------------------
(* The programs, spelled out *)

Steps == {"lock", "unlock", "emplace", "open", "close", "assign", "find", "erase"}

\* u is s followed by t, element by element.
Joined(s, t, u) ==
  /\ s \in Seq(Steps) /\ t \in Seq(Steps) /\ u \in Seq(Steps)
  /\ Len(u) = Len(s) + Len(t)
  /\ \A i \in 1 .. Len(u) : u[i] = IF i <= Len(s) THEN s[i] ELSE t[i - Len(s)]

LEMMA Join ==
  ASSUME NEW s, NEW t, NEW u, Joined(s, t, u)
  PROVE  s \o t = u
PROOF
<1> USE DEF Joined
<1>1. /\ Len(s) \in Nat /\ Len(t) \in Nat
      /\ s \o t \in Seq(Steps) /\ Len(s \o t) = Len(u)
  BY ConcatProperties, LenProperties
<1>2. ASSUME NEW i \in 1 .. Len(u) PROVE (s \o t)[i] = u[i]
  <2>1. i \in 1 .. Len(s) + Len(t)
    BY <1>1
  <2> QED BY <2>1, <1>1, ConcatProperties
<1> QED BY <1>1, <1>2, SeqEqual

LEMMA GetBySessionSteps ==
  GetBySession = <<"lock", "find", "lock", "emplace", "unlock", "unlock">>
PROOF
<1>1. Joined(<<"lock", "find">>, <<"lock", "emplace", "unlock">>,
             <<"lock", "find", "lock", "emplace", "unlock">>)
  BY DEF Joined, Steps
<1>2. Joined(<<"lock", "find", "lock", "emplace", "unlock">>, <<"unlock">>,
             <<"lock", "find", "lock", "emplace", "unlock", "unlock">>)
  BY DEF Joined, Steps
<1> QED BY <1>1, <1>2, Join DEF GetBySession, GetDeviceKernel

LEMMA OpenAndAcquireSteps ==
  OpenAndAcquire =
    <<"lock", "lock", "emplace", "unlock", "open", "lock", "assign", "unlock", "unlock">>
PROOF
<1>1. Joined(<<"lock">>, <<"lock", "emplace", "unlock">>,
             <<"lock", "lock", "emplace", "unlock">>)
  BY DEF Joined, Steps
<1>2. Joined(<<"lock", "lock", "emplace", "unlock">>, <<"open">>,
             <<"lock", "lock", "emplace", "unlock", "open">>)
  BY DEF Joined, Steps
<1>3. Joined(<<"lock", "lock", "emplace", "unlock", "open">>, <<"lock", "assign",
               "unlock">>,
             <<"lock", "lock", "emplace", "unlock", "open", "lock", "assign", "unlock">>)
  BY DEF Joined, Steps
<1>4. Joined(<<"lock", "lock", "emplace", "unlock", "open", "lock", "assign", "unlock">>,
               <<"unlock">>,
             <<"lock", "lock", "emplace", "unlock", "open", "lock", "assign", "unlock",
               "unlock">>)
  BY DEF Joined, Steps
<1>5. <<"lock">> \o GetDeviceKernel \o <<"open">>
        = <<"lock", "lock", "emplace", "unlock", "open">>
  BY <1>1, <1>2, Join DEF GetDeviceKernel
<1> QED BY <1>3, <1>4, <1>5, Join DEF OpenAndAcquire, AcquireSession

LEMMA CloseAndReleaseSteps ==
  CloseAndRelease =
    <<"lock", "lock", "find", "lock", "emplace", "unlock", "unlock", "close",
      "lock", "erase", "unlock", "unlock">>
PROOF
<1>1. Joined(<<"lock">>, <<"lock", "find", "lock", "emplace", "unlock", "unlock">>,
             <<"lock", "lock", "find", "lock", "emplace", "unlock", "unlock">>)
  BY DEF Joined, Steps
<1>2. Joined(<<"lock", "lock", "find", "lock", "emplace", "unlock", "unlock">>, <<"close">>,
             <<"lock", "lock", "find", "lock", "emplace", "unlock", "unlock", "close">>)
  BY DEF Joined, Steps
<1>3. Joined(<<"lock", "lock", "find", "lock", "emplace", "unlock", "unlock", "close">>,
               <<"lock", "erase", "unlock">>,
             <<"lock", "lock", "find", "lock", "emplace", "unlock", "unlock", "close",
               "lock", "erase", "unlock">>)
  BY DEF Joined, Steps
<1>4. Joined(<<"lock", "lock", "find", "lock", "emplace", "unlock", "unlock", "close",
               "lock", "erase", "unlock">>, <<"unlock">>,
             <<"lock", "lock", "find", "lock", "emplace", "unlock", "unlock", "close",
               "lock", "erase", "unlock", "unlock">>)
  BY DEF Joined, Steps
<1>5. <<"lock">> \o GetBySession \o <<"close">>
        = <<"lock", "lock", "find", "lock", "emplace", "unlock", "unlock", "close">>
  BY <1>1, <1>2, GetBySessionSteps, Join
<1> QED BY <1>3, <1>4, <1>5, Join DEF CloseAndRelease, ReleaseSession

LEMMA Programs ==
  /\ Program("enumerate") = <<"lock", "list", "find_sessions", "unlock">>
  /\ Program("get") = <<"lock", "emplace", "unlock">>
  /\ Program("get_by_session") = <<"lock", "find", "lock", "emplace", "unlock", "unlock">>
  /\ Program("acquire") = <<"lock", "assign", "unlock">>
  /\ Program("release") = <<"lock", "erase", "unlock">>
  /\ Program("open_and_acquire") =
       <<"lock", "lock", "emplace", "unlock", "open", "lock", "assign", "unlock", "unlock">>
  /\ Program("close_and_release") =
       <<"lock", "lock", "find", "lock", "emplace", "unlock", "unlock", "close",
         "lock", "erase", "unlock", "unlock">>
PROOF
  BY GetBySessionSteps, OpenAndAcquireSteps, CloseAndReleaseSteps
  DEF Program, EnumerateDevices, GetDeviceKernel, AcquireSession, ReleaseSession

LEMMA ProgramLengths ==
  /\ Len(Program("enumerate")) = 4
  /\ Len(Program("get")) = 3
  /\ Len(Program("get_by_session")) = 6
  /\ Len(Program("acquire")) = 3
  /\ Len(Program("release")) = 3
  /\ Len(Program("open_and_acquire")) = 9
  /\ Len(Program("close_and_release")) = 12
  /\ Len(CloseAndRelease) = 12
PROOF
<1>1. Program("close_and_release") = CloseAndRelease
  BY DEF Program
<1> QED BY <1>1, Programs

\* Where step i of op is, by what it does.
Places(s, op, i) ==
  /\ s = "lock" =>
       \/ i = 1
       \/ op = "get_by_session" /\ i = 3
       \/ op = "open_and_acquire" /\ i \in {2, 6}
       \/ op = "close_and_release" /\ i \in {2, 4, 9}
  /\ s = "unlock" =>
       \/ op = "enumerate" /\ i = 4
       \/ op \in {"get", "acquire", "release"} /\ i = 3
       \/ op = "get_by_session" /\ i \in {5, 6}
       \/ op = "open_and_acquire" /\ i \in {4, 8, 9}
       \/ op = "close_and_release" /\ i \in {6, 7, 11, 12}
  /\ s = "emplace" =>
       \/ op = "get" /\ i = 2
       \/ op = "get_by_session" /\ i = 4
       \/ op = "open_and_acquire" /\ i = 3
       \/ op = "close_and_release" /\ i = 5
  /\ s = "open" => op = "open_and_acquire" /\ i = 5
  /\ s = "close" => op = "close_and_release" /\ i = 8
  /\ s = "assign" => (op = "acquire" /\ i = 2) \/ (op = "open_and_acquire" /\ i = 7)
  /\ s = "find" => (op = "get_by_session" /\ i = 2) \/ (op = "close_and_release" /\ i = 3)
  /\ s = "erase" => (op = "release" /\ i = 2) \/ (op = "close_and_release" /\ i = 10)
  /\ s = "list" => op = "enumerate" /\ i = 2
  /\ s = "find_sessions" => op = "enumerate" /\ i = 3

Ops == {"enumerate"} \union OnPaths \union OnSessions

LEMMA Place ==
  ASSUME NEW op \in Ops, NEW i \in 1 .. Len(Program(op))
  PROVE  Places(Program(op)[i], op, i)
PROOF
<1>1. PICK steps : steps = Program(op)
  OBVIOUS
<1>2. CASE op = "enumerate"
  <2>1. i \in 1 .. 4 /\ steps = <<"lock", "list", "find_sessions", "unlock">>
    BY <1>1, <1>2, Programs, ProgramLengths
  <2> QED BY <2>1, <1>1, <1>2 DEF Places
<1>3. CASE op = "get"
  <2>1. i \in 1 .. 3 /\ steps = <<"lock", "emplace", "unlock">>
    BY <1>1, <1>3, Programs, ProgramLengths
  <2> QED BY <2>1, <1>1, <1>3 DEF Places
<1>4. CASE op = "get_by_session"
  <2>1. i \in 1 .. 6 /\ steps = <<"lock", "find", "lock", "emplace", "unlock", "unlock">>
    BY <1>1, <1>4, Programs, ProgramLengths
  <2> QED BY <2>1, <1>1, <1>4 DEF Places
<1>5. CASE op = "acquire"
  <2>1. i \in 1 .. 3 /\ steps = <<"lock", "assign", "unlock">>
    BY <1>1, <1>5, Programs, ProgramLengths
  <2> QED BY <2>1, <1>1, <1>5 DEF Places
<1>6. CASE op = "release"
  <2>1. i \in 1 .. 3 /\ steps = <<"lock", "erase", "unlock">>
    BY <1>1, <1>6, Programs, ProgramLengths
  <2> QED BY <2>1, <1>1, <1>6 DEF Places
<1>7. CASE op = "open_and_acquire"
  <2>1. /\ i \in 1 .. 9
        /\ steps = <<"lock", "lock", "emplace", "unlock", "open", "lock", "assign",
                     "unlock", "unlock">>
    BY <1>1, <1>7, Programs, ProgramLengths
  <2> QED BY <2>1, <1>1, <1>7 DEF Places
<1>8. CASE op = "close_and_release"
  <2>1. /\ i \in 1 .. 12
        /\ steps = <<"lock", "lock", "find", "lock", "emplace", "unlock", "unlock", "close",
                     "lock", "erase", "unlock", "unlock">>
    BY <1>1, <1>8, Programs, ProgramLengths
  <2> QED BY <2>1, <1>1, <1>8 DEF Places
<1> QED BY <1>2, <1>3, <1>4, <1>5, <1>6, <1>7, <1>8 DEF Ops, OnPaths, OnSessions

-----------------------------------------------------------------------------
(* One step of one thread *)

ThreadType ==
  [call : Calls \union {Idle}, step : 1 .. Len(CloseAndRelease),
   path : Paths \union {Idle}, todo : SUBSET Paths,
   list : SUBSET (Paths \X (Ids \union {NoSession})),
   result : Paths \union Ids \union {NoResult, Thrown}]

KernelType ==
  [device_kernels : SUBSET Paths, handles : SUBSET Paths, issued : SUBSET Ids,
   sessions : [Paths -> Ids \union {NoSession}]]

LEMMA CallArgs ==
  ASSUME NEW call \in Calls
  PROVE  /\ call # Idle
         /\ call.op \in Ops
         /\ call.op \in OnPaths => call.arg \in Paths
         /\ call.op \in OnSessions => call.arg \in Ids
  BY IdleAssumption DEF Calls, Ops, OnPaths, OnSessions

\* Where a thread is, from what it does next.
LEMMA Located ==
  ASSUME IInv, NEW t \in Threads, NEW s, At(t, s)
  PROVE  /\ thread[t] \in ThreadType
         /\ thread[t].call \in Calls /\ thread[t].call # Idle
         /\ thread[t].call.op \in Ops
         /\ thread[t].step \in 1 .. Len(Program(thread[t].call.op))
         /\ Places(s, thread[t].call.op, thread[t].step)
         /\ CallOK(thread[t], kernel, before)
PROOF
<1>1. thread[t] \in ThreadType
  BY DEF IInv, TypeOK, ThreadType
<1>2. thread[t].call # Idle /\ Program(thread[t].call.op)[thread[t].step] = s
  BY DEF At
<1>3. CallOK(thread[t], kernel, before)
  BY DEF IInv, CallInv
<1>4. thread[t].call \in Calls /\ thread[t].step \in 1 .. Len(Program(thread[t].call.op))
  BY <1>2, <1>3 DEF CallOK
<1>5. thread[t].call.op \in Ops
  BY <1>4, CallArgs
<1> QED BY <1>1, <1>2, <1>3, <1>4, <1>5, Place

LEMMA LengthOf ==
  ASSUME NEW op \in Ops
  PROVE  /\ op = "enumerate" => Len(Program(op)) = 4
         /\ op \in {"get", "acquire", "release"} => Len(Program(op)) = 3
         /\ op = "get_by_session" => Len(Program(op)) = 6
         /\ op = "open_and_acquire" => Len(Program(op)) = 9
         /\ op = "close_and_release" => Len(Program(op)) = 12
  BY ProgramLengths, Zenon

\* Every program begins with a lock and ends with an unlock; in between, the
\* mutex is locked as often after a step that is neither as before it.
LEMMA BetweenLocks ==
  ASSUME NEW op \in Ops, NEW i \in 1 .. Len(Program(op)), NEW s, Places(s, op, i),
         s \in {"emplace", "open", "close", "assign", "find", "erase", "list", "find_sessions"}
  PROVE  /\ i > 1
         /\ i + 1 \in 1 .. Len(Program(op))
         /\ i # Len(Program(op))
         /\ Depth(op, i + 1) = Depth(op, i)
PROOF
<1>1. \/ op = "enumerate" /\ i \in {2, 3}
      \/ op \in {"get", "acquire", "release"} /\ i = 2
      \/ op = "get_by_session" /\ i \in {2, 4}
      \/ op = "open_and_acquire" /\ i \in {3, 5, 7}
      \/ op = "close_and_release" /\ i \in {3, 5, 8, 10}
  BY DEF Places
<1>2. PICK n : n = Len(Program(op))
  OBVIOUS
<1>3. /\ op = "enumerate" => n = 4
      /\ op \in {"get", "acquire", "release"} => n = 3
      /\ op = "get_by_session" => n = 6
      /\ op = "open_and_acquire" => n = 9
      /\ op = "close_and_release" => n = 12
  BY <1>2, LengthOf
<1>4. n \in Nat /\ i > 1 /\ i < n
  BY <1>1, <1>3
<1>5. Depth(op, i + 1) = Depth(op, i)
  BY <1>1 DEF Depth
<1> QED BY <1>2, <1>4, <1>5

LEMMA LengthsBounded ==
  ASSUME NEW op \in Ops
  PROVE  /\ Len(Program(op)) \in 3 .. 12
         /\ 1 .. Len(Program(op)) \subseteq 1 .. Len(CloseAndRelease)
PROOF
<1>1. PICK n : n = Len(Program(op))
  OBVIOUS
<1>2. /\ op = "enumerate" => n = 4
      /\ op \in {"get", "acquire", "release"} => n = 3
      /\ op = "get_by_session" => n = 6
      /\ op = "open_and_acquire" => n = 9
      /\ op = "close_and_release" => n = 12
  BY <1>1, LengthOf
<1>3. n \in 3 .. 12
  BY <1>2 DEF Ops, OnPaths, OnSessions
<1>4. Len(CloseAndRelease) = 12
  BY ProgramLengths
<1>5. 1 .. n \subseteq 1 .. 12
  BY <1>3
<1> QED BY <1>1, <1>3, <1>4, <1>5

\* A thread that has not begun, or is in no call, depends on nothing the
\* others do.
LEMMA NotBegun ==
  ASSUME IInv, NEW u \in Threads, ~Inside(thread[u]),
         NEW k, NEW b, kernel.issued \subseteq k.issued
  PROVE  CallOK(thread[u], k, b)
PROOF
<1>1. CallOK(thread[u], kernel, before)
  BY DEF IInv, CallInv
<1>2. CASE thread[u].call = Idle
  BY <1>1, <1>2 DEF CallOK
<1>3. CASE thread[u].call # Idle
  <2>1. thread[u].step \in Nat /\ thread[u].step >= 1
    BY <1>1, <1>3, CallArgs, LengthsBounded DEF CallOK
  <2>2. thread[u].call \in Calls /\ Findings(thread[u], kernel, before)
        /\ thread[u].step = 1 /\ thread[u].step \in 1 .. Len(Program(thread[u].call.op))
    BY <1>1, <1>3, <2>1 DEF CallOK, Inside
  <2>3. Findings(thread[u], k, b)
    BY <2>2 DEF Findings
  <2> QED BY <1>3, <2>2, <2>3 DEF CallOK
<1> QED BY <1>2, <1>3

\* While t has the mutex, it changes nothing for the other threads.
LEMMA OthersKept ==
  ASSUME IInv, NEW t \in Threads, mutex.holder = t, NEW u \in Threads, u # t,
         NEW k, NEW b, kernel.issued \subseteq k.issued
  PROVE  ~Inside(thread[u]) /\ CallOK(thread[u], k, b)
PROOF
<1>1. ~Inside(thread[u])
  BY DEF IInv, MutexInv
<1> QED BY <1>1, NotBegun

\* A step of a method between two locks or unlocks.
LEMMA WorkStep ==
  ASSUME IInv, NEW t \in Threads, NEW s, At(t, s),
         s \in {"emplace", "open", "close", "assign", "find", "erase", "list", "find_sessions"},
         NEW new \in ThreadType,
         thread' = [thread EXCEPT ![t] = new],
         new.call = thread[t].call, new.step \in {thread[t].step, thread[t].step + 1},
         mutex' = mutex, before' = before, calls' = calls,
         kernel' \in KernelType, kernel'.handles \subseteq kernel'.device_kernels,
         kernel.issued \subseteq kernel'.issued,
         SessionsOK(kernel'),
         Findings(new, kernel', before), Progress(new, kernel', before)
  PROVE  IInv'
PROOF
<1>1. /\ thread[t] \in ThreadType
      /\ thread[t].call \in Calls /\ thread[t].call # Idle
      /\ thread[t].call.op \in Ops
      /\ thread[t].step \in 1 .. Len(Program(thread[t].call.op))
      /\ Places(s, thread[t].call.op, thread[t].step)
  BY Located
<1>2. /\ thread[t].step > 1
      /\ thread[t].step + 1 \in 1 .. Len(Program(thread[t].call.op))
      /\ Depth(thread[t].call.op, thread[t].step + 1) = Depth(thread[t].call.op, thread[t].step)
  BY <1>1, BetweenLocks
<1>3. Len(Program(thread[t].call.op)) \in Nat
  BY <1>1, LengthsBounded
<1>4. Inside(thread[t]) /\ mutex.holder = t
      /\ mutex.depth = Depth(thread[t].call.op, thread[t].step)
  BY <1>1, <1>2 DEF IInv, MutexInv, Inside
<1>5. new.step > 1 /\ new.step \in 1 .. Len(Program(thread[t].call.op))
      /\ Depth(thread[t].call.op, new.step) = Depth(thread[t].call.op, thread[t].step)
  BY <1>1, <1>2, <1>3
<1>6. thread \in [Threads -> ThreadType]
  BY DEF IInv, TypeOK, ThreadType
<1>7. /\ thread' \in [Threads -> ThreadType]
      /\ thread'[t] = new
      /\ \A u \in Threads : u # t => thread'[u] = thread[u]
  BY <1>6
<1>8. TypeOK'
  BY <1>7 DEF IInv, TypeOK, ThreadType, KernelType
<1>9. MutexInv'
  <2>1. Inside(new)
    BY <1>1, <1>5 DEF Inside
  <2>2. \A u \in Threads : u # t => ~Inside(thread'[u]) /\ mutex'.holder # u
    BY <1>4, <1>7, OthersKept
  <2> QED BY <2>1, <2>2, <1>4, <1>5, <1>7 DEF IInv, MutexInv
<1>10. CallInv'
  <2>1. CallOK(new, kernel', before')
    BY <1>1, <1>5 DEF CallOK
  <2>2. \A u \in Threads : u # t => CallOK(thread'[u], kernel', before')
    BY <1>4, <1>7, OthersKept
  <2> QED BY <2>1, <2>2, <1>7 DEF CallInv
<1> QED BY <1>8, <1>9, <1>10 DEF IInv

LEMMA GoesOn ==
  ASSUME IInv, NEW t \in Threads, NEW s, At(t, s),
         s \in {"emplace", "open", "close", "assign", "find", "erase", "list", "find_sessions"},
         NEW self \in ThreadType,
         self.call = thread[t].call, self.step = thread[t].step,
         GoOn(t, self),
         NEW new, new = [self EXCEPT !.step = self.step + 1]
  PROVE  /\ thread' = [thread EXCEPT ![t] = new]
         /\ new \in ThreadType
         /\ new.call = self.call /\ new.step = self.step + 1 /\ new.path = self.path
         /\ new.todo = self.todo /\ new.list = self.list /\ new.result = self.result
PROOF
<1>1. /\ thread[t].call.op \in Ops
      /\ thread[t].step \in 1 .. Len(Program(thread[t].call.op))
      /\ Places(s, thread[t].call.op, thread[t].step)
  BY Located
<1>2. self.step # Len(Program(self.call.op)) /\ self.step + 1 \in 1 .. Len(CloseAndRelease)
  BY <1>1, BetweenLocks, LengthsBounded
<1>3. thread' = [thread EXCEPT ![t] = new]
  BY <1>2 DEF GoOn
<1> QED BY <1>2, <1>3 DEF ThreadType

LEMMA EmplaceStep ==
  ASSUME IInv, NEW t \in Threads, Emplace(t)
  PROVE  IInv'
PROOF
<1> DEFINE self == [thread[t] EXCEPT !.result =
                     IF thread[t].call.op \in {"get", "get_by_session"} THEN thread[t].path
                                                                        ELSE @]
           new  == [self EXCEPT !.step = self.step + 1]
<1>1. At(t, "emplace")
  BY DEF Emplace
<1>2. /\ thread[t] \in ThreadType
      /\ thread[t].call \in Calls /\ thread[t].call # Idle
      /\ Places("emplace", thread[t].call.op, thread[t].step)
      /\ CallOK(thread[t], kernel, before)
  BY <1>1, Located
<1>3. /\ Findings(thread[t], kernel, before)
      /\ Progress(thread[t], kernel, before)
      /\ thread[t].path \in Paths
  BY <1>2 DEF CallOK, Inside, Places, Findings, OnPaths, OnSessions
<1>4. /\ self \in ThreadType
      /\ self.call = thread[t].call /\ self.step = thread[t].step /\ self.path = thread[t].path
      /\ self.list = thread[t].list
      /\ thread[t].call.op \in {"get", "get_by_session"} => self.result = thread[t].path
      /\ thread[t].call.op \notin {"get", "get_by_session"} => self.result = thread[t].result
  BY <1>2, <1>3 DEF ThreadType
<1>5. GoOn(t, self)
  BY DEF Emplace
<1> HIDE DEF self
<1>6. /\ thread' = [thread EXCEPT ![t] = new]
      /\ new \in ThreadType
      /\ new.call = self.call /\ new.step = self.step + 1 /\ new.path = self.path
      /\ new.list = self.list /\ new.result = self.result
  BY <1>1, <1>4, <1>5, GoesOn
<1> HIDE DEF new
<1>7. /\ kernel \in KernelType
      /\ kernel.handles \subseteq kernel.device_kernels
  BY DEF IInv, TypeOK, KernelType
<1>8. /\ kernel' \in KernelType
      /\ kernel'.device_kernels = kernel.device_kernels \union {thread[t].path}
      /\ kernel'.handles = kernel.handles /\ kernel'.sessions = kernel.sessions
      /\ kernel'.issued = kernel.issued
  BY <1>3, <1>7 DEF Emplace, KernelType
<1>9. mutex' = mutex /\ before' = before /\ calls' = calls
  BY DEF Emplace
<1>10. SessionsOK(kernel')
  BY <1>8 DEF IInv, SessionsOK
<1>11. Findings(new, kernel', before)
  BY <1>2, <1>3, <1>4, <1>6, <1>8 DEF Findings, Places, OnPaths, OnSessions
<1>12. Progress(new, kernel', before)
  BY <1>2, <1>3, <1>4, <1>6, <1>8 DEF Progress, Places, Same, Assigned, Erased
<1> QED BY <1>1, <1>4, <1>6, <1>7, <1>8, <1>9, <1>10, <1>11, <1>12, WorkStep

LEMMA OpenStep ==
  ASSUME IInv, NEW t \in Threads, Open(t)
  PROVE  IInv'
PROOF
<1> DEFINE new == [thread[t] EXCEPT !.step = thread[t].step + 1]
<1>1. At(t, "open")
  BY DEF Open
<1>2. /\ thread[t] \in ThreadType
      /\ thread[t].call \in Calls /\ thread[t].call # Idle
      /\ Places("open", thread[t].call.op, thread[t].step)
      /\ CallOK(thread[t], kernel, before)
  BY <1>1, Located
<1>3. /\ Findings(thread[t], kernel, before)
      /\ Progress(thread[t], kernel, before)
      /\ thread[t].path \in Paths /\ thread[t].path \in kernel.device_kernels
  BY <1>2, CallArgs DEF CallOK, Inside, Places, Findings, Progress, Same, OnPaths, OnSessions
<1>4. GoOn(t, thread[t])
  BY DEF Open
<1>5. /\ thread' = [thread EXCEPT ![t] = new]
      /\ new \in ThreadType
      /\ new.call = thread[t].call /\ new.step = thread[t].step + 1
      /\ new.path = thread[t].path /\ new.list = thread[t].list
      /\ new.result = thread[t].result
  BY <1>1, <1>2, <1>4, GoesOn
<1> HIDE DEF new
<1>6. /\ kernel \in KernelType /\ before \in KernelType
      /\ kernel.handles \subseteq kernel.device_kernels
  BY DEF IInv, TypeOK, KernelType
<1>7. /\ kernel' \in KernelType
      /\ kernel'.handles \subseteq kernel'.device_kernels
      /\ kernel.issued \subseteq kernel'.issued
      /\ kernel'.device_kernels = kernel.device_kernels
      /\ kernel'.handles = kernel.handles \union {thread[t].path}
      /\ kernel'.sessions = kernel.sessions /\ kernel'.issued = kernel.issued
  BY <1>2, <1>3, <1>6 DEF Open, KernelType
<1>8. mutex' = mutex /\ before' = before /\ calls' = calls
  BY DEF Open
<1>9. SessionsOK(kernel')
  BY <1>7 DEF IInv, SessionsOK
<1>10. Findings(new, kernel', before)
  BY <1>2, <1>3, <1>5, <1>7 DEF Findings, Places, OnPaths, OnSessions
<1>11. Progress(new, kernel', before)
  BY <1>2, <1>3, <1>5, <1>6, <1>7 DEF Progress, Places, Same, Assigned, Erased
<1> QED BY <1>1, <1>5, <1>7, <1>8, <1>9, <1>10, <1>11, WorkStep

LEMMA CloseStep ==
  ASSUME IInv, NEW t \in Threads, Close(t)
  PROVE  IInv'
PROOF
<1> DEFINE new == [thread[t] EXCEPT !.step = thread[t].step + 1]
<1>1. At(t, "close")
  BY DEF Close
<1>2. /\ thread[t] \in ThreadType
      /\ thread[t].call \in Calls /\ thread[t].call # Idle
      /\ Places("close", thread[t].call.op, thread[t].step)
      /\ CallOK(thread[t], kernel, before)
  BY <1>1, Located
<1>3. /\ Findings(thread[t], kernel, before)
      /\ Progress(thread[t], kernel, before)
      /\ thread[t].path \in Paths
  BY <1>2, CallArgs DEF CallOK, Inside, Places, Findings, Progress, Same, OnPaths, OnSessions
<1>4. GoOn(t, thread[t])
  BY DEF Close
<1>5. /\ thread' = [thread EXCEPT ![t] = new]
      /\ new \in ThreadType
      /\ new.call = thread[t].call /\ new.step = thread[t].step + 1
      /\ new.path = thread[t].path /\ new.list = thread[t].list
      /\ new.result = thread[t].result
  BY <1>1, <1>2, <1>4, GoesOn
<1> HIDE DEF new
<1>6. /\ kernel \in KernelType /\ before \in KernelType
      /\ kernel.handles \subseteq kernel.device_kernels
  BY DEF IInv, TypeOK, KernelType
<1>7. /\ kernel' \in KernelType
      /\ kernel'.handles \subseteq kernel'.device_kernels
      /\ kernel.issued \subseteq kernel'.issued
      /\ kernel'.device_kernels = kernel.device_kernels
      /\ kernel'.handles = kernel.handles \ {thread[t].path}
      /\ kernel'.sessions = kernel.sessions /\ kernel'.issued = kernel.issued
  BY <1>2, <1>3, <1>6 DEF Close, KernelType
<1>8. mutex' = mutex /\ before' = before /\ calls' = calls
  BY DEF Close
<1>9. SessionsOK(kernel')
  BY <1>7 DEF IInv, SessionsOK
<1>10. Findings(new, kernel', before)
  BY <1>2, <1>3, <1>5, <1>7 DEF Findings, Places, OnPaths, OnSessions
<1>11. Progress(new, kernel', before)
  BY <1>2, <1>3, <1>5, <1>6, <1>7 DEF Progress, Places, Same, Assigned, Erased
<1> QED BY <1>1, <1>5, <1>7, <1>8, <1>9, <1>10, <1>11, WorkStep

LEMMA EraseStep ==
  ASSUME IInv, NEW t \in Threads, Erase(t)
  PROVE  IInv'
PROOF
<1> DEFINE new == [thread[t] EXCEPT !.step = thread[t].step + 1]
<1>1. At(t, "erase")
  BY DEF Erase
<1>2. /\ thread[t] \in ThreadType
      /\ thread[t].call \in Calls /\ thread[t].call # Idle
      /\ Places("erase", thread[t].call.op, thread[t].step)
      /\ CallOK(thread[t], kernel, before)
  BY <1>1, Located
<1>3. /\ Findings(thread[t], kernel, before)
      /\ Progress(thread[t], kernel, before)
  BY <1>2, CallArgs DEF CallOK, Inside, Places, Findings, Progress, Same, OnPaths, OnSessions
<1>4. GoOn(t, thread[t])
  BY DEF Erase
<1>5. /\ thread' = [thread EXCEPT ![t] = new]
      /\ new \in ThreadType
      /\ new.call = thread[t].call /\ new.step = thread[t].step + 1
      /\ new.path = thread[t].path /\ new.list = thread[t].list
      /\ new.result = thread[t].result
  BY <1>1, <1>2, <1>4, GoesOn
<1> HIDE DEF new
<1>6. /\ kernel \in KernelType /\ before \in KernelType
      /\ kernel.handles \subseteq kernel.device_kernels
  BY DEF IInv, TypeOK, KernelType
<1>7. /\ kernel' \in KernelType
      /\ kernel'.handles \subseteq kernel'.device_kernels
      /\ kernel.issued \subseteq kernel'.issued
      /\ kernel'.device_kernels = kernel.device_kernels
      /\ kernel'.handles = kernel.handles /\ kernel'.issued = kernel.issued
      /\ kernel'.sessions =
           [p \in Paths |-> IF kernel.sessions[p] = thread[t].call.arg THEN NoSession
                                                                       ELSE kernel.sessions[p]]
  BY <1>2, <1>3, <1>6 DEF Erase, KernelType
<1>8. mutex' = mutex /\ before' = before /\ calls' = calls
  BY DEF Erase
<1>9. SessionsOK(kernel')
  BY <1>7, <1>6 DEF IInv, SessionsOK, KernelType
<1>10. Findings(new, kernel', before)
  BY <1>2, <1>3, <1>5, <1>7 DEF Findings, Places, OnPaths, OnSessions
<1>11. Progress(new, kernel', before)
  BY <1>2, <1>3, <1>5, <1>6, <1>7 DEF Progress, Places, Same, Assigned, Erased
<1> QED BY <1>1, <1>5, <1>7, <1>8, <1>9, <1>10, <1>11, WorkStep

LEMMA AssignStep ==
  ASSUME IInv, NEW t \in Threads, Assign(t)
  PROVE  IInv'
PROOF
<1> PICK id \in Ids \ kernel.issued :
      /\ kernel' = [kernel EXCEPT !.issued = @ \union {id},
                                  !.sessions[thread[t].path] = id]
      /\ GoOn(t, [thread[t] EXCEPT !.result = id])
  BY DEF Assign
<1> DEFINE self == [thread[t] EXCEPT !.result = id]
           new  == [self EXCEPT !.step = self.step + 1]
<1>1. At(t, "assign")
  BY DEF Assign
<1>2. /\ thread[t] \in ThreadType
      /\ thread[t].call \in Calls /\ thread[t].call # Idle
      /\ Places("assign", thread[t].call.op, thread[t].step)
      /\ CallOK(thread[t], kernel, before)
  BY <1>1, Located
<1>3. /\ Findings(thread[t], kernel, before)
      /\ Progress(thread[t], kernel, before)
      /\ thread[t].path \in Paths
  BY <1>2, CallArgs DEF CallOK, Inside, Places, Findings, Progress, Same, OnPaths, OnSessions
<1>4. /\ self \in ThreadType
      /\ self.call = thread[t].call /\ self.step = thread[t].step /\ self.path = thread[t].path
      /\ self.list = thread[t].list /\ self.result = id
  BY <1>2 DEF ThreadType
<1>0. GoOn(t, self)
  OBVIOUS
<1> HIDE DEF self
<1>5. /\ thread' = [thread EXCEPT ![t] = new]
      /\ new \in ThreadType
      /\ new.call = self.call /\ new.step = self.step + 1 /\ new.path = self.path
      /\ new.list = self.list /\ new.result = self.result
  BY <1>0, <1>1, <1>4, GoesOn
<1> HIDE DEF new
<1>6. /\ kernel \in KernelType /\ before \in KernelType
      /\ kernel.handles \subseteq kernel.device_kernels
  BY DEF IInv, TypeOK, KernelType
<1>7. /\ kernel' \in KernelType
      /\ kernel'.device_kernels = kernel.device_kernels /\ kernel'.handles = kernel.handles
      /\ kernel'.issued = kernel.issued \union {id}
      /\ kernel'.sessions = [kernel.sessions EXCEPT ![thread[t].path] = id]
  BY <1>3, <1>6 DEF KernelType
<1>8. mutex' = mutex /\ before' = before /\ calls' = calls
  BY DEF Assign
<1>9. SessionsOK(kernel')
  BY <1>3, <1>6, <1>7 DEF IInv, SessionsOK, KernelType
<1>10. Findings(new, kernel', before)
  BY <1>2, <1>3, <1>4, <1>5, <1>7 DEF Findings, Places, OnPaths, OnSessions
<1>11. Progress(new, kernel', before)
  BY <1>2, <1>3, <1>4, <1>5, <1>6, <1>7 DEF Progress, Places, Same, Assigned, Erased
<1> QED BY <1>1, <1>4, <1>5, <1>6, <1>7, <1>8, <1>9, <1>10, <1>11, WorkStep

LEMMA FindStep ==
  ASSUME IInv, NEW t \in Threads, Find(t)
  PROVE  IInv'
PROOF
<1> PICK p \in Paths : /\ kernel.sessions[p] = thread[t].call.arg
                       /\ GoOn(t, [thread[t] EXCEPT !.path = p])
  BY DEF Find
<1> DEFINE self == [thread[t] EXCEPT !.path = p]
           new  == [self EXCEPT !.step = self.step + 1]
<1>1. At(t, "find")
  BY DEF Find
<1>2. /\ thread[t] \in ThreadType
      /\ thread[t].call \in Calls /\ thread[t].call # Idle
      /\ Places("find", thread[t].call.op, thread[t].step)
      /\ CallOK(thread[t], kernel, before)
  BY <1>1, Located
<1>3. /\ Findings(thread[t], kernel, before)
      /\ Progress(thread[t], kernel, before)
      /\ kernel.sessions = before.sessions
  BY <1>2, CallArgs DEF CallOK, Inside, Places, Findings, Progress, Same, OnPaths, OnSessions
<1>4. /\ self \in ThreadType
      /\ self.call = thread[t].call /\ self.step = thread[t].step /\ self.path = p
      /\ self.list = thread[t].list /\ self.result = thread[t].result
  BY <1>2 DEF ThreadType
<1>0. GoOn(t, self)
  OBVIOUS
<1> HIDE DEF self
<1>5. /\ thread' = [thread EXCEPT ![t] = new]
      /\ new \in ThreadType
      /\ new.call = self.call /\ new.step = self.step + 1 /\ new.path = self.path
      /\ new.list = self.list /\ new.result = self.result
  BY <1>0, <1>1, <1>4, GoesOn
<1> HIDE DEF new
<1>6. /\ kernel \in KernelType
      /\ kernel.handles \subseteq kernel.device_kernels
  BY DEF IInv, TypeOK, KernelType
<1>7. kernel' = kernel /\ mutex' = mutex /\ before' = before /\ calls' = calls
  BY DEF Find
<1>8. SessionsOK(kernel')
  BY <1>7 DEF IInv
<1>9. Findings(new, kernel', before)
  BY <1>2, <1>3, <1>4, <1>5, <1>7 DEF Findings, Places, OnPaths, OnSessions
<1>10. Progress(new, kernel', before)
  BY <1>2, <1>3, <1>4, <1>5, <1>7 DEF Progress, Places, Same
<1> QED BY <1>1, <1>4, <1>5, <1>6, <1>7, <1>8, <1>9, <1>10, WorkStep

LEMMA ListStep ==
  ASSUME IInv, NEW t \in Threads, List(t)
  PROVE  IInv'
PROOF
<1> PICK plugged \in SUBSET Devices :
      GoOn(t, [thread[t] EXCEPT !.todo = {d.path : d \in {e \in plugged : Supported(e)}}])
  BY DEF List
<1> DEFINE self == [thread[t] EXCEPT !.todo = {d.path : d \in {e \in plugged : Supported(e)}}]
           new  == [self EXCEPT !.step = self.step + 1]
<1>1. At(t, "list")
  BY DEF List
<1>2. /\ thread[t] \in ThreadType
      /\ thread[t].call \in Calls /\ thread[t].call # Idle
      /\ Places("list", thread[t].call.op, thread[t].step)
      /\ CallOK(thread[t], kernel, before)
  BY <1>1, Located
<1>3. /\ Findings(thread[t], kernel, before)
      /\ Progress(thread[t], kernel, before)
  BY <1>2, CallArgs DEF CallOK, Inside, Places, Findings, Progress, Same, OnPaths, OnSessions
<1>4. {d.path : d \in {e \in plugged : Supported(e)}} \subseteq Paths
  BY DEF Paths
<1>5. /\ self \in ThreadType
      /\ self.call = thread[t].call /\ self.step = thread[t].step /\ self.path = thread[t].path
      /\ self.list = thread[t].list /\ self.result = thread[t].result
  BY <1>2, <1>4 DEF ThreadType
<1>0. GoOn(t, self)
  OBVIOUS
<1> HIDE DEF self
<1>6. /\ thread' = [thread EXCEPT ![t] = new]
      /\ new \in ThreadType
      /\ new.call = self.call /\ new.step = self.step + 1 /\ new.path = self.path
      /\ new.list = self.list /\ new.result = self.result
  BY <1>0, <1>1, <1>5, GoesOn
<1> HIDE DEF new
<1>7. /\ kernel \in KernelType
      /\ kernel.handles \subseteq kernel.device_kernels
  BY DEF IInv, TypeOK, KernelType
<1>8. kernel' = kernel /\ mutex' = mutex /\ before' = before /\ calls' = calls
  BY DEF List
<1>9. SessionsOK(kernel')
  BY <1>8 DEF IInv
<1>10. Findings(new, kernel', before)
  BY <1>2, <1>3, <1>5, <1>6, <1>8 DEF Findings, Places, OnPaths, OnSessions
<1>11. Progress(new, kernel', before)
  BY <1>2, <1>3, <1>5, <1>6, <1>8 DEF Progress, Places, Same
<1> QED BY <1>1, <1>5, <1>6, <1>7, <1>8, <1>9, <1>10, <1>11, WorkStep

LEMMA FindSessionsStep ==
  ASSUME IInv, NEW t \in Threads, FindSessions(t)
  PROVE  IInv'
PROOF
<1>1. At(t, "find_sessions")
  BY DEF FindSessions
<1>2. /\ thread[t] \in ThreadType
      /\ thread[t].call \in Calls /\ thread[t].call # Idle
      /\ Places("find_sessions", thread[t].call.op, thread[t].step)
      /\ CallOK(thread[t], kernel, before)
  BY <1>1, Located
<1>3. /\ Findings(thread[t], kernel, before)
      /\ Progress(thread[t], kernel, before)
      /\ kernel.sessions = before.sessions
  BY <1>2, CallArgs DEF CallOK, Inside, Places, Findings, Progress, Same, OnPaths, OnSessions
<1>4. /\ kernel \in KernelType
      /\ kernel.handles \subseteq kernel.device_kernels
      /\ thread \in [Threads -> ThreadType]
  BY DEF IInv, TypeOK, KernelType, ThreadType
<1>5. kernel' = kernel /\ mutex' = mutex /\ before' = before /\ calls' = calls
  BY DEF FindSessions
<1>6. SessionsOK(kernel')
  BY <1>5 DEF IInv
<1>7. CASE thread[t].todo = {} /\ GoOn(t, thread[t])
  <2> DEFINE new == [thread[t] EXCEPT !.step = thread[t].step + 1]
  <2>1. /\ thread' = [thread EXCEPT ![t] = new]
        /\ new \in ThreadType
        /\ new.call = thread[t].call /\ new.step = thread[t].step + 1
        /\ new.path = thread[t].path /\ new.list = thread[t].list
        /\ new.result = thread[t].result
    BY <1>1, <1>2, <1>7, GoesOn
  <2> HIDE DEF new
  <2>2. Findings(new, kernel', before)
    BY <1>2, <1>3, <1>5, <2>1 DEF Findings, Places, OnPaths, OnSessions
  <2>3. Progress(new, kernel', before)
    BY <1>2, <1>3, <1>5, <2>1 DEF Progress, Places, Same
  <2> QED BY <1>1, <1>4, <1>5, <1>6, <2>1, <2>2, <2>3, WorkStep
<1>8. ASSUME NEW p \in thread[t].todo,
             thread' = [thread EXCEPT ![t].todo = @ \ {p},
                                      ![t].list = @ \union {<<p, kernel.sessions[p]>>}]
      PROVE  IInv'
  <2> DEFINE new == [thread[t] EXCEPT !.todo = @ \ {p},
                                      !.list = @ \union {<<p, kernel.sessions[p]>>}]
  <2>1. p \in Paths /\ <<p, kernel.sessions[p]>> \in Paths \X (Ids \union {NoSession})
    BY <1>2, <1>4 DEF ThreadType, KernelType
  <2>2. /\ new \in ThreadType
        /\ new.call = thread[t].call /\ new.step = thread[t].step
        /\ new.path = thread[t].path /\ new.result = thread[t].result
        /\ new.list = thread[t].list \union {<<p, kernel.sessions[p]>>}
    BY <1>2, <2>1 DEF ThreadType
  <2>3. thread' = [thread EXCEPT ![t] = new]
    BY <1>4, <1>8
  <2> HIDE DEF new
  <2>4. Findings(new, kernel', before)
    BY <1>2, <1>3, <1>5, <2>1, <2>2 DEF Findings, Places, OnPaths, OnSessions
  <2>5. Progress(new, kernel', before)
    BY <1>2, <1>3, <1>5, <2>2 DEF Progress, Places, Same
  <2> QED BY <1>1, <1>4, <1>5, <1>6, <2>2, <2>3, <2>4, <2>5, WorkStep
<1> QED BY <1>7, <1>8 DEF FindSessions

\* What a step that throws does: the mutex is free, nothing else has changed.
LEMMA ThrowStep ==
  ASSUME IInv, NEW t \in Threads, mutex.holder = t, Throw(t)
  PROVE  IInv'
PROOF
<1> DEFINE new == [thread[t] EXCEPT !.call = Idle, !.step = 1, !.result = Thrown]
<1>1. thread \in [Threads -> ThreadType] /\ 1 \in 1 .. Len(CloseAndRelease)
  BY ProgramLengths DEF IInv, TypeOK, ThreadType
<1>2. new \in ThreadType /\ new.call = Idle /\ new.step = 1
  <2>1. thread[t] \in ThreadType
    BY <1>1
  <2>2. new \in ThreadType
    BY <1>1, <2>1 DEF ThreadType
  <2>3. new.call = Idle /\ new.step = 1
    BY <2>1 DEF ThreadType
  <2> QED BY <2>2, <2>3
<1>3. /\ thread' \in [Threads -> ThreadType]
      /\ thread'[t] = new
      /\ \A u \in Threads : u # t => thread'[u] = thread[u]
  BY <1>1, <1>2 DEF Throw
<1>4. kernel' = kernel /\ before' = before /\ calls' = calls
      /\ mutex' = [holder |-> NoThread, depth |-> 0]
  BY DEF Throw
<1> HIDE DEF new
<1>5. \A u \in Threads : u # t => ~Inside(thread'[u]) /\ CallOK(thread'[u], kernel', before')
  BY <1>3, <1>4, OthersKept
<1>6. CallOK(new, kernel', before') /\ ~Inside(new)
  BY <1>2 DEF CallOK, Inside
<1>7. TypeOK'
  BY <1>3, <1>4 DEF IInv, TypeOK, ThreadType
<1>8. MutexInv'
  BY <1>3, <1>4, <1>5, <1>6, KernelAssumption DEF MutexInv
<1> QED BY <1>3, <1>4, <1>5, <1>6, <1>7, <1>8 DEF IInv, CallInv

LEMMA OpenThrowsStep ==
  ASSUME IInv, NEW t \in Threads, OpenThrows(t)
  PROVE  IInv'
PROOF
<1>1. At(t, "open") /\ Throw(t)
  BY DEF OpenThrows
<1>2. mutex.holder = t
  BY <1>1, Located DEF IInv, MutexInv, Inside, Places
<1> QED BY <1>1, <1>2, ThrowStep

LEMMA UnknownSessionStep ==
  ASSUME IInv, NEW t \in Threads, UnknownSession(t)
  PROVE  IInv'
PROOF
<1>1. At(t, "find") /\ Throw(t)
  BY DEF UnknownSession
<1>2. mutex.holder = t
  BY <1>1, Located DEF IInv, MutexInv, Inside, Places
<1> QED BY <1>1, <1>2, ThrowStep

LEMMA InvokeStep ==
  ASSUME IInv, NEW t \in Threads, NEW call \in Calls, Invoke(t, call)
  PROVE  IInv'
PROOF
<1> DEFINE new == [Resting EXCEPT !.call = call,
                                  !.path = IF call.op \in OnPaths THEN call.arg ELSE Idle]
<1>1. thread \in [Threads -> ThreadType] /\ 1 \in 1 .. Len(CloseAndRelease)
  BY ProgramLengths DEF IInv, TypeOK, ThreadType
<1>2. /\ new.call = call /\ new.step = 1 /\ new.list = {} /\ new.todo = {}
      /\ new.result = NoResult
      /\ new.path = IF call.op \in OnPaths THEN call.arg ELSE Idle
      /\ new \in ThreadType
  BY <1>1, CallArgs DEF Resting, ThreadType
<1>3. /\ thread' \in [Threads -> ThreadType]
      /\ thread'[t] = new
      /\ \A u \in Threads : u # t => thread'[u] = thread[u]
  BY <1>1, <1>2 DEF Invoke
<1>4. /\ kernel' = kernel /\ before' = before /\ mutex' = mutex
      /\ call.op \in OnSessions => call.arg \in kernel.issued
      /\ thread[t].call = Idle
      /\ calls' \in 0 .. MaxCalls
  BY KernelAssumption DEF Invoke, IInv, TypeOK
<1> HIDE DEF new
<1>5. 1 \in 1 .. Len(Program(call.op))
  <2>1. PICK n \in 3 .. 12 : n = Len(Program(call.op))
    BY CallArgs, LengthsBounded
  <2>2. 1 \in 1 .. n
    OBVIOUS
  <2> QED BY <2>1, <2>2, Zenon
<1>6. Findings(new, kernel, before)
  BY <1>2, <1>4, CallArgs DEF Findings, OnPaths, OnSessions
<1>7. CallOK(new, kernel, before) /\ ~Inside(new)
  BY <1>2, <1>5, <1>6 DEF CallOK, Inside
<1>8. TypeOK'
  BY <1>3, <1>4 DEF IInv, TypeOK, ThreadType
<1>9. MutexInv'
  BY <1>3, <1>4, <1>7 DEF IInv, MutexInv, Inside
<1>10. CallInv'
  BY <1>3, <1>4, <1>7 DEF IInv, CallInv
<1> QED BY <1>4, <1>8, <1>9, <1>10 DEF IInv

LEMMA LockDepth ==
  ASSUME NEW op \in Ops, NEW i \in 1 .. Len(Program(op)), Places("lock", op, i)
  PROVE  /\ i + 1 \in 1 .. Len(Program(op)) /\ i # Len(Program(op))
         /\ Depth(op, i + 1) \in 1 .. 3
         /\ i = 1 => Depth(op, i + 1) = 1
         /\ i # 1 => Depth(op, i + 1) = Depth(op, i) + 1
PROOF
<1>1. PICK n : n = Len(Program(op))
  OBVIOUS
<1>2. /\ op = "enumerate" => n = 4
      /\ op \in {"get", "acquire", "release"} => n = 3
      /\ op = "get_by_session" => n = 6
      /\ op = "open_and_acquire" => n = 9
      /\ op = "close_and_release" => n = 12
  BY <1>1, LengthOf
<1>3. \/ op \in {"enumerate", "get", "acquire", "release"} /\ i = 1
      \/ op = "get_by_session" /\ i \in {1, 3}
      \/ op = "open_and_acquire" /\ i \in {1, 2, 6}
      \/ op = "close_and_release" /\ i \in {1, 2, 4, 9}
  BY DEF Places, Ops, OnPaths, OnSessions
<1>4. n \in Nat /\ i >= 1 /\ i < n
  BY <1>2, <1>3
<1>5. /\ Depth(op, i + 1) \in 1 .. 3
      /\ i = 1 => Depth(op, i + 1) = 1
      /\ i # 1 => Depth(op, i + 1) = Depth(op, i) + 1
  BY <1>3 DEF Depth
<1> QED BY <1>1, <1>4, <1>5

LEMMA UnlockDepth ==
  ASSUME NEW op \in Ops, NEW i \in 1 .. Len(Program(op)), Places("unlock", op, i)
  PROVE  /\ i > 1
         /\ Depth(op, i) \in 1 .. 3
         /\ i = Len(Program(op)) => Depth(op, i) = 1
         /\ i # Len(Program(op)) => /\ i + 1 \in 1 .. Len(Program(op))
                                    /\ Depth(op, i) > 1
                                    /\ Depth(op, i + 1) = Depth(op, i) - 1
PROOF
<1>1. PICK n : n = Len(Program(op))
  OBVIOUS
<1>2. /\ op = "enumerate" => n = 4
      /\ op \in {"get", "acquire", "release"} => n = 3
      /\ op = "get_by_session" => n = 6
      /\ op = "open_and_acquire" => n = 9
      /\ op = "close_and_release" => n = 12
  BY <1>1, LengthOf
<1>3. \/ op = "enumerate" /\ i = 4
      \/ op \in {"get", "acquire", "release"} /\ i = 3
      \/ op = "get_by_session" /\ i \in {5, 6}
      \/ op = "open_and_acquire" /\ i \in {4, 8, 9}
      \/ op = "close_and_release" /\ i \in {6, 7, 11, 12}
  BY DEF Places
<1>4. n \in Nat /\ i > 1 /\ i <= n
  BY <1>2, <1>3
<1>5. /\ Depth(op, i) \in 1 .. 3
      /\ i = n => Depth(op, i) = 1
      /\ i # n => Depth(op, i) > 1 /\ Depth(op, i + 1) = Depth(op, i) - 1
  BY <1>2, <1>3 DEF Depth
<1> QED BY <1>1, <1>4, <1>5

LEMMA LockStep ==
  ASSUME IInv, NEW t \in Threads, Lock(t)
  PROVE  IInv'
PROOF
<1> DEFINE op  == thread[t].call.op
           i   == thread[t].step
           new == [thread[t] EXCEPT !.step = i + 1]
<1>1. At(t, "lock")
  BY DEF Lock
<1>2. /\ thread[t] \in ThreadType
      /\ thread[t].call \in Calls /\ thread[t].call # Idle
      /\ op \in Ops /\ i \in 1 .. Len(Program(op))
      /\ Places("lock", op, i)
      /\ CallOK(thread[t], kernel, before)
  BY <1>1, Located
<1>3. /\ i + 1 \in 1 .. Len(Program(op)) /\ i # Len(Program(op))
      /\ i + 1 \in 1 .. Len(CloseAndRelease)
      /\ Depth(op, i + 1) \in 1 .. 3
      /\ i = 1 => Depth(op, i + 1) = 1
      /\ i # 1 => Depth(op, i + 1) = Depth(op, i) + 1
  BY <1>2, LockDepth, LengthsBounded
<1>4. /\ new \in ThreadType
      /\ new.call = thread[t].call /\ new.step = i + 1 /\ new.path = thread[t].path
      /\ new.list = thread[t].list /\ new.result = thread[t].result
  BY <1>2, <1>3 DEF ThreadType
<1>5. thread \in [Threads -> ThreadType] /\ kernel \in KernelType /\ before \in KernelType
  BY DEF IInv, TypeOK, ThreadType, KernelType
<1>6. thread' = [thread EXCEPT ![t] = new]
  BY <1>3 DEF Lock, GoOn
<1>7. /\ thread' \in [Threads -> ThreadType]
      /\ thread'[t] = new
      /\ \A u \in Threads : u # t => thread'[u] = thread[u]
  BY <1>4, <1>5, <1>6
<1> HIDE DEF new
<1>8. i >= 1 /\ i \in Nat
  <2>1. Len(Program(op)) \in Nat
    BY <1>2, LengthsBounded
  <2> QED BY <1>2, <2>1
<1>9. kernel' = kernel /\ calls' = calls
      /\ mutex' = [holder |-> t, depth |-> mutex.depth + 1]
      /\ before' = IF mutex.depth = 0 THEN kernel ELSE before
  BY DEF Lock
<1>10. /\ mutex.holder \in {NoThread, t}
       /\ i = 1 => mutex.depth = 0
       /\ i # 1 => mutex.holder = t /\ mutex.depth = Depth(op, i)
  BY <1>2, <1>8 DEF Lock, IInv, MutexInv, Inside
<1>11. mutex'.holder = t /\ mutex'.depth = Depth(op, i + 1)
  BY <1>3, <1>9, <1>10
<1>12. i # 1 => mutex.depth # 0
  BY <1>10, KernelAssumption DEF IInv, MutexInv
<1>13. \A u \in Threads : u # t => ~Inside(thread[u]) /\ CallOK(thread[u], kernel', before')
  <2>1. \A u \in Threads : u # t => ~Inside(thread[u])
    BY <1>10, KernelAssumption DEF IInv, MutexInv
  <2> QED BY <2>1, <1>9, NotBegun
<1>14. Findings(thread[t], kernel, before) /\ (i # 1 => Progress(thread[t], kernel, before))
  BY <1>2, <1>8 DEF CallOK, Inside
<1>15. Findings(new, kernel', before')
  <2>1. CASE i = 1
    BY <2>1, <1>2, <1>4, <1>9, <1>14 DEF Findings, Ops, OnPaths, OnSessions
  <2>2. CASE i # 1
    BY <2>2, <1>2, <1>4, <1>9, <1>12, <1>14 DEF Findings, Places, OnPaths, OnSessions
  <2> QED BY <2>1, <2>2
<1>16. Progress(new, kernel', before')
  <2>1. CASE i = 1
    BY <2>1, <1>2, <1>4, <1>9, <1>10 DEF Progress, Same
  <2>2. CASE i # 1
    BY <2>2, <1>2, <1>4, <1>9, <1>12, <1>14 DEF Progress, Places, Same, Assigned, Erased
  <2> QED BY <2>1, <2>2
<1>17. TypeOK'
  BY <1>3, <1>5, <1>7, <1>9, <1>11 DEF IInv, TypeOK, ThreadType, KernelType
<1>18. MutexInv'
  <2>1. Inside(new) /\ mutex'.depth # 0 /\ t # NoThread
    BY <1>2, <1>3, <1>4, <1>8, <1>11, KernelAssumption DEF Inside
  <2> QED BY <2>1, <1>4, <1>7, <1>11, <1>13 DEF MutexInv
<1>19. CallInv'
  <2>1. CallOK(new, kernel', before')
    BY <1>2, <1>3, <1>4, <1>15, <1>16 DEF CallOK
  <2> QED BY <2>1, <1>7, <1>13 DEF CallInv
<1> QED BY <1>9, <1>17, <1>18, <1>19 DEF IInv

LEMMA UnlockStep ==
  ASSUME IInv, NEW t \in Threads, Unlock(t)
  PROVE  IInv'
PROOF
<1> DEFINE op == thread[t].call.op
           i  == thread[t].step
<1>1. At(t, "unlock")
  BY DEF Unlock
<1>2. /\ thread[t] \in ThreadType
      /\ thread[t].call \in Calls /\ thread[t].call # Idle
      /\ op \in Ops /\ i \in 1 .. Len(Program(op))
      /\ Places("unlock", op, i)
      /\ CallOK(thread[t], kernel, before)
  BY <1>1, Located
<1>3. /\ i > 1
      /\ Depth(op, i) \in 1 .. 3
      /\ i = Len(Program(op)) => Depth(op, i) = 1
      /\ i # Len(Program(op)) => /\ i + 1 \in 1 .. Len(Program(op))
                                 /\ i + 1 \in 1 .. Len(CloseAndRelease)
                                 /\ Depth(op, i) > 1
                                 /\ Depth(op, i + 1) = Depth(op, i) - 1
  BY <1>2, UnlockDepth, LengthsBounded
<1>4. thread \in [Threads -> ThreadType] /\ kernel \in KernelType /\ before \in KernelType
  BY DEF IInv, TypeOK, ThreadType, KernelType
<1>5. mutex.holder = t /\ mutex.depth = Depth(op, i)
  BY <1>2, <1>3 DEF IInv, MutexInv, Inside
<1>6. /\ kernel' = kernel /\ calls' = calls /\ before' = before
      /\ mutex' = [holder |-> IF mutex.depth = 1 THEN NoThread ELSE t,
                   depth  |-> mutex.depth - 1]
  BY DEF Unlock
<1>7. \A u \in Threads : u # t => ~Inside(thread[u]) /\ CallOK(thread[u], kernel', before')
  BY <1>5, <1>6, OthersKept
<1>8. CASE i = Len(Program(op))
  <2> DEFINE new == [thread[t] EXCEPT !.call = Idle, !.step = 1]
  <2>1. new \in ThreadType /\ new.call = Idle /\ new.step = 1
    <3>1. 1 \in 1 .. Len(CloseAndRelease)
      BY ProgramLengths
    <3> QED BY <1>2, <3>1 DEF ThreadType
  <2>2. thread' = [thread EXCEPT ![t] = new]
    BY <1>8 DEF Unlock, GoOn
  <2>3. /\ thread' \in [Threads -> ThreadType]
        /\ thread'[t] = new
        /\ \A u \in Threads : u # t => thread'[u] = thread[u]
    BY <1>4, <2>1, <2>2
  <2> HIDE DEF new
  <2>4. mutex' = [holder |-> NoThread, depth |-> 0]
    BY <1>3, <1>5, <1>6, <1>8
  <2>5. CallOK(new, kernel', before') /\ ~Inside(new)
    BY <2>1 DEF CallOK, Inside
  <2>6. TypeOK'
    BY <1>4, <1>6, <2>3, <2>4 DEF IInv, TypeOK, ThreadType, KernelType
  <2>7. MutexInv'
    BY <1>7, <2>3, <2>4, <2>5, KernelAssumption DEF MutexInv
  <2>8. CallInv'
    BY <1>7, <2>3, <2>5 DEF CallInv
  <2> QED BY <1>6, <2>6, <2>7, <2>8 DEF IInv
<1>9. CASE i # Len(Program(op))
  <2> DEFINE new == [thread[t] EXCEPT !.step = i + 1]
  <2>1. /\ new \in ThreadType
        /\ new.call = thread[t].call /\ new.step = i + 1 /\ new.path = thread[t].path
        /\ new.list = thread[t].list /\ new.result = thread[t].result
    BY <1>2, <1>3, <1>9 DEF ThreadType
  <2>2. thread' = [thread EXCEPT ![t] = new]
    BY <1>9 DEF Unlock, GoOn
  <2>3. /\ thread' \in [Threads -> ThreadType]
        /\ thread'[t] = new
        /\ \A u \in Threads : u # t => thread'[u] = thread[u]
    BY <1>4, <2>1, <2>2
  <2> HIDE DEF new
  <2>4. mutex' = [holder |-> t, depth |-> Depth(op, i + 1)] /\ Depth(op, i + 1) \in 1 .. 3
    BY <1>3, <1>5, <1>6, <1>9
  <2>5. \/ op = "get_by_session" /\ i \in {5, 6}
        \/ op = "open_and_acquire" /\ i \in {4, 8, 9}
        \/ op = "close_and_release" /\ i \in {6, 7, 11, 12}
    <3>1. /\ op = "enumerate" => Len(Program(op)) = 4
          /\ op \in {"get", "acquire", "release"} => Len(Program(op)) = 3
      BY <1>2, LengthOf
    <3> QED BY <1>2, <1>9, <3>1 DEF Places
  <2>6. Findings(thread[t], kernel, before) /\ Progress(thread[t], kernel, before)
    BY <1>2, <1>3 DEF CallOK, Inside
  <2>7. Findings(new, kernel', before')
    BY <1>6, <2>1, <2>5, <2>6 DEF Findings, OnPaths, OnSessions
  <2>8. Progress(new, kernel', before')
    <3>1. i # 9 /\ i # 12
      <4>1. PICK n : n = Len(Program(op))
        OBVIOUS
      <4>2. /\ op = "open_and_acquire" => n = 9
            /\ op = "close_and_release" => n = 12
        BY <1>2, <4>1, LengthOf
      <4>3. i # n
        BY <1>9, <4>1
      <4> QED BY <2>5, <4>2, <4>3
    <3> QED BY <1>6, <2>1, <2>5, <2>6, <3>1 DEF Progress, Same, Assigned, Erased
  <2>9. CallOK(new, kernel', before') /\ Inside(new)
    BY <1>2, <1>3, <1>9, <2>1, <2>7, <2>8 DEF CallOK, Inside
  <2>10. TypeOK'
    BY <1>4, <1>6, <2>3, <2>4 DEF IInv, TypeOK, ThreadType, KernelType
  <2>11. MutexInv'
    BY <1>7, <2>1, <2>3, <2>4, <2>9, KernelAssumption DEF MutexInv
  <2>12. CallInv'
    BY <1>7, <2>3, <2>9 DEF CallInv
  <2> QED BY <1>6, <2>10, <2>11, <2>12 DEF IInv
<1> QED BY <1>8, <1>9

-----------------------------------------------------------------------------
(* Safety *)

LEMMA InitInv == Init => IInv
PROOF
<1> SUFFICES ASSUME Init PROVE IInv
  OBVIOUS
<1>1. 1 \in 1 .. Len(CloseAndRelease)
  BY ProgramLengths
<1>2. /\ thread \in [Threads -> ThreadType]
      /\ \A t \in Threads : thread[t].call = Idle /\ thread[t].step = 1
  BY <1>1 DEF Init, Resting, ThreadType
<1>3. TypeOK
  BY <1>2, KernelAssumption DEF Init, TypeOK, ThreadType
<1>4. MutexInv
  BY <1>2, KernelAssumption DEF Init, MutexInv, Inside
<1>5. SessionsOK(kernel) /\ SessionsOK(before)
  BY DEF Init, SessionsOK
<1>6. CallInv
  BY <1>2 DEF CallInv, CallOK
<1> QED BY <1>3, <1>4, <1>5, <1>6 DEF IInv

LEMMA NextInv == IInv /\ [Next]_vars => IInv'
PROOF
<1> SUFFICES ASSUME IInv, [Next]_vars PROVE IInv'
  OBVIOUS
<1>1. ASSUME NEW t \in Threads, Run(t)
      PROVE  IInv'
  BY <1>1, LockStep, UnlockStep, EmplaceStep, OpenStep, OpenThrowsStep, CloseStep, AssignStep,
     FindStep, UnknownSessionStep, EraseStep, ListStep, FindSessionsStep DEF Run
<1>2. ASSUME NEW t \in Threads, NEW call \in Calls, Invoke(t, call)
      PROVE  IInv'
  BY <1>2, InvokeStep
<1>3. ASSUME UNCHANGED vars
      PROVE  IInv'
  BY <1>3 DEF vars, IInv, TypeOK, MutexInv, SessionsOK, CallInv
<1> QED BY <1>1, <1>2, <1>3 DEF Next, Finished

THEOREM Invariance == Spec => []IInv
PROOF
<1> QED BY InitInv, NextInv, PTL DEF Spec

\* The type invariant, with a bound on how often the mutex is locked.
THEOREM TypeCorrect == Spec => []TypeOK
PROOF
<1>1. IInv => TypeOK
  BY DEF IInv
<1> QED BY <1>1, Invariance, PTL

\* Between two calls a thread does not hold the mutex, however deep it had
\* locked it and however its call ended (lock_type in every method).
THEOREM MutexGivenBack == Spec => []NoLockLeaked
PROOF
<1>1. IInv => NoLockLeaked
  BY DEF IInv, TypeOK, MutexInv, Inside, NoLockLeaked
<1> QED BY <1>1, Invariance, PTL

\* A handle is only ever closed for the session its path has at that moment
\* (close_and_release_session).
THEOREM OnlyTheOwnerCloses == Spec => ClosedByItsOwner
PROOF
<1> DEFINE Closed == \A p \in kernel.handles \ kernel'.handles :
                       \E t \in Threads : /\ thread[t].call # Idle
                                          /\ thread[t].call.arg = kernel.sessions[p]
<1>1. IInv /\ [Next]_vars => [Closed]_vars
  <2> SUFFICES ASSUME IInv, [Next]_vars PROVE Closed
    OBVIOUS
  <2>1. ASSUME NEW t \in Threads, Close(t)
        PROVE  Closed
    <3>1. At(t, "close")
      BY <2>1 DEF Close
    <3>2. /\ thread[t].call.op = "close_and_release" /\ thread[t].step = 8
          /\ thread[t].call # Idle /\ CallOK(thread[t], kernel, before)
      BY <3>1, Located DEF Places
    <3>3. /\ kernel.sessions = before.sessions
          /\ before.sessions[thread[t].path] = thread[t].call.arg
      BY <3>2 DEF CallOK, Inside, Progress, Findings
    <3>4. kernel.handles \ kernel'.handles \subseteq {thread[t].path}
      BY <2>1 DEF Close, IInv, TypeOK
    <3> QED BY <3>2, <3>3, <3>4
  <2>2. ASSUME NEW t \in Threads, Run(t), ~Close(t)
        PROVE  kernel.handles \subseteq kernel'.handles
    BY <2>2 DEF Run, Lock, Unlock, Emplace, Open, OpenThrows, Assign, Find, UnknownSession,
                Erase, List, FindSessions, Throw, IInv, TypeOK
  <2>3. ASSUME NEW t \in Threads, NEW call \in Calls, Invoke(t, call)
        PROVE  kernel' = kernel
    BY <2>3 DEF Invoke
  <2>4. ASSUME UNCHANGED vars
        PROVE  kernel' = kernel
    BY <2>4 DEF vars
  <2> QED BY <2>1, <2>2, <2>3, <2>4 DEF Next, Finished
<1> QED BY <1>1, Invariance, PTL DEF Spec, ClosedByItsOwner

-----------------------------------------------------------------------------
(* Every method is atomic: Kernel implements SessionTable *)

Calling  == [t \in Threads |-> thread[t].call]
Returned == [t \in Threads |-> IF thread[t].call = Idle THEN thread[t].result ELSE NoResult]
Listed   == [t \in Threads |-> IF thread[t].call = Idle THEN thread[t].list ELSE {}]

\* What others see of a step of one thread.
LEMMA Seen ==
  ASSUME IInv, NEW t \in Threads, NEW new \in ThreadType, thread' = [thread EXCEPT ![t] = new]
  PROVE  /\ Calling' = [Calling EXCEPT ![t] = new.call]
         /\ Returned' = [Returned EXCEPT ![t] = IF new.call = Idle THEN new.result
                                                                    ELSE NoResult]
         /\ Listed' = [Listed EXCEPT ![t] = IF new.call = Idle THEN new.list ELSE {}]
PROOF
<1>1. thread \in [Threads -> ThreadType]
  BY DEF IInv, TypeOK, ThreadType
<1>2. thread'[t] = new /\ \A u \in Threads : u # t => thread'[u] = thread[u]
  BY <1>1
<1>3. Calling' = [Calling EXCEPT ![t] = new.call]
  <2>1. Calling' = [u \in Threads |-> thread'[u].call]
    BY DEF Calling
  <2>2. [Calling EXCEPT ![t] = new.call]
          = [u \in Threads |-> IF u = t THEN new.call
                               ELSE thread[u].call]
    BY DEF Calling
  <2> QED BY <1>2, <2>1, <2>2
<1>4. Returned' = [Returned EXCEPT ![t] = IF new.call = Idle THEN new.result ELSE NoResult]
  <2>1. Returned' = [u \in Threads |-> IF thread'[u].call = Idle THEN thread'[u].result ELSE NoResult]
    BY DEF Returned
  <2>2. [Returned EXCEPT ![t] = IF new.call = Idle THEN new.result ELSE NoResult]
          = [u \in Threads |-> IF u = t THEN IF new.call = Idle THEN new.result ELSE NoResult
                               ELSE IF thread[u].call = Idle THEN thread[u].result ELSE NoResult]
    BY DEF Returned
  <2> QED BY <1>2, <2>1, <2>2
<1>5. Listed' = [Listed EXCEPT ![t] = IF new.call = Idle THEN new.list ELSE {}]
  <2>1. Listed' = [u \in Threads |-> IF thread'[u].call = Idle THEN thread'[u].list ELSE {}]
    BY DEF Listed
  <2>2. [Listed EXCEPT ![t] = IF new.call = Idle THEN new.list ELSE {}]
          = [u \in Threads |-> IF u = t THEN IF new.call = Idle THEN new.list ELSE {}
                               ELSE IF thread[u].call = Idle THEN thread[u].list ELSE {}]
    BY DEF Listed
  <2> QED BY <1>2, <2>1, <2>2
<1> QED BY <1>3, <1>4, <1>5

\* A step within a call, that leaves what others see of the table.
LEMMA Unseen ==
  ASSUME IInv, NEW t \in Threads, NEW new \in ThreadType, thread' = [thread EXCEPT ![t] = new],
         thread[t].call # Idle, new.call = thread[t].call, Same(Now', Now)
  PROVE  UNCHANGED Table!vars
PROOF
<1>1. /\ Calling' = [Calling EXCEPT ![t] = new.call]
      /\ Returned' = [Returned EXCEPT ![t] = NoResult]
      /\ Listed' = [Listed EXCEPT ![t] = {}]
  BY Seen
<1>2. Calling' = Calling /\ Returned' = Returned /\ Listed' = Listed
  BY <1>1 DEF Calling, Returned, Listed
<1> QED BY <1>2 DEF Table!vars, Calling, Returned, Listed, Same

\* The steps between two locks or unlocks are not seen, whatever they do to
\* the kernel.
LEMMA WorkUnseen ==
  ASSUME IInv, NEW t \in Threads,
         \/ Emplace(t) \/ Open(t) \/ Close(t) \/ Assign(t) \/ Find(t) \/ Erase(t)
         \/ List(t) \/ FindSessions(t)
  PROVE  UNCHANGED Table!vars
PROOF
<1>1. PICK s \in {"emplace", "open", "close", "assign", "find", "erase", "list",
                  "find_sessions"} : At(t, s)
  BY DEF Emplace, Open, Close, Assign, Find, Erase, List, FindSessions
<1>2. /\ thread[t].call.op \in Ops /\ thread[t].call # Idle
      /\ thread[t].step \in 1 .. Len(Program(thread[t].call.op))
      /\ Places(s, thread[t].call.op, thread[t].step)
  BY <1>1, Located
<1>3. mutex.holder = t /\ thread[t].step # Len(Program(thread[t].call.op))
  BY <1>2, BetweenLocks DEF IInv, MutexInv, Inside
<1>4. mutex' = mutex /\ before' = before
  BY DEF Emplace, Open, Close, Assign, Find, Erase, List, FindSessions
<1>5. Now' = before /\ Now = before
  BY <1>3, <1>4, KernelAssumption DEF Now
<1>6. thread \in [Threads -> ThreadType] /\ thread' \in [Threads -> ThreadType]
  <2>1. IInv'
    BY EmplaceStep, OpenStep, CloseStep, AssignStep, FindStep, EraseStep, ListStep, FindSessionsStep
  <2> QED BY <2>1 DEF IInv, TypeOK, ThreadType
<1>7. thread'[t].call = thread[t].call /\ thread' = [thread EXCEPT ![t] = thread'[t]]
  <2>1. CASE Emplace(t)
    BY <2>1, <1>3, <1>6 DEF GoOn, ThreadType, Emplace
  <2>2. CASE Open(t) \/ Close(t) \/ Erase(t)
    BY <2>2, <1>3, <1>6 DEF GoOn, ThreadType, Open, Close, Erase
  <2>3. ASSUME NEW id \in Ids, GoOn(t, [thread[t] EXCEPT !.result = id])
        PROVE  thread'[t].call = thread[t].call /\ thread' = [thread EXCEPT ![t] = thread'[t]]
    BY <2>3, <1>3, <1>6 DEF GoOn, ThreadType
  <2>4. ASSUME NEW p \in Paths, GoOn(t, [thread[t] EXCEPT !.path = p])
        PROVE  thread'[t].call = thread[t].call /\ thread' = [thread EXCEPT ![t] = thread'[t]]
    BY <2>4, <1>3, <1>6 DEF GoOn, ThreadType
  <2>5. ASSUME NEW found, GoOn(t, [thread[t] EXCEPT !.todo = found])
        PROVE  thread'[t].call = thread[t].call /\ thread' = [thread EXCEPT ![t] = thread'[t]]
    BY <2>5, <1>3, <1>6 DEF GoOn, ThreadType
  <2>6. ASSUME NEW p \in thread[t].todo,
               thread' = [thread EXCEPT ![t].todo = @ \ {p},
                                        ![t].list = @ \union {<<p, kernel.sessions[p]>>}]
        PROVE  thread'[t].call = thread[t].call /\ thread' = [thread EXCEPT ![t] = thread'[t]]
    BY <2>6, <1>6 DEF ThreadType
  <2>7. CASE Assign(t)
    BY <2>3, <2>7 DEF Assign
  <2>8. CASE Find(t)
    BY <2>4, <2>8 DEF Find
  <2>9. CASE List(t)
    BY <2>5, <2>9 DEF List
  <2>10. CASE FindSessions(t) /\ GoOn(t, thread[t])
    BY <2>10, <1>3, <1>6 DEF GoOn, ThreadType
  <2>11. CASE FindSessions(t) /\ ~GoOn(t, thread[t])
    BY <2>6, <2>11 DEF FindSessions
  <2> QED BY <2>1, <2>2, <2>7, <2>8, <2>9, <2>10, <2>11
<1>8. thread'[t] \in ThreadType /\ Same(Now', Now)
  BY <1>5, <1>6 DEF Same
<1> QED BY <1>2, <1>7, <1>8, Unseen

LEMMA LockUnseen ==
  ASSUME IInv, NEW t \in Threads, Lock(t)
  PROVE  UNCHANGED Table!vars
PROOF
<1>1. At(t, "lock")
  BY DEF Lock
<1>2. /\ thread[t].call.op \in Ops /\ thread[t].call # Idle
      /\ thread[t].step \in 1 .. Len(Program(thread[t].call.op))
      /\ Places("lock", thread[t].call.op, thread[t].step)
  BY <1>1, Located
<1>3. thread[t].step # Len(Program(thread[t].call.op))
  BY <1>2, LockDepth
<1>4. thread \in [Threads -> ThreadType] /\ thread' \in [Threads -> ThreadType]
  <2>1. IInv'
    BY LockStep
  <2> QED BY <2>1 DEF IInv, TypeOK, ThreadType
<1>5. thread'[t].call = thread[t].call /\ thread' = [thread EXCEPT ![t] = thread'[t]]
  BY <1>3, <1>4 DEF GoOn, ThreadType, Lock
<1>6. Now' = before'
  BY KernelAssumption DEF Now, Lock
<1>7. Now = before'
  BY KernelAssumption DEF Now, Lock, IInv, MutexInv
<1>8. thread'[t] \in ThreadType /\ Same(Now', Now)
  BY <1>4, <1>6, <1>7 DEF Same
<1> QED BY <1>2, <1>5, <1>8, Unseen

\* A call begins.
LEMMA InvokeSeen ==
  ASSUME IInv, NEW t \in Threads, NEW call \in Calls, Invoke(t, call)
  PROVE  Table!Next
PROOF
<1> DEFINE new == [Resting EXCEPT !.call = call,
                                  !.path = IF call.op \in OnPaths THEN call.arg ELSE Idle]
<1>1. 1 \in 1 .. Len(CloseAndRelease)
  BY ProgramLengths
<1>2. new.call = call /\ new \in ThreadType
  BY <1>1, CallArgs DEF Resting, ThreadType
<1>3. thread' = [thread EXCEPT ![t] = new]
  BY DEF Invoke
<1> HIDE DEF new
<1>4. /\ Calling' = [Calling EXCEPT ![t] = call]
      /\ Returned' = [Returned EXCEPT ![t] = NoResult]
      /\ Listed' = [Listed EXCEPT ![t] = {}]
  BY <1>2, <1>3, CallArgs, Seen
<1>5. Calling[t] = Idle
  BY DEF Invoke, Calling
<1>6. PICK op \in {"enumerate", "get", "get_by_session", "acquire", "release",
                   "open_and_acquire", "close_and_release"},
           arg \in Paths \union Ids \union {Idle} : call = [op |-> op, arg |-> arg]
  BY DEF Calls, OnPaths, OnSessions
<1>7. Now' = Now
  BY DEF Now, Invoke
<1>8. Calling' = [Calling EXCEPT ![t] = [op |-> op, arg |-> arg]]
  BY <1>4, <1>6
<1>9. Table!Invoke(t)
  BY <1>4, <1>5, <1>7, <1>8, Zenon DEF Table!Invoke, Calling, Returned, Listed
<1> QED BY <1>9 DEF Table!Next

\* What others see of a step that throws: the call has ended, with no effect.
LEMMA ThrowSeen ==
  ASSUME IInv, NEW t \in Threads, mutex.holder = t, Throw(t), Same(kernel, before)
  PROVE  /\ Calling' = [Calling EXCEPT ![t] = Idle]
         /\ Returned' = [Returned EXCEPT ![t] = Thrown]
         /\ Calling[t] = thread[t].call
         /\ thread[t].list = {} => Listed' = Listed
         /\ Same(Now', Now)
         /\ Now = before
PROOF
<1> DEFINE new == [thread[t] EXCEPT !.call = Idle, !.step = 1, !.result = Thrown]
<1>1. thread[t] \in ThreadType /\ 1 \in 1 .. Len(CloseAndRelease)
  BY ProgramLengths DEF IInv, TypeOK, ThreadType
<1>2. new \in ThreadType /\ new.call = Idle /\ new.result = Thrown /\ new.list = thread[t].list
  BY <1>1 DEF ThreadType
<1>3. thread' = [thread EXCEPT ![t] = new]
  BY DEF Throw
<1> HIDE DEF new
<1>4. /\ Calling' = [Calling EXCEPT ![t] = Idle]
      /\ Returned' = [Returned EXCEPT ![t] = Thrown]
      /\ Listed' = [Listed EXCEPT ![t] = thread[t].list]
  BY <1>2, <1>3, Seen
<1>5. thread[t].call # Idle
  BY DEF IInv, MutexInv, Inside
<1>6. Calling[t] = thread[t].call /\ (thread[t].list = {} => Listed' = Listed)
  BY <1>4, <1>5 DEF Calling, Listed
<1>7. Now' = kernel /\ Now = before
  BY KernelAssumption DEF Now, Throw
<1> QED BY <1>4, <1>6, <1>7 DEF Same

LEMMA OpenThrowsSeen ==
  ASSUME IInv, NEW t \in Threads, OpenThrows(t)
  PROVE  Table!Next
PROOF
<1>1. At(t, "open") /\ Throw(t)
  BY DEF OpenThrows
<1>2. /\ thread[t].call.op = "open_and_acquire" /\ thread[t].step = 5 /\ thread[t].call # Idle
      /\ CallOK(thread[t], kernel, before)
  BY <1>1, Located DEF Places
<1>3. mutex.holder = t
  BY <1>2 DEF IInv, MutexInv, Inside
<1>4. Same(kernel, before) /\ thread[t].list = {}
  BY <1>2 DEF CallOK, Inside, Progress, Findings, Same
<1>5. /\ Calling' = [Calling EXCEPT ![t] = Idle]
      /\ Returned' = [Returned EXCEPT ![t] = Thrown]
      /\ Calling[t] = thread[t].call
      /\ Listed' = Listed
      /\ Same(Now', Now)
  BY <1>1, <1>3, <1>4, ThrowSeen
<1>6. Table!Ends(t, "open_and_acquire", Thrown)
  BY <1>2, <1>5, Zenon DEF Table!Ends, Calling, Returned
<1>7. Table!OpenAndAcquire(t)
  BY <1>5, <1>6 DEF Table!OpenAndAcquire, Same
<1> QED BY <1>2, <1>5, <1>7 DEF Table!Next, Calling, Listed

LEMMA UnknownSessionSeen ==
  ASSUME IInv, NEW t \in Threads, UnknownSession(t)
  PROVE  Table!Next
PROOF
<1>1. /\ At(t, "find") /\ Throw(t)
      /\ \A p \in Paths : kernel.sessions[p] # thread[t].call.arg
  BY DEF UnknownSession
<1>2. /\ \/ thread[t].call.op = "get_by_session" /\ thread[t].step = 2
         \/ thread[t].call.op = "close_and_release" /\ thread[t].step = 3
      /\ thread[t].call # Idle
      /\ CallOK(thread[t], kernel, before)
  BY <1>1, Located DEF Places
<1>3. mutex.holder = t
  BY <1>2 DEF IInv, MutexInv, Inside
<1>4. Same(kernel, before) /\ thread[t].list = {}
  BY <1>2 DEF CallOK, Inside, Progress, Findings, Same
<1>5. /\ Calling' = [Calling EXCEPT ![t] = Idle]
      /\ Returned' = [Returned EXCEPT ![t] = Thrown]
      /\ Calling[t] = thread[t].call
      /\ Listed' = Listed
      /\ Same(Now', Now)
      /\ Now.sessions = kernel.sessions
  BY <1>1, <1>3, <1>4, ThrowSeen DEF Same
<1>6. ~Table!Owned(t)
  BY <1>1, <1>5 DEF Table!Owned, Table!Owns, Calling
<1>7. CASE thread[t].call.op = "get_by_session"
  <2>1. Table!Ends(t, "get_by_session", Thrown)
    BY <1>2, <1>5, <1>7, Zenon DEF Table!Ends, Calling, Returned
  <2>2. Table!GetBySession(t)
    BY <1>5, <1>6, <2>1 DEF Table!GetBySession, Same
  <2> QED BY <1>2, <1>5, <2>2 DEF Table!Next, Calling, Listed
<1>8. CASE thread[t].call.op = "close_and_release"
  <2>1. Table!Ends(t, "close_and_release", Thrown)
    BY <1>2, <1>5, <1>8, Zenon DEF Table!Ends, Calling, Returned
  <2>2. Table!CloseAndRelease(t)
    BY <1>5, <1>6, <2>1 DEF Table!CloseAndRelease, Same
  <2> QED BY <1>2, <1>5, <2>2 DEF Table!Next, Calling, Listed
<1> QED BY <1>2, <1>7, <1>8

\* What others see of the unlock a call ends with: its result, and the kernel
\* as the call leaves it.
LEMMA ReturnSeen ==
  ASSUME IInv, NEW t \in Threads, Unlock(t),
         thread[t].step = Len(Program(thread[t].call.op))
  PROVE  /\ Calling' = [Calling EXCEPT ![t] = Idle]
         /\ Returned' = [Returned EXCEPT ![t] = thread[t].result]
         /\ Listed' = [Listed EXCEPT ![t] = thread[t].list]
         /\ Calling[t] = thread[t].call
         /\ thread[t].list = {} => Listed' = Listed
         /\ Now' = kernel /\ Now = before
         /\ thread[t].call # Idle
         /\ Findings(thread[t], kernel, before)
         /\ Progress(thread[t], kernel, before)
PROOF
<1> DEFINE new == [thread[t] EXCEPT !.call = Idle, !.step = 1]
<1>1. At(t, "unlock")
  BY DEF Unlock
<1>2. /\ thread[t] \in ThreadType /\ thread[t].call # Idle
      /\ thread[t].call.op \in Ops
      /\ thread[t].step \in 1 .. Len(Program(thread[t].call.op))
      /\ Places("unlock", thread[t].call.op, thread[t].step)
      /\ CallOK(thread[t], kernel, before)
  BY <1>1, Located
<1>3. thread[t].step > 1 /\ Depth(thread[t].call.op, thread[t].step) = 1
  BY <1>2, UnlockDepth
<1>4. mutex.holder = t /\ mutex.depth = 1
  BY <1>2, <1>3 DEF IInv, MutexInv, Inside
<1>5. 1 \in 1 .. Len(CloseAndRelease)
  BY ProgramLengths
<1>6. new \in ThreadType /\ new.call = Idle /\ new.result = thread[t].result
      /\ new.list = thread[t].list
  BY <1>2, <1>5 DEF ThreadType
<1>7. thread' = [thread EXCEPT ![t] = new]
  BY DEF Unlock, GoOn
<1> HIDE DEF new
<1>8. /\ Calling' = [Calling EXCEPT ![t] = Idle]
      /\ Returned' = [Returned EXCEPT ![t] = thread[t].result]
      /\ Listed' = [Listed EXCEPT ![t] = thread[t].list]
  BY <1>6, <1>7, Seen
<1>9. Calling[t] = thread[t].call /\ (thread[t].list = {} => Listed' = Listed)
  BY <1>2, <1>8 DEF Calling, Listed
<1>10. Now' = kernel /\ Now = before
  BY <1>4, KernelAssumption DEF Now, Unlock
<1> QED BY <1>2, <1>3, <1>8, <1>9, <1>10 DEF CallOK, Inside

LEMMA UnlockSeen ==
  ASSUME IInv, NEW t \in Threads, Unlock(t)
  PROVE  [Table!Next]_Table!vars
PROOF
<1> DEFINE self == thread[t]
           op   == thread[t].call.op
<1>1. At(t, "unlock")
  BY DEF Unlock
<1>2. /\ self \in ThreadType /\ self.call \in Calls /\ self.call # Idle
      /\ op \in Ops
      /\ self.step \in 1 .. Len(Program(op))
      /\ Places("unlock", op, self.step)
  BY <1>1, Located
<1>3. CASE self.step # Len(Program(op))
  <2>1. thread \in [Threads -> ThreadType] /\ thread' \in [Threads -> ThreadType]
    <3>1. IInv'
      BY UnlockStep
    <3> QED BY <3>1 DEF IInv, TypeOK, ThreadType
  <2>2. thread'[t].call = self.call /\ thread' = [thread EXCEPT ![t] = thread'[t]]
    BY <1>3, <2>1 DEF GoOn, ThreadType, Unlock
  <2>3. self.step > 1 /\ Depth(op, self.step) > 1
    BY <1>2, <1>3, UnlockDepth
  <2>4. mutex.holder = t /\ mutex.depth # 1
    BY <1>2, <2>3 DEF IInv, MutexInv, Inside
  <2>5. Now' = before /\ Now = before
    BY <2>4, KernelAssumption DEF Now, Unlock
  <2>6. thread'[t] \in ThreadType /\ Same(Now', Now)
    BY <2>1, <2>5 DEF Same
  <2> QED BY <1>2, <2>2, <2>6, Unseen
<1>4. CASE self.step = Len(Program(op))
  <2>1. /\ Calling' = [Calling EXCEPT ![t] = Idle]
        /\ Returned' = [Returned EXCEPT ![t] = self.result]
        /\ Listed' = [Listed EXCEPT ![t] = self.list]
        /\ Calling[t] = self.call
        /\ self.list = {} => Listed' = Listed
        /\ Now' = kernel /\ Now = before
        /\ Findings(self, kernel, before)
        /\ Progress(self, kernel, before)
    BY <1>4, ReturnSeen
  <2>2. Table!Ends(t, op, self.result)
    BY <1>2, <2>1, Zenon DEF Table!Ends, Calling, Returned
  <2>3. /\ kernel \in KernelType /\ before \in KernelType
        /\ SessionsOK(before)
    BY DEF IInv, TypeOK, KernelType
  <2>4. op = "enumerate" => self.step = 4
    BY <1>2, <1>4, LengthOf
  <2>5. op \in {"get", "acquire", "release"} => self.step = 3
    BY <1>2, <1>4, LengthOf
  <2>6. op = "get_by_session" => self.step = 6
    BY <1>2, <1>4, LengthOf
  <2>7. op = "open_and_acquire" => self.step = 9
    BY <1>2, <1>4, LengthOf
  <2>8. op = "close_and_release" => self.step = 12
    BY <1>2, <1>4, LengthOf
  <2>9. CASE op = "enumerate"
    <3>1. /\ Same(kernel, before) /\ self.result = NoResult
          /\ \A x \in self.list : \E p \in Paths : x = <<p, before.sessions[p]>>
      BY <2>1, <2>4, <2>9 DEF Findings, Progress
    <3> DEFINE found == {p \in Paths : <<p, before.sessions[p]>> \in self.list}
    <3>2. self.list = {<<p, before.sessions[p]>> : p \in found} /\ found \in SUBSET Paths
      BY <3>1
    <3>3. \E f \in SUBSET Paths :
            Listed' = [Listed EXCEPT ![t] = {<<p, before.sessions[p]>> : p \in f}]
      BY <2>1, <3>2, Zenon
    <3>4. Table!Ends(t, "enumerate", NoResult)
      BY <1>2, <2>1, <2>9, <3>1, Zenon DEF Table!Ends, Calling, Returned
    <3>5. Table!Enumerate(t)
      <4>1. Now'.sessions = Now.sessions /\ Now'.handles = Now.handles /\ Now'.issued = Now.issued
        BY <2>1, <3>1 DEF Same
      <4>2. PICK f \in SUBSET Paths :
              Listed' = [Listed EXCEPT ![t] = {<<p, before.sessions[p]>> : p \in f}]
        BY <3>3
      <4>3. {<<p, before.sessions[p]>> : p \in f} = {<<p, Now.sessions[p]>> : p \in f}
        BY <2>1
      <4>4. Listed' = [Listed EXCEPT ![t] = {<<p, Now.sessions[p]>> : p \in f}]
        BY <4>2, <4>3, Zenon
      <4> QED BY <3>4, <4>1, <4>2, <4>4, Zenon DEF Table!Enumerate, Listed
    <3> QED BY <1>2, <2>1, <3>5 DEF Table!Next, Calling
  <2>10. CASE op \in {"get", "get_by_session"}
    <3>1. /\ Same(kernel, before) /\ self.result = self.path /\ self.list = {}
          /\ self.path \in Paths
          /\ op = "get" => self.path = self.call.arg
          /\ op = "get_by_session" => before.sessions[self.path] = self.call.arg
      BY <2>1, <2>5, <2>6, <2>10 DEF Findings, Progress, OnPaths
    <3>2. Now'.sessions = Now.sessions /\ Now'.handles = Now.handles /\ Now'.issued = Now.issued
      BY <2>1, <3>1 DEF Same
    <3>3. ASSUME op = "get" PROVE Table!Get(t)
      <4> PICK p \in Paths : p = self.path
        BY <3>1
      <4>1. Table!Ends(t, "get", p)
        BY <1>2, <2>1, <3>1, <3>3, Zenon DEF Table!Ends, Calling, Returned
      <4>2. p = Calling[t].arg
        BY <2>1, <3>1, <3>3, Zenon
      <4> QED BY <3>1, <3>2, <4>1, <4>2, Zenon DEF Table!Get, Calling
    <3>4. ASSUME op = "get_by_session" PROVE Table!GetBySession(t)
      <4> PICK p \in Paths : p = self.path
        BY <3>1
      <4>1. Table!Ends(t, "get_by_session", p)
        BY <1>2, <2>1, <3>1, <3>4, Zenon DEF Table!Ends, Calling, Returned
      <4>2. Now.sessions[p] = Calling[t].arg
        BY <2>1, <3>1, <3>4, Zenon
      <4>3. Table!Owns(t, p)
        BY <3>1, <4>2, Zenon DEF Table!Owns, Calling
      <4> QED BY <3>1, <3>2, <4>1, <4>3, Zenon DEF Table!GetBySession
    <3> QED BY <1>2, <2>1, <2>10, <3>1, <3>3, <3>4 DEF Table!Next, Calling, Listed
  <2>11. CASE op = "acquire"
    <3>1. /\ Assigned(self, kernel, before) /\ kernel.handles = before.handles
          /\ self.list = {} /\ self.path = self.call.arg
      BY <2>1, <2>5, <2>11 DEF Findings, Progress, OnPaths
    <3>2. Table!NewSession(t, "acquire")
      <4> PICK id \in Ids \ Now.issued : id = self.result
        BY <2>1, <3>1 DEF Assigned
      <4>1. Table!Ends(t, "acquire", id)
        BY <1>2, <2>1, <2>11, Zenon DEF Table!Ends, Calling, Returned
      <4>2. Now'.issued = Now.issued \union {id}
        BY <2>1, <3>1 DEF Assigned
      <4>3. Calling[t].arg = self.path
        BY <2>1, <3>1, Zenon
      <4>4. Now'.sessions = [Now.sessions EXCEPT ![Calling[t].arg] = id]
        BY <2>1, <3>1, <4>3, Zenon DEF Assigned
      <4> QED BY <4>1, <4>2, <4>4, Zenon DEF Table!NewSession, Calling
    <3>3. Now'.handles = Now.handles
      BY <2>1, <3>1
    <3>4. Table!Acquire(t)
      BY <3>2, <3>3, Zenon DEF Table!Acquire
    <3> QED BY <1>2, <2>1, <3>1, <3>4 DEF Table!Next, Calling, Listed
  <2>12. CASE op = "release"
    <3>1. /\ Erased(self, kernel, before) /\ kernel.handles = before.handles
          /\ self.list = {} /\ self.result = NoResult
      BY <2>1, <2>5, <2>12 DEF Findings, Progress
    <3>2. Table!Ends(t, "release", NoResult)
      BY <1>2, <2>1, <2>12, <3>1, Zenon DEF Table!Ends, Calling, Returned
    <3>3. Now'.sessions = [p \in Paths |-> IF Table!Owns(t, p) THEN NoSession ELSE Now.sessions[p]]
      <4>1. \A p \in Paths : Table!Owns(t, p) <=> before.sessions[p] = self.call.arg
        BY <2>1, Zenon DEF Table!Owns, Calling
      <4> QED BY <2>1, <3>1, <4>1 DEF Erased
    <3>4. Now'.handles = Now.handles /\ Now'.issued = Now.issued
      BY <2>1, <3>1 DEF Erased
    <3>5. Table!Release(t)
      BY <3>2, <3>3, <3>4, Zenon DEF Table!Release
    <3> QED BY <1>2, <2>1, <3>1, <3>5 DEF Table!Next, Calling, Listed
  <2>13. CASE op = "open_and_acquire"
    <3>1. /\ Assigned(self, kernel, before)
          /\ kernel.handles = before.handles \union {self.path}
          /\ self.list = {} /\ self.path = self.call.arg
      BY <2>1, <2>7, <2>13 DEF Findings, Progress, OnPaths
    <3>2. Table!NewSession(t, "open_and_acquire")
      <4> PICK id \in Ids \ Now.issued : id = self.result
        BY <2>1, <3>1 DEF Assigned
      <4>1. Table!Ends(t, "open_and_acquire", id)
        BY <1>2, <2>1, <2>13, Zenon DEF Table!Ends, Calling, Returned
      <4>2. Now'.issued = Now.issued \union {id}
        BY <2>1, <3>1 DEF Assigned
      <4>3. Calling[t].arg = self.path
        BY <2>1, <3>1, Zenon
      <4>4. Now'.sessions = [Now.sessions EXCEPT ![Calling[t].arg] = id]
        BY <2>1, <3>1, <4>3, Zenon DEF Assigned
      <4> QED BY <4>1, <4>2, <4>4, Zenon DEF Table!NewSession, Calling
    <3>3. Now'.handles = Now.handles \union {Calling[t].arg}
      BY <2>1, <3>1
    <3>4. Table!OpenAndAcquire(t)
      BY <3>2, <3>3, Zenon DEF Table!OpenAndAcquire, Calling
    <3> QED BY <1>2, <2>1, <3>1, <3>4 DEF Table!Next, Calling, Listed
  <2>14. CASE op = "close_and_release"
    <3>1. /\ Erased(self, kernel, before)
          /\ kernel.handles = before.handles \ {self.path}
          /\ self.list = {} /\ self.result = NoResult
          /\ self.path \in Paths /\ before.sessions[self.path] = self.call.arg
          /\ self.call.arg \in Ids
      BY <1>2, <2>1, <2>8, <2>14, CallArgs DEF Findings, Progress, OnSessions
    <3>2. \A q \in Paths : before.sessions[q] = self.call.arg => q = self.path
      BY <2>3, <3>1, KernelAssumption DEF SessionsOK
    <3>3. kernel.sessions = [before.sessions EXCEPT ![self.path] = NoSession]
      BY <2>3, <3>1, <3>2 DEF Erased, KernelType
    <3>4. Table!Ends(t, "close_and_release", NoResult)
      BY <1>2, <2>1, <2>14, <3>1, Zenon DEF Table!Ends, Calling, Returned
    <3>5. Now.sessions[self.path] = Calling[t].arg
      BY <2>1, <3>1, Zenon
    <3>6. Table!Owns(t, self.path)
      BY <3>1, <3>5, Zenon DEF Table!Owns, Calling
    <3>7. /\ Now'.sessions = [Now.sessions EXCEPT ![self.path] = NoSession]
          /\ Now'.handles = Now.handles \ {self.path}
          /\ Now'.issued = Now.issued
      BY <2>1, <3>1, <3>3 DEF Erased
    <3>8. Table!CloseAndRelease(t)
      BY <3>1, <3>4, <3>6, <3>7, Zenon DEF Table!CloseAndRelease
    <3> QED BY <1>2, <2>1, <3>1, <3>8 DEF Table!Next, Calling, Listed
  <2> QED BY <1>2, <2>9, <2>10, <2>11, <2>12, <2>13, <2>14 DEF Ops, OnPaths, OnSessions
<1> QED BY <1>3, <1>4

\* Every method is atomic, the compound ones included, and has no effect if it
\* throws: a step of Kernel is a step of SessionTable or is not seen
\* (lock_type in every method of core::kernel).
THEOREM MethodsAreAtomic == Spec => IsAtomic
PROOF
<1>1. Init => Table!Init
  BY KernelAssumption DEF Init, Resting, Table!Init, Now
<1>2. IInv /\ [Next]_vars => [Table!Next]_Table!vars
  <2> SUFFICES ASSUME IInv, [Next]_vars PROVE [Table!Next]_Table!vars
    OBVIOUS
  <2>1. ASSUME NEW t \in Threads, Run(t)
        PROVE  [Table!Next]_Table!vars
    BY <2>1, LockUnseen, WorkUnseen, UnlockSeen, OpenThrowsSeen, UnknownSessionSeen DEF Run
  <2>2. ASSUME NEW t \in Threads, NEW call \in Calls, Invoke(t, call)
        PROVE  [Table!Next]_Table!vars
    BY <2>2, InvokeSeen
  <2>3. ASSUME UNCHANGED vars
        PROVE  UNCHANGED Table!vars
    BY <2>3 DEF vars, Table!vars, Now
  <2> QED BY <2>1, <2>2, <2>3 DEF Next, Finished
<1> QED BY <1>1, <1>2, Invariance, PTL DEF Spec, IsAtomic, Table!Spec

=============================================================================
