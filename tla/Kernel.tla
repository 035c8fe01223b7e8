------------------------------- MODULE Kernel -------------------------------
(***************************************************************************)
(* core::kernel shared by threads (core.hpp): the maps device_kernels and  *)
(* sessions behind one recursive mutex.  A public method locks the mutex   *)
(* and may call other public methods, which lock it again; Program spells  *)
(* out each method as the steps another thread could come between.         *)
(*                                                                         *)
(* device_kernel::call is not guarded by the mutex and is not modelled     *)
(* here (see Wire).  A session id is a random UUID: a value not used       *)
(* before.                                                                 *)
(***************************************************************************)
EXTENDS Integers, Sequences, FiniteSets

CONSTANTS
  Threads,
  Devices,    (* What hid_enumerate may list.                              *)
  Vendor,     (* 0x534c                                                    *)
  Product,    (* 0x0001                                                    *)
  Ids,        (* Bound: the session ids of a run.                          *)
  MaxCalls,   (* Bound: method calls in a run.                             *)
  NoThread, NoSession, Idle, NoResult, Thrown

Paths == {d.path : d \in Devices}

ASSUME KernelAssumption ==
  /\ NoThread \notin Threads /\ NoSession \notin Ids
  /\ \A d \in Devices : d.interface_number \in Int
  /\ MaxCalls \in Nat /\ IsFiniteSet(Ids) /\ Cardinality(Ids) >= MaxCalls

VARIABLES
  thread,  (* Each thread: the call it is in (a method and its argument),  *)
           (* the next step of the method's Program, the path it is about, *)
           (* the paths still to be listed, the <<path, session>> pairs    *)
           (* listed, and what the method returns or has returned.         *)
  mutex,   (* The recursive mutex.                                         *)
  kernel,  (* device_kernels, those of them that are open (handles), the   *)
           (* session of each path, and the session ids generated so far.  *)
  before,  (* History: kernel when the mutex was last locked.              *)
  calls    (* Number of calls made.                                        *)

vars == <<thread, mutex, kernel, before, calls>>

-----------------------------------------------------------------------------
(* The methods *)

GetDeviceKernel  == <<"lock", "emplace", "unlock">>
AcquireSession   == <<"lock", "assign", "unlock">>
ReleaseSession   == <<"lock", "erase", "unlock">>
EnumerateDevices == <<"lock", "list", "find_sessions", "unlock">>
GetBySession     == <<"lock", "find">> \o GetDeviceKernel \o <<"unlock">>

\* Mutants: the compound methods rely on the locks of the methods they call.
OpenAndAcquireUnlocked  == GetDeviceKernel \o <<"open">> \o AcquireSession
CloseAndReleaseUnlocked == GetBySession \o <<"close">> \o ReleaseSession

OpenAndAcquire  == <<"lock">> \o GetDeviceKernel \o <<"open">> \o AcquireSession \o <<"unlock">>
CloseAndRelease == <<"lock">> \o GetBySession \o <<"close">> \o ReleaseSession \o <<"unlock">>

Program(op) ==
  CASE op = "enumerate"         -> EnumerateDevices
    [] op = "get"               -> GetDeviceKernel
    [] op = "get_by_session"    -> GetBySession
    [] op = "acquire"           -> AcquireSession
    [] op = "release"           -> ReleaseSession
    [] op = "open_and_acquire"  -> OpenAndAcquire
    [] op = "close_and_release" -> CloseAndRelease

OnPaths    == {"get", "acquire", "open_and_acquire"}
OnSessions == {"get_by_session", "release", "close_and_release"}
Calls == [op : {"enumerate"}, arg : {Idle}] \union [op : OnPaths, arg : Paths]
           \union [op : OnSessions, arg : Ids]

ASSUME IdleAssumption == Idle \notin Calls

Supported(d) ==
  d.vendor_id = Vendor /\ d.product_id = Product /\ d.interface_number <= 0

-----------------------------------------------------------------------------
Resting == [call |-> Idle, step |-> 1, path |-> Idle, todo |-> {}, list |-> {},
            result |-> NoResult]

Init ==
  /\ thread = [t \in Threads |-> Resting]
  /\ mutex  = [holder |-> NoThread, depth |-> 0]
  /\ kernel = [device_kernels |-> {}, handles |-> {}, issued |-> {},
               sessions |-> [p \in Paths |-> NoSession]]
  /\ before = kernel
  /\ calls = 0

\* A thread calls a method with a path, or with a session id given out before.
Invoke(t, call) ==
  /\ thread[t].call = Idle
  /\ calls < MaxCalls
  /\ call.op \in OnSessions => call.arg \in kernel.issued
  /\ calls' = calls + 1
  /\ thread' = [thread EXCEPT ![t] =
       [Resting EXCEPT !.call = call,
                       !.path = IF call.op \in OnPaths THEN call.arg ELSE Idle]]
  /\ UNCHANGED <<mutex, kernel, before>>

\* t's next step is s.
At(t, s) ==
  thread[t].call # Idle /\ Program(thread[t].call.op)[thread[t].step] = s

\* t, which is now as in self, goes on to its next step, or returns.
GoOn(t, self) ==
  thread' = [thread EXCEPT ![t] =
    IF self.step = Len(Program(self.call.op))
      THEN [self EXCEPT !.call = Idle, !.step = 1]
      ELSE [self EXCEPT !.step = @ + 1]]

Lock(t) ==
  /\ At(t, "lock")
  /\ mutex.holder \in {NoThread, t}
  /\ mutex' = [holder |-> t, depth |-> mutex.depth + 1]
  /\ before' = IF mutex.depth = 0 THEN kernel ELSE before
  /\ GoOn(t, thread[t])
  /\ UNCHANGED <<kernel, calls>>

Unlock(t) ==
  /\ At(t, "unlock")
  /\ mutex' = [holder |-> IF mutex.depth = 1 THEN NoThread ELSE t,
               depth  |-> mutex.depth - 1]
  /\ GoOn(t, thread[t])
  /\ UNCHANGED <<kernel, before, calls>>

\* Mutant: the mutex is unlocked by hand, at the end of each method only.
ThrowLocked(t) ==
  /\ thread' = [thread EXCEPT ![t] = [@ EXCEPT !.call = Idle, !.step = 1, !.result = Thrown]]
  /\ UNCHANGED <<mutex, kernel, before, calls>>

\* An exception leaves all methods of t, and every lock guard unlocks.
Throw(t) ==
  /\ thread' = [thread EXCEPT ![t] = [@ EXCEPT !.call = Idle, !.step = 1, !.result = Thrown]]
  /\ mutex' = [holder |-> NoThread, depth |-> 0]
  /\ UNCHANGED <<kernel, before, calls>>

\* Mutant: the new device_kernel is a temporary that the map does not keep.
EmplaceTemporary(t) ==
  /\ At(t, "emplace")
  /\ GoOn(t, thread[t])
  /\ UNCHANGED <<mutex, kernel, before, calls>>

\* get_device_kernel: device_kernels.emplace; the result of the compound
\* methods is set, or stays unset, later.
Emplace(t) ==
  /\ At(t, "emplace")
  /\ kernel' = [kernel EXCEPT !.device_kernels = @ \union {thread[t].path}]
  /\ GoOn(t, [thread[t] EXCEPT !.result =
                IF thread[t].call.op \in {"get", "get_by_session"} THEN thread[t].path ELSE @])
  /\ UNCHANGED <<mutex, before, calls>>

\* device_kernel::open, which does nothing if it is open ...
Open(t) ==
  /\ At(t, "open")
  /\ kernel' = [kernel EXCEPT !.handles = @ \union {thread[t].path}]
  /\ GoOn(t, thread[t])
  /\ UNCHANGED <<mutex, before, calls>>

\* ... and may fail if it is not.
OpenThrows(t) ==
  /\ At(t, "open")
  /\ thread[t].path \notin kernel.handles
  /\ Throw(t)

\* device_kernel::close
Close(t) ==
  /\ At(t, "close")
  /\ kernel' = [kernel EXCEPT !.handles = @ \ {thread[t].path}]
  /\ GoOn(t, thread[t])
  /\ UNCHANGED <<mutex, before, calls>>

\* acquire_session: a new session id replaces the one there may be.
Assign(t) ==
  /\ At(t, "assign")
  /\ \E id \in Ids \ kernel.issued :
       /\ kernel' = [kernel EXCEPT !.issued = @ \union {id},
                                   !.sessions[thread[t].path] = id]
       /\ GoOn(t, [thread[t] EXCEPT !.result = id])
  /\ UNCHANGED <<mutex, before, calls>>

\* get_device_kernel_by_session_id: find_if ...
Find(t) ==
  /\ At(t, "find")
  /\ \E p \in Paths :
       /\ kernel.sessions[p] = thread[t].call.arg
       /\ GoOn(t, [thread[t] EXCEPT !.path = p])
  /\ UNCHANGED <<mutex, kernel, before, calls>>

\* ... throws unknown_session.
UnknownSession(t) ==
  /\ At(t, "find")
  /\ \A p \in Paths : kernel.sessions[p] # thread[t].call.arg
  /\ Throw(t)

\* release_session: find_if, sessions.erase
Erase(t) ==
  /\ At(t, "erase")
  /\ kernel' = [kernel EXCEPT !.sessions =
       [p \in Paths |-> IF @[p] = thread[t].call.arg THEN NoSession ELSE @[p]]]
  /\ GoOn(t, thread[t])
  /\ UNCHANGED <<mutex, before, calls>>

\* enumerate_supported_devices: whatever is plugged in at the moment.
List(t) ==
  /\ At(t, "list")
  /\ \E plugged \in SUBSET Devices :
       GoOn(t, [thread[t] EXCEPT !.todo = {d.path : d \in {e \in plugged : Supported(e)}}])
  /\ UNCHANGED <<mutex, kernel, before, calls>>

\* The loop of enumerate_devices.
FindSessions(t) ==
  /\ At(t, "find_sessions")
  /\ \/ thread[t].todo = {} /\ GoOn(t, thread[t])
     \/ \E p \in thread[t].todo :
          thread' = [thread EXCEPT ![t].todo = @ \ {p},
                                   ![t].list = @ \union {<<p, kernel.sessions[p]>>}]
  /\ UNCHANGED <<mutex, kernel, before, calls>>

Run(t) ==
  \/ Lock(t) \/ Unlock(t)
  \/ Emplace(t) \/ Open(t) \/ OpenThrows(t) \/ Close(t)
  \/ Assign(t) \/ Find(t) \/ UnknownSession(t) \/ Erase(t)
  \/ List(t) \/ FindSessions(t)

\* The bound is reached: no call is running and none can start.
Finished ==
  /\ \A t \in Threads : thread[t].call = Idle
  /\ calls = MaxCalls
  /\ UNCHANGED vars

Next ==
  \/ \E t \in Threads : Run(t) \/ \E call \in Calls : Invoke(t, call)
  \/ Finished

Spec == Init /\ [][Next]_vars

\* Every thread is scheduled; MaxCalls keeps the others from having the mutex
\* every time it is free.
FairSpec == Spec /\ \A t \in Threads : WF_vars(Run(t))

-----------------------------------------------------------------------------
(* Properties *)

\* Type invariant.
TypeOK ==
  /\ thread \in [Threads ->
       [call : Calls \union {Idle}, step : 1 .. Len(CloseAndRelease),
        path : Paths \union {Idle}, todo : SUBSET Paths,
        list : SUBSET (Paths \X (Ids \union {NoSession})),
        result : Paths \union Ids \union {NoResult, Thrown}]]
  /\ mutex \in [holder : Threads \union {NoThread}, depth : 0 .. 3]
  /\ {kernel, before} \subseteq
       [device_kernels : SUBSET Paths, handles : SUBSET Paths, issued : SUBSET Ids,
        sessions : [Paths -> Ids \union {NoSession}]]
  /\ kernel.handles \subseteq kernel.device_kernels
  /\ calls \in 0 .. MaxCalls

\* Between two calls a thread does not hold the mutex, however the last one
\* ended, and the holder has locked it at least once (lock_type in every
\* method).
NoLockLeaked ==
  /\ mutex.holder = NoThread <=> mutex.depth = 0
  /\ mutex.holder # NoThread => thread[mutex.holder].call # Idle

\* A handle is only ever closed for the session its path has at that moment:
\* a caller whose session another one has taken over cannot close the device
\* under it (close_and_release_session).
ClosedByItsOwner ==
  [][\A p \in kernel.handles \ kernel'.handles :
       \E t \in Threads : /\ thread[t].call # Idle
                          /\ thread[t].call.arg = kernel.sessions[p]]_vars

\* Every call ends: locking the mutex again in a nested method never blocks.
CallsEnd == \A t \in Threads : (thread[t].call # Idle) ~> (thread[t].call = Idle)

\* Each method is atomic, the compound ones included, and has no effect on
\* sessions and handles if it throws.
Now == IF mutex.holder = NoThread THEN kernel ELSE before

Table == INSTANCE SessionTable WITH
  calling  <- [t \in Threads |-> thread[t].call],
  returned <- [t \in Threads |-> IF thread[t].call = Idle THEN thread[t].result ELSE NoResult],
  listed   <- [t \in Threads |-> IF thread[t].call = Idle THEN thread[t].list ELSE {}],
  sessions <- Now.sessions,
  handles  <- Now.handles,
  issued   <- Now.issued

IsAtomic == Table!Spec
=============================================================================
