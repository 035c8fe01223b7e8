---------------------------- MODULE SessionTable ----------------------------
(***************************************************************************)
(* What the session operations of core::kernel promise threads that share  *)
(* a kernel (core.hpp): each one takes effect at once, when it returns or  *)
(* throws, however many smaller operations it is made of.  An operation    *)
(* that throws has no effect.                                              *)
(***************************************************************************)
CONSTANTS Threads, Paths, Ids, NoSession, Idle, NoResult, Thrown

VARIABLES
  calling,   (* The operation each thread is in, Idle if in none.          *)
  returned,  (* What its last operation returned.                          *)
  listed,    (* What its last enumeration listed.                          *)
  sessions,  (* The session of each path, NoSession if it has none.        *)
  handles,   (* The paths whose device_kernel is open.                     *)
  issued     (* The session ids given out so far.                          *)

vars == <<calling, returned, listed, sessions, handles, issued>>

Init ==
  /\ calling  = [t \in Threads |-> Idle]
  /\ returned = [t \in Threads |-> NoResult]
  /\ listed   = [t \in Threads |-> {}]
  /\ sessions = [p \in Paths |-> NoSession]
  /\ handles  = {}
  /\ issued   = {}

Invoke(t) ==
  /\ calling[t] = Idle
  /\ \E op \in {"enumerate", "get", "get_by_session", "acquire", "release",
                "open_and_acquire", "close_and_release"}, arg \in Paths \union Ids \union {Idle} :
       calling' = [calling EXCEPT ![t] = [op |-> op, arg |-> arg]]
  /\ returned' = [returned EXCEPT ![t] = NoResult]
  /\ listed' = [listed EXCEPT ![t] = {}]
  /\ UNCHANGED <<sessions, handles, issued>>

\* t's operation op ends with a result.
Ends(t, op, result) ==
  /\ calling[t] # Idle
  /\ calling[t].op = op
  /\ calling' = [calling EXCEPT ![t] = Idle]
  /\ returned' = [returned EXCEPT ![t] = result]

\* arg is the session of path p.
Owns(t, p) == p \in Paths /\ sessions[p] = calling[t].arg

Owned(t) == \E p \in Paths : Owns(t, p)

Enumerate(t) ==
  /\ \E found \in SUBSET Paths :
       listed' = [listed EXCEPT ![t] = {<<p, sessions[p]>> : p \in found}]
  /\ Ends(t, "enumerate", NoResult)
  /\ UNCHANGED <<sessions, handles, issued>>

Get(t) ==
  /\ \E p \in Paths : p = calling[t].arg /\ Ends(t, "get", p)
  /\ UNCHANGED <<sessions, handles, issued>>

GetBySession(t) ==
  /\ \/ \E p \in Paths : Owns(t, p) /\ Ends(t, "get_by_session", p)
     \/ ~Owned(t) /\ Ends(t, "get_by_session", Thrown)
  /\ UNCHANGED <<sessions, handles, issued>>

\* The path gets a new session, whoever holds the old one.
NewSession(t, op) ==
  \E id \in Ids \ issued :
    /\ Ends(t, op, id)
    /\ sessions' = [sessions EXCEPT ![calling[t].arg] = id]
    /\ issued' = issued \union {id}

Acquire(t) == NewSession(t, "acquire") /\ UNCHANGED handles

Release(t) ==
  /\ Ends(t, "release", NoResult)
  /\ sessions' = [p \in Paths |-> IF Owns(t, p) THEN NoSession ELSE sessions[p]]
  /\ UNCHANGED <<handles, issued>>

OpenAndAcquire(t) ==
  \/ /\ NewSession(t, "open_and_acquire")
     /\ handles' = handles \union {calling[t].arg}
  \/ /\ Ends(t, "open_and_acquire", Thrown)
     /\ UNCHANGED <<sessions, handles, issued>>

CloseAndRelease(t) ==
  \/ \E p \in Paths :
       /\ Owns(t, p)
       /\ Ends(t, "close_and_release", NoResult)
       /\ sessions' = [sessions EXCEPT ![p] = NoSession]
       /\ handles' = handles \ {p}
       /\ UNCHANGED issued
  \/ /\ ~Owned(t)
     /\ Ends(t, "close_and_release", Thrown)
     /\ UNCHANGED <<sessions, handles, issued>>

Next ==
  \E t \in Threads :
    \/ Invoke(t)
    \/ /\ calling[t] # Idle
       /\ \/ Enumerate(t)
          \/ /\ \/ Get(t) \/ GetBySession(t) \/ Acquire(t) \/ Release(t)
                \/ OpenAndAcquire(t) \/ CloseAndRelease(t)
             /\ UNCHANGED listed

Spec == Init /\ [][Next]_vars
=============================================================================
