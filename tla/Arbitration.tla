---------------------------- MODULE Arbitration ----------------------------
(***************************************************************************)
(* What the bridge promises about the work it does on modems, without      *)
(* saying how: a job holds the resources it works on alone, and while a    *)
(* job holds a hardware slot, no other job takes a modem object of that    *)
(* slot, an object that replaces the first one included.                   *)
(*                                                                         *)
(* The code has no lock manager.  It keeps three tables of operations, two *)
(* fields and two flags per modem object and tests them one by one in each *)
(* method handler; PciLock and ExpertQueries show that these tests amount  *)
(* to this specification.                                                  *)
(***************************************************************************)
EXTENDS TLAPS

CONSTANTS
    Job,        \* operations under way
    Resource,   \* hardware slots and modem objects
    NoParent    \* of a slot, and of an object not admitted yet

VARIABLES
    parent,     \* the slot of a modem object
    holders     \* the jobs that work on a resource

vars == <<parent, holders>>

TypeOK ==
    /\ parent \in [Resource -> Resource \cup {NoParent}]
    /\ holders \in [Resource -> SUBSET Job]

Init ==
    /\ parent = [r \in Resource |-> NoParent]
    /\ holders = [r \in Resource |-> {}]

\* An object is admitted at a slot, for good.
Attach(r, p) ==
    /\ parent[r] = NoParent
    /\ parent' = [parent EXCEPT ![r] = p]
    /\ UNCHANGED holders

\* Nobody but j works on r or on the slot it belongs to.
MayTake(j, r) ==
    /\ holders[r] = {}
    /\ parent[r] = NoParent \/ holders[parent[r]] \subseteq {j}

\* Job j takes some of the resources it may take, all in one step.
Acquire(j) ==
    /\ holders' \in [Resource -> SUBSET Job]
    /\ \A r \in Resource : holders'[r] = holders[r] \/ (holders'[r] = {j} /\ MayTake(j, r))
    /\ UNCHANGED parent

\* A job gives everything back at once.
Release(j) ==
    /\ UNCHANGED parent
    /\ holders' = [r \in Resource |-> holders[r] \ {j}]

Next ==
    \/ \E j \in Job : Release(j) \/ Acquire(j)
    \/ \E r, p \in Resource : Attach(r, p)

Spec == Init /\ [][Next]_vars

-----------------------------------------------------------------------------
\* Two jobs never work on one resource.
Exclusive == \A r \in Resource : \A j, k \in holders[r] : j = k

(***************************************************************************)
(* Whatever implements this specification keeps its jobs apart: the tests  *)
(* made when a resource is taken are enough, none is needed later.         *)
(***************************************************************************)
THEOREM JobsApart == Spec => []Exclusive
<1>1. Init => Exclusive
  BY DEF Init, Exclusive
<1>2. Exclusive /\ [Next]_vars => Exclusive'
  <2> SUFFICES ASSUME Exclusive, [Next]_vars PROVE Exclusive'
    OBVIOUS
  <2>1. ASSUME NEW j \in Job, Release(j) PROVE Exclusive'
    BY <2>1 DEF Release, Exclusive
  <2>2. ASSUME NEW j \in Job, Acquire(j) PROVE Exclusive'
    BY <2>2 DEF Acquire, Exclusive
  <2>3. ASSUME UNCHANGED holders PROVE Exclusive'
    BY <2>3 DEF Exclusive
  <2> QED BY <2>1, <2>2, <2>3 DEF Next, Attach, vars
<1> QED BY <1>1, <1>2, PTL DEF Spec
=============================================================================
