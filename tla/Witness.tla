------------------------------- MODULE Witness -------------------------------
(***************************************************************************)
(* scan_issue_715_vcd.py reading the trace of a BOOM core, one cycle after *)
(* another.  The core, which is not part of the repository, is a set of    *)
(* loads in flight that hand their registers, queue slots and reorder-     *)
(* buffer entries on to later ones.  Each load carries a number no signal  *)
(* shows; the properties compare what the scanner concludes with it.       *)
(***************************************************************************)
EXTENDS Naturals, Sequences, FiniteSets, FiniteSetsExt

CONSTANTS
  Cores,      \* the loads a core may dispatch, in this order
  MaxCycles   \* bound on the trace

\* pc_lob, the low bits of a PC: those of the two loads of the gadget.  A request of
\* no branch's shadow (an empty mask) is not recorded.
Source == 0
Dependent == 4

Load == [id : Nat, pdst : Nat, prs1 : Nat, ldq : Nat, rob : Nat,
         lob : {Source, Dependent}, mask : (SUBSET Nat) \ {{}}, vaddr : {"protected", "observed"}]

ASSUME WitnessAssumption ==
  /\ MaxCycles \in Nat
  /\ Cores \subseteq Seq(Load) /\ \A core \in Cores : \A i \in DOMAIN core : core[i].id = i

VARIABLES
  core,    \* the loads this core dispatches
  cycle,
  flying,  \* those in flight
  born,    \* those dispatched so far
  seen     \* what scan has appended to its lists

traceVars == <<core, cycle, flying, born, seen>>

Seen(load) == [load |-> load, cycle |-> cycle']

TraceTypeOK ==
  /\ core \in Cores /\ cycle \in 0..MaxCycles
  /\ born \subseteq {core[i] : i \in DOMAIN core} /\ flying \subseteq born
  /\ {seen.branch, seen.first, seen.second} \subseteq 0..MaxCycles
  /\ seen.dispatches \subseteq [load : born, cycle : 1..MaxCycles]
  /\ seen.exes \subseteq seen.requests
  /\ seen.requests \subseteq [load : born, cycle : 1..MaxCycles]
  /\ seen.faults \subseteq [load : born, cycle : 1..MaxCycles]
  /\ seen.mispredicts \subseteq 1..MaxCycles

TraceInit ==
  /\ core \in Cores /\ cycle = 0 /\ flying = {} /\ born = {}
  /\ seen = [branch |-> 0, first |-> 0, second |-> 0, dispatches |-> {}, exes |-> {},
             requests |-> {}, faults |-> {}, mispredicts |-> {}]

-----------------------------------------------------------------------------
(* A cycle of the core, and finish_timestamp after it                      *)

Tick == cycle < MaxCycles /\ cycle' = cycle + 1
Notes(update) == seen' = update
First(old) == IF old = 0 THEN cycle' ELSE old

\* The front end fetches the branch, or a load of the gadget.
FetchBranch ==
  /\ Tick /\ Notes([seen EXCEPT !.branch = First(@)])
  /\ UNCHANGED <<core, flying, born>>
FetchGadget ==
  /\ Tick
  /\ \/ Notes([seen EXCEPT !.first = First(@)])
     \/ Notes([seen EXCEPT !.second = First(@)])
  /\ UNCHANGED <<core, flying, born>>

\* Recorded once the first load of the gadget has been fetched.
Dispatch ==
  /\ Tick /\ Cardinality(born) < Len(core)
  /\ LET load == core[Cardinality(born) + 1] IN
     /\ \A other \in flying :
          other.pdst # load.pdst /\ other.ldq # load.ldq /\ other.rob # load.rob
     /\ flying' = flying \cup {load} /\ born' = born \cup {load}
     /\ Notes(IF seen.first # 0 THEN [seen EXCEPT !.dispatches = @ \cup {Seen(load)}] ELSE seen)
  /\ UNCHANGED core

Overlap(a, b) == a.mask \cap b.mask # {}
SameSlot(a, b) == a.pdst = b.pdst /\ a.ldq = b.ldq /\ Overlap(a, b)
SameEntry(a, b) == a.rob = b.rob /\ SameSlot(a, b)

\* A load goes from the core to the TLB; _match_dispatch decides whether scan
\* records the first half.
Execute(load) ==
  /\ Tick /\ load \in flying
  /\ Notes([seen EXCEPT
       !.requests = @ \cup {Seen(load)},
       !.exes = IF \E d \in seen.dispatches : SameEntry(d.load, load)
                THEN @ \cup {Seen(load)} ELSE @])
  /\ UNCHANGED <<core, flying, born>>

Translating == {r.load : r \in seen.requests} \cap flying

\* The load queue tries the translation again.
Retry(load) ==
  /\ Tick /\ load \in Translating
  /\ Notes([seen EXCEPT !.requests = @ \cup {Seen(load)}])
  /\ UNCHANGED <<core, flying, born>>

\* A page fault of a load at the protected address.
Fault(load) ==
  /\ Tick /\ load \in Translating /\ load.vaddr = "protected"
  /\ Notes([seen EXCEPT !.faults = @ \cup {Seen(load)}])
  /\ UNCHANGED <<core, flying, born>>

\* The branch was mispredicted; the loads behind it are lost.
Mispredict(bit) ==
  /\ Tick
  /\ flying' = {load \in flying : bit \notin load.mask}
  /\ Notes([seen EXCEPT !.mispredicts = @ \cup {cycle'}])
  /\ UNCHANGED <<core, born>>

\* Another branch kills a load, or it commits.
Leave(load) ==
  /\ load \in flying /\ flying' = flying \ {load}
  /\ UNCHANGED <<core, cycle, born, seen>>

TraceNext ==
  \/ FetchBranch \/ FetchGadget
  \/ Dispatch
  \/ \E load \in flying : Execute(load) \/ Retry(load) \/ Fault(load) \/ Leave(load)
  \/ \E bit \in UNION {core[i].mask : i \in DOMAIN core} : Mispredict(bit)

TraceSpec == TraceInit /\ [][TraceNext]_traceVars

-----------------------------------------------------------------------------
(* What scan returns for the trace so far                                  *)

Requests(address) == {r \in seen.requests : r.load.vaddr = address}
Resolutions == {c \in seen.mispredicts : c > seen.branch}
Resolved == seen.branch # 0 /\ Resolutions # {}
LastResolution == Max(Resolutions)
Resolution == Min(Resolutions)

\* The pairs behind _witness_flags' first result.
Pairs(sinks) ==
  {p \in Requests("protected") \X sinks :
     /\ seen.branch < p[1].cycle /\ p[1].cycle < p[2].cycle /\ p[2].cycle < Resolution
     /\ Overlap(p[1].load, p[2].load)}

\* And its second: both loads of the gadget were fetched in the window, and a fault
\* of the shared branch follows the dependent request.
Faulting(source, sink) ==
  /\ seen.first # 0 /\ seen.second # 0
  /\ \A fetch \in {seen.first, seen.second} : seen.branch < fetch /\ fetch < source.cycle
  /\ \E f \in seen.faults :
       /\ sink.cycle < f.cycle /\ f.cycle < Resolution
       /\ source.load.mask \cap sink.load.mask \cap f.load.mask # {}

WitnessFlags(sinks) ==
  IF ~Resolved THEN <<FALSE, FALSE>>
  ELSE <<Pairs(sinks) # {}, \E p \in Pairs(sinks) : Faulting(p[1], p[2])>>

\* The dispatch a request is taken for: the latest with its register and slot.
DispatchesOf(r) ==
  {d \in seen.dispatches :
     d.cycle <= r.cycle /\ d.load.pdst = r.load.pdst /\ d.load.ldq = r.load.ldq}
DispatchLob(r) ==
  LET latest == Max({d.cycle : d \in DispatchesOf(r)})
  IN (CHOOSE d \in DispatchesOf(r) : d.cycle = latest).load.lob

DependentDispatches ==
  {d \in seen.dispatches :
     /\ d.load.lob = Dependent
     /\ \E source \in Requests("protected") :
          /\ DispatchesOf(source) # {} /\ DispatchLob(source) = Source
          /\ source.load.pdst = d.load.prs1 /\ source.cycle >= d.cycle}

IdentifiesSlot(dispatch, exe) == exe.cycle >= dispatch.cycle /\ SameSlot(exe.load, dispatch.load)
Identifies(dispatch, exe) == exe.cycle >= dispatch.cycle /\ SameEntry(exe.load, dispatch.load)
DependentRequests ==
  {r \in seen.requests :
     \E exe \in seen.exes :
       /\ exe.cycle = r.cycle /\ exe.load.vaddr = r.load.vaddr /\ SameSlot(r.load, exe.load)
       /\ \E d \in DependentDispatches : Identifies(d, exe)}

SameBranchMaskChain == WitnessFlags(Requests("observed"))[1]
TransientDataflow == WitnessFlags(DependentRequests)[1]
Mechanism == WitnessFlags(DependentRequests)[2]

-----------------------------------------------------------------------------
(* Properties                                                              *)

\* A request is taken for the dependent load's only if it is, whatever happens to the
\* register and the queue slot, as long as the reorder-buffer entry of that load has
\* not been given out again (scan_issue_715_vcd.py:129 and 133-148).
DependentRequestsAreTheirs ==
  \A r \in DependentRequests : \E d \in DependentDispatches :
    \/ d.load.id = r.load.id
    \/ \E later \in born : later.id > d.load.id /\ later.rob = d.load.rob

\* After the first resolution of the branch no event changes what the requests to the
\* two addresses witness (scan_issue_715_vcd.py:94-101).
VerdictSettles ==
  [][Resolved => WitnessFlags(Requests("observed"))' = WitnessFlags(Requests("observed"))]_traceVars

\* "A request after resolution remains visible in the raw observations but cannot
\* establish transient dataflow" (docs/BOOM.md:454-455, of
\* scan_issue_715_vcd.py:477-498).
LateRequestsEstablishNothing ==
  [][Resolved /\ TransientDataflow' => TransientDataflow]_traceVars
=============================================================================
