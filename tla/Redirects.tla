------------------------------- MODULE Redirects -------------------------------
(***************************************************************************)
(* IO against OBJs that were migrated while the metadata service (MDS)     *)
(* still names their old disk: the hook of AST in the IO stack of every    *)
(* disk (ASTIOModule.cpp), run by the threads of the storage service, and  *)
(* the two tables of unsettled OBJs that the HUB thread fills when a       *)
(* migration has ended (ASTHUB.cpp).  Each table has a lock of its own:    *)
(* one access is a step.                                                   *)
(***************************************************************************)
EXTENDS Naturals, Sequences, FiniteSets

CONSTANTS
    OBJs, Disks,
    Workers,      \* threads of the storage service
    MaxMoves,     \* bound: migrations
    MaxIOs        \* bound: operations of the storage service

OBJKeys == OBJs \X Disks

VARIABLES
    views,         \* OBJViews of the ConfigView
    srcUnsettled,  \* mSrcUnsettledOBJs: OBJKey on the source -> target disk
    tgtUnsettled,  \* mTgtUnsettledOBJs: OBJKey on the target -> source disk
    hubQueue,      \* events for the HUB thread
    completing,    \* the completion that the HUB thread is at, and its step
    named,         \* per OBJ: disks that the MDS named to somebody
    io,            \* what each worker is at
    moves, ios     \* use of the bounds

tables == <<srcUnsettled, tgtUnsettled>>
vars == <<views, tables, hubQueue, completing, named, io, moves, ios>>

\* std::map: insert leaves an entry that is there, erase removes it.
Insert(m, k, v) ==
    IF k \in DOMAIN m THEN m
    ELSE [x \in DOMAIN m \cup {k} |-> IF x = k THEN v ELSE m[x]]
Erase(m, k) == [x \in DOMAIN m \ {k} |-> m[x]]

On(key, disk) == <<key[1], disk>>
Idle == [op |-> "none", at |-> "idle"]
Event(type, key) == [type |-> type, key |-> key, from |-> key[2]]
Launched(event) == hubQueue' = Append(hubQueue, event)

Init ==
    /\ views \in [OBJs -> Disks]
    /\ named = [o \in OBJs |-> {views[o]}]
    /\ srcUnsettled = <<>> /\ tgtUnsettled = <<>>
    /\ hubQueue = <<>> /\ completing = Idle
    /\ io = [w \in Workers |-> Idle]
    /\ moves = 0 /\ ios = 0

--------------------------------------------------------------------------------
(* Operations on OBJs, as the hook of the disk they are addressed to sees them. *)

ioFrame == <<views, hubQueue, completing, named, moves>>

\* GetSrcUnsettledOBJ and GetTgtUnsettledOBJ: one look at a table.
SrcUnsettled(key) == key \in DOMAIN srcUnsettled
TgtUnsettled(key) == key \in DOMAIN tgtUnsettled

\* ShouldRedirect goes one disk further, wherever the OBJ is.
ShouldRedirect(key) == IF SrcUnsettled(key) THEN {On(key, srcUnsettled[key])} ELSE {}

\* Write, Read and Delete begin with a key made of the metadata the client has.
\* What is redirected is put down to the target, but carried out where it came
\* (the FIXMEs of ASTIOModule).
Begin(w, op, key) ==
    /\ io[w] = Idle /\ ios < MaxIOs /\ ios' = ios + 1
    /\ key[2] \in named[key[1]]
    /\ io' = [io EXCEPT ![w] =
                IF ShouldRedirect(key) = {}
                THEN [op |-> op, at |-> "look", key |-> key]
                ELSE [op |-> op, at |-> "work", key |-> CHOOSE k \in ShouldRedirect(key) : TRUE]]
    /\ UNCHANGED <<ioFrame, tables>>

\* MarkOBJAsSettledIfNeccessary looks for the source in one step,
Look(w) ==
    /\ io[w].at = "look"
    /\ io' = [io EXCEPT ![w] =
                IF TgtUnsettled(io[w].key)
                THEN [op |-> io[w].op, at |-> "source", key |-> io[w].key,
                      source |-> tgtUnsettled[io[w].key]]
                ELSE [io[w] EXCEPT !.at = "work"]]
    /\ UNCHANGED <<ioFrame, tables, ios>>

\* removes the OBJ from the table of the sources in a second,
RemoveSrcUnsettleOBJ(w) ==
    /\ io[w].at = "source"
    /\ srcUnsettled' = Erase(srcUnsettled, On(io[w].key, io[w].source))
    /\ io' = [io EXCEPT ![w].at = "target"]
    /\ UNCHANGED <<ioFrame, tgtUnsettled, ios>>

\* and from that of the targets in a third.
RemoveTgtUnsettleOBJ(w) ==
    /\ io[w].at = "target"
    /\ tgtUnsettled' = Erase(tgtUnsettled, io[w].key)
    /\ io' = [io EXCEPT ![w] = [op |-> io[w].op, at |-> "work", key |-> io[w].key]]
    /\ UNCHANGED <<ioFrame, srcUnsettled, ios>>

\* The disk has done it, the HUB is told.
Tell(w, op) ==
    /\ io[w].at = "work" /\ io[w].op = op
    /\ Launched(Event(op, io[w].key))
    /\ io' = [io EXCEPT ![w] = Idle]
    /\ UNCHANGED <<views, tables, completing, named, moves, ios>>

Write(w)  == Tell(w, "write")
Read(w)   == Tell(w, "read")
Delete(w) == Tell(w, "delete")

--------------------------------------------------------------------------------
(* Migrations and the HUB thread.                                          *)

\* The storage service has moved an OBJ; one migration of an OBJ at a time.
Moved(o, disk) ==
    /\ moves < MaxMoves /\ moves' = moves + 1
    /\ views[o] \notin {disk, "gone"}
    /\ \A i \in 1 .. Len(hubQueue) :
          ~(hubQueue[i].type = "completed" /\ hubQueue[i].key[1] = o)
    /\ ~(completing.at # "idle" /\ completing.key[1] = o)
    /\ Launched([type |-> "completed", key |-> <<o, disk>>, from |-> views[o]])
    /\ UNCHANGED <<views, tables, completing, named, io, ios>>

\* The MDS learns where an OBJ is, and names the disk to clients; what it named
\* before stays with them.
LearnLayout(o) ==
    /\ views[o] # "gone" /\ views[o] \notin named[o]
    /\ named' = [named EXCEPT ![o] = @ \cup {views[o]}]
    /\ UNCHANGED <<views, tables, hubQueue, completing, io, moves, ios>>

Handles(types) ==
    /\ completing = Idle /\ hubQueue # <<>> /\ Head(hubQueue).type \in types
    /\ hubQueue' = Tail(hubQueue)

\* DeleteOBJ and AccessOBJ find the OBJ under its present key only.
HandleIO ==
    LET e == Head(hubQueue) IN
    /\ Handles({"read", "write", "delete"})
    /\ views' = IF e.type = "delete" /\ views[e.key[1]] = e.key[2]
                THEN [views EXCEPT ![e.key[1]] = "gone"] ELSE views
    /\ UNCHANGED <<tables, completing, named, io, moves, ios>>

\* CompleteMigrate moves the view (the view of an OBJ that was deleted in the
\* meantime is asserted to be there: the service would be down),
MoveOBJFromSrc2Tgt ==
    LET e == Head(hubQueue) IN
    /\ Handles({"completed"})
    /\ views[e.key[1]] = e.from
    /\ views' = [views EXCEPT ![e.key[1]] = e.key[2]]
    /\ completing' = [at |-> "source", key |-> e.key, from |-> e.from]
    /\ UNCHANGED <<tables, named, io, moves, ios>>

\* then adds the OBJ to the table of the sources,
MarkOBJAsSrcUnsettled ==
    /\ completing.at = "source"
    /\ srcUnsettled' =
          Insert(srcUnsettled, On(completing.key, completing.from), completing.key[2])
    /\ completing' = [completing EXCEPT !.at = "target"]
    /\ UNCHANGED <<views, tgtUnsettled, hubQueue, named, io, moves, ios>>

\* then to that of the targets; what the insertions return is not looked at.
MarkOBJAsTgtUnsettled ==
    /\ completing.at = "target"
    /\ tgtUnsettled' = Insert(tgtUnsettled, completing.key, completing.from)
    /\ completing' = Idle
    /\ UNCHANGED <<views, srcUnsettled, hubQueue, named, io, moves, ios>>

Next ==
    \/ \E w \in Workers :
          \/ \E op \in {"write", "read", "delete"}, key \in OBJKeys : Begin(w, op, key)
          \/ Look(w) \/ RemoveSrcUnsettleOBJ(w) \/ RemoveTgtUnsettleOBJ(w)
          \/ Write(w) \/ Read(w) \/ Delete(w)
    \/ \E o \in OBJs : LearnLayout(o) \/ \E disk \in Disks : Moved(o, disk)
    \/ HandleIO \/ MoveOBJFromSrc2Tgt \/ MarkOBJAsSrcUnsettled \/ MarkOBJAsTgtUnsettled

Spec == Init /\ [][Next]_vars

--------------------------------------------------------------------------------

(* ASTHUB.hpp:524: an OBJ that was migrated must be in both tables, and IO *)
(* with its latest metadata deletes it from both: while nobody is between  *)
(* the two, each table is the other one read backwards.                    *)
UnsettledInBoth ==
    completing = Idle /\ (\A w \in Workers : io[w].at \notin {"source", "target"})
    => {<<k[1], k[2], srcUnsettled[k]>> : k \in DOMAIN srcUnsettled}
       = {<<k[1], tgtUnsettled[k], k[2]>> : k \in DOMAIN tgtUnsettled}
================================================================================
