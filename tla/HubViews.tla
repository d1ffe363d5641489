-------------------------------- MODULE HubViews --------------------------------
(***************************************************************************)
(* The views the HUB thread keeps of SubPools, disks and OBJs, the IO it   *)
(* counts in them, and the collection of that IO in batches (ConfigView,   *)
(* SubPoolView, TierView, DiskView, OBJView and CollectIO of ASTHUB.cpp).  *)
(* An answer is not copied: the generator's thread resolves it from one of *)
(* the HUB's two buffers.  Keys are numbers in the order of their maps.    *)
(***************************************************************************)
EXTENDS Naturals, Sequences, FiniteSets, SequencesExt

CONSTANTS
    Pools, DiskKeys, OBJIds,  \* numbers: SubPoolKeys, DiskKeys, OBJs without their disk
    PoolOf, TierOf,           \* of each disk; tiers are 0 (SSD), 1 and 2
    InitialDisks, InitialOBJs,
    IOs,                      \* what an access may be
    Msec,                     \* microseconds in what the statistics count
    FragmentSize,             \* objnumperresponse
    FragmentNum,              \* OBJ_IO_RESPONSE_BATCH_NUM
    MaxAccesses, MaxChanges, MaxCollections, MaxFailed  \* bounds

Kinds   == {"rnd", "seq"}
Classes == Kinds \X {"read", "write"}
OBJKeys == DiskKeys \X OBJIds
Past    == 1 + Cardinality(Pools)      \* mSubPools.end()

ASSUME ViewsAssumption ==
    /\ IsFiniteSet(Pools) /\ Pools = 1 .. Cardinality(Pools)
    /\ DiskKeys \subseteq Nat /\ OBJIds \subseteq Nat
    /\ PoolOf \in [DiskKeys -> Pools] /\ TierOf \in [DiskKeys -> 0 .. 2]
    /\ InitialOBJs \subseteq InitialDisks \X OBJIds /\ InitialDisks \subseteq DiskKeys
    /\ IsFiniteSet(InitialOBJs) /\ \A k, l \in InitialOBJs : k[2] = l[2] => k = l
    /\ \A d, e \in InitialDisks :
          d # e /\ PoolOf[d] = PoolOf[e] => TierOf[d] # TierOf[e]
    /\ {Msec, FragmentSize, FragmentNum} \subseteq Nat \ {0}
    /\ IOs \subseteq [offset : Nat, len : Nat, way : {"read", "write"}, usec : Nat]

VARIABLES
    diskIds,    \* domain of mDiskID2Key
    tierDisks,  \* disks in the TierViews
    views,      \* OBJViews by OBJKey
    scheduled,  \* SubPools that ShouldSubPoolBeInvolved
    crashed,    \* a null TierView was used
    frozen,     \* mHUBStatus is HS_collecting_IO
    toCollect,  \* mToBeCollectedOBJsNum
    collected,  \* mAlreadyCollectedOBJsNum
    walk,       \* mIt of ConfigView, and what is left of its SubPool
    free,       \* the buffer mCollectOBJRespFree and its fragments are in
    buffers,    \* OBJInfos of the two buffers
    toHub, answers,  \* between the generator and the HUB
    resolving,  \* the answer the generator resolves, if any
    learning,   \* a round is going on
    failed,     \* resolutions that failed
    sent,       \* history: OBJKeys sent in this collection
    steady,     \* history: nothing was scheduled anew in it
    owed,       \* history: by OBJ, IOs that AST was not told, and time since
    accesses, changes, collections  \* how much of the bounds is used

viewVars == <<diskIds, tierDisks, views, crashed>>
walkVars == <<frozen, toCollect, collected, walk, free, buffers, sent>>
genVars  == <<resolving, learning, failed, collections>>
vars     == <<viewVars, walkVars, genVars, scheduled, toHub, answers, steady, owed,
              accesses, changes>>

-----------------------------------------------------------------------------
(* IO of an OBJ.                                                           *)

Track == [offset : Nat, len : Nat]

\* What an OBJView holds: IOs by class, time by kind, the time short of a
\* millisecond, and the last access.
OBJViews == [ios : [Classes -> Nat], rt : [Kinds -> Nat], remaining : 0 .. Msec - 1,
             track : Track]

\* A new one, or one that Reset has cleared.
NewView == [ios |-> [c \in Classes |-> 0], rt |-> [k \in Kinds |-> 0],
            remaining |-> 0, track |-> [offset |-> 0, len |-> 0]]

\* Sequential is what begins where the last IO ended.
DeterminAccessModel(track, io) ==
    <<IF io.offset > track.offset /\ track.len = io.offset - track.offset
      THEN "seq" ELSE "rnd", io.way>>

\* Seeded fault: what is left of a millisecond is forgotten.
FaultyUpdate(view, io) ==
    LET class == DeterminAccessModel(view.track, io) IN
    [ios |-> [view.ios EXCEPT ![class] = @ + 1],
     rt |-> [view.rt EXCEPT ![class[1]] = @ + io.usec \div Msec],
     remaining |-> io.usec % Msec,
     track |-> [offset |-> io.offset, len |-> io.len]]

\* OBJView::Update (volumes are added like the numbers of IOs).
Update(view, io) ==
    LET class == DeterminAccessModel(view.track, io)
        total == view.remaining + io.usec IN
    [ios |-> [view.ios EXCEPT ![class] = @ + 1],
     rt |-> [view.rt EXCEPT ![class[1]] = @ + total \div Msec],
     remaining |-> total % Msec,
     track |-> [offset |-> io.offset, len |-> io.len]]

IOsIn(view) == view.ios[<<"rnd", "read">>] + view.ios[<<"rnd", "write">>]
               + view.ios[<<"seq", "read">>] + view.ios[<<"seq", "write">>]
TimeIn(view) == Msec * (view.rt["rnd"] + view.rt["seq"]) + view.remaining

-----------------------------------------------------------------------------
(* Lookups and the walk.                                                   *)

\* GetDiskKeyFromID: the disk of the OBJ has a view.
DiskKnown(key) == key[1] \in diskIds

\* SubPools with a view are those of the disks with one.
PoolsWithView == {PoolOf[d] : d \in diskIds}

\* The order of the maps: SubPools, their disks, the OBJs of these.
Before(k, l) ==
    \/ PoolOf[k[1]] < PoolOf[l[1]]
    \/ PoolOf[k[1]] = PoolOf[l[1]] /\ (k[1] < l[1] \/ (k[1] = l[1] /\ k[2] < l[2]))
Rank(k, keys) == Cardinality({l \in keys : Before(l, k)})
InOrder(keys) ==
    [n \in 1 .. Cardinality(keys) |-> CHOOSE k \in keys : Rank(k, keys) = n - 1]

\* The OBJs of a disk, and of a SubPool: of all its disks.
KeysOn(d) == {k \in DOMAIN views : k[1] = d}
KeysOf(p) == UNION {KeysOn(d) : d \in {e \in diskIds : PoolOf[e] = p}}

\* GetOBJCnt of ConfigView: all OBJs, involved or not.
OBJCnt == Cardinality(DOMAIN views)

\* The OBJs of the involved SubPools after one.
KeysAfter(p) == UNION {KeysOf(q) : q \in {r \in scheduled \cap PoolsWithView : r > p}}

\* Seeded fault: the rest of a SubPool is not visited when a batch ended in it.
FaultyAhead(w) == InOrder(KeysAfter(w.pool))

\* What GetNextOBJView gives one after the other: the rest of the SubPool it is
\* in, asked no more whether it is involved, then those that are.
Ahead(w) == w.keys \o InOrder(KeysAfter(w.pool))

\* Where the walk is after GetNextOBJView gave the last of keys.
Behind(keys) ==
    LET key == Last(keys) IN
    [pool |-> PoolOf[key[1]],
     keys |-> InOrder({k \in KeysOf(PoolOf[key[1]]) : Before(key, k)})]

-----------------------------------------------------------------------------
(* Changes and accesses.                                                   *)

Change == changes < MaxChanges /\ changes' = changes + 1
viewFrame == <<walkVars, genVars, toHub, answers, steady, accesses>>

\* AddTierView refuses a tier the SubPool has: the disk is in no TierView then.
TierListed(d) == \E e \in tierDisks : PoolOf[e] = PoolOf[d] /\ TierOf[e] = TierOf[d]

\* SubPoolView::AddDiskView: the disk is put into the TierView of its tier.
PutIntoTier(d) == tierDisks' = IF TierListed(d) THEN tierDisks ELSE tierDisks \cup {d}

\* ConfigView::AddDiskView (assertions on the tier are taken as compiled out).
AddDiskView(d) ==
    /\ d \notin diskIds
    /\ diskIds' = diskIds \cup {d}
    /\ PutIntoTier(d)

\* AddDisk
AddDisk(d) ==
    /\ ~frozen /\ Change
    /\ AddDiskView(d)
    /\ UNCHANGED <<views, crashed, scheduled, owed, viewFrame>>

\* The tier a DiskView says it has: its constructor's, TIER_cnt, for ever.
GetTierType(d) == 3

\* SubPoolView::RemoveDiskView looks for the TierView of that tier among those of
\* the SubPool; without one a null pointer is used, and nothing more happens.
LooksForTier(d) ==
    /\ \A e \in tierDisks : PoolOf[e] = PoolOf[d] => TierOf[e] # GetTierType(d)
    /\ crashed' = TRUE

\* RemoveDisk
RemoveDisk(d) ==
    /\ ~frozen /\ Change
    /\ d \in diskIds
    /\ LooksForTier(d)
    /\ UNCHANGED <<diskIds, tierDisks, views, scheduled, owed, viewFrame>>

\* AddOBJView and DeleteOBJView of DiskView on the map of OBJs.
Inserted(vs, key, view) ==
    [k \in DOMAIN vs \cup {key} |-> IF k \in DOMAIN vs THEN vs[k] ELSE view]
Erased(vs, key) == [k \in DOMAIN vs \ {key} |-> vs[k]]

\* ConfigView::AddOBJView refuses an OBJ of an unknown disk.
AddOBJView(key) ==
    /\ DiskKnown(key)
    /\ views' = Inserted(views, key, NewView)

\* AddOBJ (of an OBJ that is on no other disk).
AddOBJ(key) ==
    /\ ~frozen /\ Change
    /\ \A k \in DOMAIN views : k[2] # key[2]
    /\ AddOBJView(key)
    /\ UNCHANGED <<diskIds, tierDisks, crashed, scheduled, owed, viewFrame>>

\* ConfigView::DeleteOBJView
DeleteOBJView(key) ==
    /\ DiskKnown(key) /\ key \in DOMAIN views
    /\ views' = Erased(views, key)

\* DeleteOBJ: what was counted is told to nobody.
DeleteOBJ(key) ==
    /\ ~frozen /\ Change
    /\ DeleteOBJView(key)
    /\ owed' = [owed EXCEPT ![key[2]] = [ios |-> @.ios - IOsIn(views[key]), usec |-> 0]]
    /\ UNCHANGED <<diskIds, tierDisks, crashed, scheduled, viewFrame>>

\* The view on the target begins with what the one on the source has.
MoveOBJFromSrc2Tgt(key, d) ==
    views' = Inserted(Erased(views, key), <<d, key[2]>>, views[key])

\* CompleteMigrate
CompleteMigrate(key, d) ==
    /\ ~frozen /\ Change
    /\ key \in DOMAIN views /\ d \in diskIds \ {key[1]} /\ PoolOf[d] = PoolOf[key[1]]
    /\ MoveOBJFromSrc2Tgt(key, d)
    /\ UNCHANGED <<diskIds, tierDisks, crashed, scheduled, owed, viewFrame>>

\* DiskView::UpdateOBJView
UpdateOBJView(key, io) ==
    /\ key \in DOMAIN views
    /\ views' = [views EXCEPT ![key] = Update(@, io)]

\* AccessOBJ, which does not wait for the end of a collection.
AccessOBJ(key, io) ==
    /\ accesses < MaxAccesses
    /\ accesses' = accesses + 1
    /\ DiskKnown(key) /\ UpdateOBJView(key, io)
    /\ owed' = [owed EXCEPT ![key[2]] = [ios |-> @.ios + 1, usec |-> @.usec + io.usec]]
    /\ UNCHANGED <<diskIds, tierDisks, crashed, scheduled, walkVars, genVars, toHub,
                   answers, steady, changes>>

\* The time of a SubPool begins or ends, which no event says.
Reschedule(p) ==
    /\ Change
    /\ scheduled' = IF p \in scheduled THEN scheduled \ {p} ELSE scheduled \cup {p}
    /\ steady' = FALSE
    /\ UNCHANGED <<viewVars, walkVars, genVars, toHub, answers, owed, accesses>>

-----------------------------------------------------------------------------
(* Collections.                                                            *)

Requested(type) ==
    /\ toHub # <<>> /\ Head(toHub) = type
    /\ toHub' = Tail(toHub)
serveFrame == <<diskIds, tierDisks, crashed, genVars, scheduled, accesses, changes>>

\* ET_hub_collect_io with F_prep.
PrepareIO ==
    /\ Requested("prepare")
    /\ frozen' = TRUE
    /\ toCollect' = OBJCnt /\ collected' = 0
    /\ sent' = <<>> /\ steady' = TRUE
    /\ UNCHANGED <<views, walk, free, buffers, answers, owed, serveFrame>>

Min2(m, n) == IF m < n THEN m ELSE n

\* Fragments taken for n OBJs: another one as soon as one is full, if there is one.
FragmentsTaken(n) == Min2(n \div FragmentSize + 1, FragmentNum)

\* Seeded fault: every fragment that was taken is sent.
FaultyFragmentsSent(n) == FragmentsTaken(n)

\* SetFragmentNum: the last one only if an OBJ is in it.
FragmentsSent(n) ==
    IF n > FragmentSize * (FragmentsTaken(n) - 1)
    THEN FragmentsTaken(n) ELSE FragmentsTaken(n) - 1

SwitchOBJRespFree == free' = 3 - free

\* An OBJ and what is told of it.
OBJInfo(key) == [key |-> key, ios |-> IOsIn(views[key])]

ResetViews(keys) ==
    views' = [k \in DOMAIN views |-> IF k \in keys THEN NewView ELSE views[k]]

\* CollectIO
CollectIO ==
    LET start == IF collected = 0 THEN [pool |-> 0, keys |-> <<>>] ELSE walk
        ahead == Ahead(start)
        room == FragmentSize * FragmentNum
        keys == IF toCollect = 0 \/ collected = toCollect THEN <<>>
                ELSE SubSeq(ahead, 1, Min2(Len(ahead), room)) IN
    /\ Requested("collect")
    /\ walk' = IF toCollect = 0 \/ collected = toCollect THEN walk
               ELSE IF Len(keys) = room THEN Behind(keys)
               ELSE [pool |-> Past, keys |-> <<>>]
    /\ collected' = collected + Len(keys)
    /\ buffers' = [buffers EXCEPT ![free] = [n \in 1 .. Len(keys) |-> OBJInfo(keys[n])]]
    /\ answers' = Append(answers,
          [buffer |-> free, ok |-> keys # <<>>, fragments |-> FragmentsSent(Len(keys)),
           more |-> keys # <<>> /\ collected' < toCollect])
    /\ ResetViews(Range(keys))
    /\ owed' = [o \in OBJIds |-> IF \E k \in Range(keys) : k[2] = o
                                 THEN [owed[o] EXCEPT !.usec = 0] ELSE owed[o]]
    /\ SwitchOBJRespFree
    /\ sent' = sent \o keys
    /\ UNCHANGED <<frozen, toCollect, steady, serveFrame>>

\* ET_hub_collect_io with F_post.
PostIO ==
    /\ Requested("post")
    /\ frozen' = FALSE
    /\ UNCHANGED <<views, toCollect, collected, walk, free, buffers, sent, answers,
                   steady, owed, serveFrame>>

-----------------------------------------------------------------------------
(* The generator's thread (DoCycleWork, ASTRelocation.cpp).                *)

genFrame == <<viewVars, walkVars, scheduled, steady, accesses, changes>>
None == [buffer |-> 0, ok |-> FALSE, fragments |-> 0, more |-> FALSE]

\* The configuration is resolved: CollectOBJIOPrep and CollectOBJIO.
StartCollecting ==
    /\ ~learning /\ resolving = None /\ collections < MaxCollections
    /\ learning' = TRUE /\ collections' = collections + 1
    /\ toHub' = toHub \o <<"prepare", "collect">>
    /\ UNCHANGED <<genFrame, resolving, failed, answers, owed>>

\* An answer arrives; the next batch is asked for before this one is resolved.
\* One that failed ends the collection, but not the learning.
TakeAnswer ==
    /\ learning /\ answers # <<>> /\ resolving = None
    /\ answers' = Tail(answers)
    /\ \/ /\ Head(answers).ok
          /\ resolving' = Head(answers)
          /\ toHub' = IF Head(answers).more THEN Append(toHub, "collect") ELSE toHub
       \/ /\ ~Head(answers).ok
          /\ toHub' = Append(toHub, "post")
          /\ UNCHANGED resolving
    /\ UNCHANGED <<genFrame, learning, failed, collections, owed>>

Told(o, infos) == IF \E i \in Range(infos) : i.key[2] = o
                  THEN (CHOOSE i \in Range(infos) : i.key[2] = o).ios ELSE 0

\* ResolveOBJIO reads the buffer, and may run out of memory.
ResolveAnswer ==
    /\ resolving # None
    /\ owed' = [o \in OBJIds |->
                   [owed[o] EXCEPT !.ios = @ - Told(o, buffers[resolving.buffer])]]
    /\ \/ /\ toHub' = IF resolving.more THEN toHub ELSE Append(toHub, "post")
          /\ learning' = resolving.more
          /\ UNCHANGED failed
       \/ /\ failed < MaxFailed
          /\ failed' = failed + 1
          /\ toHub' = Append(toHub, "post")
          /\ learning' = FALSE
    /\ resolving' = None
    /\ UNCHANGED <<genFrame, collections, answers>>

-----------------------------------------------------------------------------
ViewsInit ==
    /\ diskIds = InitialDisks /\ tierDisks = InitialDisks
    /\ views = [k \in InitialOBJs |-> NewView]
    /\ scheduled = Pools /\ crashed = FALSE
    /\ frozen = FALSE /\ toCollect = 0 /\ collected = 0
    /\ walk = [pool |-> 0, keys |-> <<>>]
    /\ free = 1 /\ buffers = [b \in 1 .. 2 |-> <<>>]
    /\ toHub = <<>> /\ answers = <<>> /\ resolving = None /\ learning = FALSE
    /\ failed = 0 /\ sent = <<>> /\ steady = TRUE
    /\ owed = [o \in OBJIds |-> [ios |-> 0, usec |-> 0]]
    /\ accesses = 0 /\ changes = 0 /\ collections = 0

Changes ==
    \/ \E d \in DiskKeys : AddDisk(d) \/ RemoveDisk(d)
    \/ \E key \in OBJKeys : AddOBJ(key) \/ DeleteOBJ(key)
                            \/ \E d \in DiskKeys : CompleteMigrate(key, d)
    \/ \E p \in Pools : Reschedule(p)

ViewsNext ==
    /\ ~crashed
    /\ \/ Changes
       \/ \E key \in OBJKeys, io \in IOs : AccessOBJ(key, io)
       \/ PrepareIO \/ CollectIO \/ PostIO
       \/ StartCollecting \/ TakeAnswer \/ ResolveAnswer

ViewsSpec == ViewsInit /\ [][ViewsNext]_vars

-----------------------------------------------------------------------------
InViews(o) ==
    IF \E k \in DOMAIN views : k[2] = o
    THEN views[CHOOSE k \in DOMAIN views : k[2] = o] ELSE NewView

InAnswers(o) ==
    LET told(a) == IF a.ok THEN Told(o, buffers[a.buffer]) ELSE 0 IN
    told(resolving) + FoldSeq(LAMBDA a, sum : told(a) + sum, 0, answers)

(* Every IO is counted for AST once: it is in the view of its OBJ or in an *)
(* answer that is on its way or being resolved, and whatever the OBJ's     *)
(* migrations and the interleaving of accesses, batches and resolution, no *)
(* answer is written over while it is resolved ("two CollectOBJResponse    *)
(* arrays ... in ping-pong mode", ASTHUB.hpp:603), as long as no           *)
(* resolution fails.                                                       *)
EveryIOIsTold == failed = 0 =>
    \A o \in OBJIds : owed[o].ios = IOsIn(InViews(o)) + InAnswers(o)

(* No time is lost between two collections: "the remaining less than 1     *)
(* msec must be remembered" (ASTHUB.hpp:955), also by migrations.          *)
TimeIsRemembered ==
    /\ views \in [DOMAIN views -> OBJViews]
    /\ \A o \in OBJIds : owed[o].usec = TimeIn(InViews(o))

(* Neither IOs nor times are lost or counted twice on their way to AST.    *)
NothingIsForgotten == EveryIOIsTold /\ TimeIsRemembered

(* The batches of a collection visit no OBJ twice and, unless something is *)
(* scheduled meanwhile, every OBJ of the involved SubPools: also when a    *)
(* batch ends in the middle of a SubPool (GetNextOBJView).  Again as long  *)
(* as no resolution fails: an answer that comes after ends the next        *)
(* collection early.                                                       *)
WalkIsComplete ==
    [][CollectIO /\ failed = 0 =>
          /\ IsInjective(sent')
          /\ steady /\ ~Last(answers').more =>
                Range(sent') = {k \in DOMAIN views : PoolOf[k[1]] \in scheduled}]_vars

(* No fragment of an answer is empty or was left out: ResolveOBJIO asserts *)
(* that each was filled (ASTIO.cpp:898).                                   *)
FragmentsAreFilled ==
    \A n \in DOMAIN answers : answers[n].ok /\ failed = 0 =>
        /\ Len(buffers[answers[n].buffer]) > FragmentSize * (answers[n].fragments - 1)
        /\ Len(buffers[answers[n].buffer]) <= FragmentSize * answers[n].fragments

================================================================================
