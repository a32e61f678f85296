----------------------------- MODULE Governance -----------------------------
(***************************************************************************)
(* The governance commands of a node (Maternodes/ChainX-MN/                *)
(* rpcgovernance.cpp) on the governance manager (governance.h): preparing  *)
(* and submitting objects, voting with the masternodes of a configuration, *)
(* querying, and the manager's file.  Each call of the manager takes its   *)
(* lock for itself, so commands of several RPC threads, messages of peers  *)
(* and the maintenance interleave between them.  governance.cpp is not in  *)
(* the repository: what the manager does with an object or a vote, on a    *)
(* command or in its maintenance, is external, and its refusals are        *)
(* choices.  The rate of the node's own triggers is looked up in the       *)
(* window that CRateCheckBuffer implements.                                *)
(***************************************************************************)
EXTENDS Integers, Sequences, FiniteSets, Functions

CONSTANTS
  Threads,     \* the RPC threads
  Objects,     \* governance objects, by their hash
  TypeOf,      \* proposal or trigger, for each of them
  TimeOf,      \* the creation time an object carries
  Masternodes,
  Self,        \* the masternode this node is
  Conf,        \* masternode.conf: a sequence of entries
  Signals,     \* what a vote is about: funding, valid, delete, endorsed
  Outcomes,    \* of a vote
  VotedOn,     \* bound: the objects that commands vote on
  Loads,       \* bound: the kinds of commands that run in one behaviour
  Ballots,     \* bound: the signals and outcomes its commands vote with
  Size,        \* RATE_BUFFER_SIZE
  MaxRate,     \* the rate triggers must stay below
  MaxTime      \* the bound on the clock

ASSUME GovernanceAssumption ==
  /\ TypeOf \in [Objects -> {"proposal", "trigger"}]
  /\ TimeOf \in [Objects -> 0 .. MaxTime]
  /\ Self \in Masternodes /\ VotedOn \subseteq Objects
  /\ \A l \in Loads : Ballots[l] \subseteq Signals \X Outcomes
  /\ Conf \in Seq([mn : Masternodes, key : BOOLEAN, index : BOOLEAN])
  /\ IsFiniteSet(Threads) /\ IsFiniteSet(Outcomes)
  /\ Size \in Nat \ {0} /\ MaxTime \in Nat

VARIABLES
  rpc,            \* what each thread is in the middle of
  load,           \* the kinds of commands of this behaviour
  listed,         \* the masternodes of mnodeman
  paid,           \* objects whose collateral transaction is mined
  cachedValid,    \* objects whose flag fCachedValid is set
  mapObjects,
  mapSeen,
  votes,          \* all votes of the objects known, old ones included
  current,        \* the tallying ones among them
  mapOrphanVotes,
  stamps,         \* the window of the node's own triggers
  nTimeLastDiff,
  now,
  relayed,        \* the objects the node has sent
  told,           \* the objects that queries have shown, by command
  filtered,       \* those that a query has found and not shown
  late,           \* those that came when a query had passed their time
  dropped         \* those that were refused, removed, or lost by a stop

gov == <<mapObjects, mapSeen, votes, current, mapOrphanVotes>>
env == <<load, listed, paid, cachedValid, now>>
asked == <<told, filtered>>
vars == <<rpc, env, gov, stamps, nTimeLastDiff, relayed, asked, late, dropped>>

Votes ==
  [mn : Masternodes, obj : Objects, signal : Signals, outcome : Outcomes]
Slot(v) == <<v.mn, v.obj, v.signal>>
Idle == [step |-> "idle"]

Window == INSTANCE RateWindow WITH window <- stamps,
                                   Timestamps <- {TimeOf[o] : o \in Objects}
WindowAfter(t) ==
  Append(IF Len(stamps) < Size THEN stamps ELSE Tail(stamps), t)
RateWith(t) == INSTANCE RateWindow WITH window <- WindowAfter(t),
                                        Timestamps <- {t}

Goto(t, state) == rpc' = [rpc EXCEPT ![t] = state]
At(t, step) == rpc[t].step = step
-----------------------------------------------------------------------------
(* The manager.                                                            *)

(* Mutant: an earlier vote of the masternode goes on counting.             *)
RecordVoteKeeping(v) ==
  votes' = votes \cup {v} /\ current' = current \cup {v}

(* A vote recorded counts in place of the one its masternode gave before,  *)
(* which stays among all votes.                                            *)
RecordVote(v) ==
  /\ votes' = votes \cup {v}
  /\ current' = {w \in current : Slot(w) # Slot(v)} \cup {v}

(* What counts of votes recorded together: one of each masternode and      *)
(* signal.                                                                 *)
Counting(vs) ==
  {won \in SUBSET vs :
     \A v \in vs : \E w \in won : {x \in won : Slot(x) = Slot(v)} = {w}}

(* Mutant: the votes that waited for the object are all counted.           *)
AddGovernanceObjectCounting(o) ==
  /\ mapObjects' = mapObjects \cup {o}
  /\ late' = IF TimeOf[o] < nTimeLastDiff THEN late \cup {o} ELSE late \ {o}
  /\ dropped' = dropped \ {o}
  /\ votes' = votes \cup {v \in mapOrphanVotes : v.obj = o}
  /\ current' = current \cup {v \in mapOrphanVotes : v.obj = o}
  /\ mapOrphanVotes' = {v \in mapOrphanVotes : v.obj # o}

(* The manager has the object, takes it with some of the votes that came   *)
(* before it, or refuses it.                                               *)
AddGovernanceObject(o) ==
  \/ /\ o \in mapObjects
     /\ UNCHANGED <<mapObjects, votes, current, mapOrphanVotes, late, dropped>>
  \/ /\ o \notin mapObjects
     /\ mapObjects' = mapObjects \cup {o}
     /\ \E taken \in SUBSET {v \in mapOrphanVotes : v.obj = o} :
          /\ votes' = votes \cup taken
          /\ \E won \in Counting(taken) : current' = current \cup won
          /\ mapOrphanVotes' = mapOrphanVotes \ taken
     /\ late' = IF TimeOf[o] < nTimeLastDiff THEN late \cup {o} ELSE late \ {o}
     /\ dropped' = dropped \ {o}
  \/ /\ o \notin mapObjects
     /\ dropped' = dropped \cup {o}
     /\ UNCHANGED <<mapObjects, votes, current, mapOrphanVotes, late>>

(* A vote on an unknown object waits under its own hash.                   *)
AddOrphanVote(v) ==
  /\ mapOrphanVotes' = mapOrphanVotes \cup {v}
  /\ UNCHANGED <<votes, current>>

(* A vote on a known object is recorded or refused.                        *)
ProcessVote(v, fOK) ==
  \/ v.obj \notin mapObjects /\ ~fOK /\ AddOrphanVote(v)
  \/ v.obj \in mapObjects /\ fOK /\ RecordVote(v) /\ UNCHANGED mapOrphanVotes
  \/ /\ v.obj \in mapObjects /\ ~fOK
     /\ UNCHANGED <<votes, current, mapOrphanVotes>>

(* A trigger must keep the rate of its masternode below the limit.         *)
MasternodeRateCheck(o) ==
  LET rate == RateWith(TimeOf[o])!Rate
  IN \/ TypeOf[o] # "trigger"
     \/ rate.count < MaxRate * rate.span
-----------------------------------------------------------------------------
(* gobject prepare pays the collateral of a proposal.                      *)
Prepare(o) ==
  /\ TypeOf[o] = "proposal"
  /\ paid' = paid \cup {o}
  /\ UNCHANGED <<rpc, load, listed, cachedValid, now, gov, stamps,
                 nTimeLastDiff, relayed, asked, late, dropped>>

(* gobject submit of a node in sync, up to the first rate check, which     *)
(* leaves the window.                                                      *)
Submit(t, o) ==
  /\ At(t, "idle")
  /\ IF TypeOf[o] = "trigger" THEN Self \in listed ELSE o \in paid
  /\ MasternodeRateCheck(o)
  /\ Goto(t, [step |-> "checked", obj |-> o])
  /\ UNCHANGED <<env, gov, stamps, nTimeLastDiff, relayed, asked, late,
                 dropped>>

(* Mutant: the second check leaves the window too.                         *)
SubmitCountsNothing(t) ==
  /\ At(t, "checked")
  /\ Goto(t, IF MasternodeRateCheck(rpc[t].obj)
             THEN [rpc[t] EXCEPT !.step = "counted"] ELSE Idle)
  /\ UNCHANGED <<env, gov, stamps, nTimeLastDiff, relayed, asked, late,
                 dropped>>

(* The second check counts the trigger, whether or not it passes.          *)
SubmitCount(t) ==
  /\ At(t, "checked")
  /\ Goto(t, IF MasternodeRateCheck(rpc[t].obj)
             THEN [rpc[t] EXCEPT !.step = "counted"] ELSE Idle)
  /\ IF TypeOf[rpc[t].obj] = "trigger" THEN Window!Add(TimeOf[rpc[t].obj])
     ELSE UNCHANGED stamps
  /\ UNCHANGED <<env, gov, nTimeLastDiff, relayed, asked, late, dropped>>

SubmitSeen(t) ==
  /\ At(t, "counted")
  /\ mapSeen' = mapSeen \cup {rpc[t].obj}
  /\ Goto(t, [rpc[t] EXCEPT !.step = "seen"])
  /\ UNCHANGED <<env, mapObjects, votes, current, mapOrphanVotes, stamps,
                 nTimeLastDiff, relayed, asked, late, dropped>>

SubmitRelay(t) ==
  /\ At(t, "seen")
  /\ relayed' = relayed \cup {rpc[t].obj}
  /\ Goto(t, [rpc[t] EXCEPT !.step = "relayed"])
  /\ UNCHANGED <<env, gov, stamps, nTimeLastDiff, asked, late, dropped>>

(* What AddGovernanceObject returns is not looked at.                      *)
SubmitAdd(t) ==
  /\ At(t, "relayed")
  /\ Goto(t, Idle)
  /\ AddGovernanceObject(rpc[t].obj)
  /\ UNCHANGED <<env, mapSeen, stamps, nTimeLastDiff, relayed, asked>>
-----------------------------------------------------------------------------
(* gobject vote-conf votes with the node itself, vote-alias with one entry *)
(* of the configuration, vote-many with all of them.                       *)
StartVote(t, entries, o, ballot) ==
  /\ At(t, "idle")
  /\ Goto(t, [step |-> "voting", obj |-> o, signal |-> ballot[1],
              outcome |-> ballot[2], left |-> entries, of |-> Len(entries),
              nSuccessful |-> 0, nFailed |-> 0, skipped |-> 0, sent |-> << >>])
  /\ UNCHANGED <<env, gov, stamps, nTimeLastDiff, relayed, asked, late,
                 dropped>>

VoteConf(t, o, ballot) ==
  StartVote(t, <<[mn |-> Self, key |-> TRUE, index |-> TRUE]>>, o, ballot)
VoteAlias(t, o, ballot) ==
  \E i \in 1 .. Len(Conf) : StartVote(t, <<Conf[i]>>, o, ballot)
VoteMany(t, o, ballot) == StartVote(t, Conf, o, ballot)

(* A vote that succeeds is relayed.                                        *)
Succeeds(call, v) == [call EXCEPT !.nSuccessful = @ + 1, !.sent = Append(@, v)]
Fails(call) == [call EXCEPT !.nFailed = @ + 1]

(* Mutant: a vote that fails counts as a success.                          *)
CountAfterAlways(call, e, v, fOK) ==
  IF ~e.key \/ (e.index /\ e.mn \notin listed) THEN Fails(call)
  ELSE IF ~e.index THEN [call EXCEPT !.skipped = @ + 1]
  ELSE IF fOK THEN Succeeds(call, v)
  ELSE [call EXCEPT !.nSuccessful = @ + 1]

(* An entry whose key is bad or whose masternode is not listed fails; one  *)
(* whose output index is not a number is passed over and counted nowhere.  *)
CountAfter(call, e, v, fOK) ==
  IF e.key /\ ~e.index THEN [call EXCEPT !.skipped = @ + 1]
  ELSE IF e.key /\ e.mn \in listed /\ fOK THEN Succeeds(call, v)
  ELSE Fails(call)

(* The next entry votes.                                                   *)
VoteOne(t) ==
  /\ At(t, "voting") /\ rpc[t].left # << >>
  /\ LET e == Head(rpc[t].left)
         v == [mn |-> e.mn, obj |-> rpc[t].obj, signal |-> rpc[t].signal,
               outcome |-> rpc[t].outcome]
     IN \E fOK \in BOOLEAN :
          /\ Goto(t, [CountAfter(rpc[t], e, v, fOK) EXCEPT !.left = Tail(@)])
          /\ IF e.key /\ e.index /\ e.mn \in listed
             THEN ProcessVote(v, fOK)
             ELSE ~fOK /\ UNCHANGED <<votes, current, mapOrphanVotes>>
  /\ UNCHANGED <<env, mapObjects, mapSeen, stamps, nTimeLastDiff, relayed,
                 asked, late, dropped>>

(* The report is returned: the counts of the call.                         *)
EndVote(t) ==
  /\ At(t, "voting") /\ rpc[t].left = << >>
  /\ Goto(t, Idle)
  /\ UNCHANGED <<env, gov, stamps, nTimeLastDiff, relayed, asked, late,
                 dropped>>
-----------------------------------------------------------------------------
(* gobject list and diff read the time of the last query before the lock.  *)
StartQuery(t, command) ==
  /\ At(t, "idle")
  /\ Goto(t, [step |-> "query", command |-> command,
              start |-> IF command = "diff" THEN nTimeLastDiff ELSE 0])
  /\ UNCHANGED <<env, gov, stamps, nTimeLastDiff, relayed, asked, late,
                 dropped>>

GetAllNewerThan(time) == {o \in mapObjects : TimeOf[o] >= time}

(* What a query shows of what it has found, by its two filters.            *)
Shown(objs, strShow, strType) ==
  {o \in objs :
     /\ strShow = "valid" => o \in cachedValid
     /\ strType = "proposals" => TypeOf[o] = "proposal"
     /\ strType = "triggers" => TypeOf[o] = "trigger"
     /\ strType # "watchdogs"}

Shows == {"valid", "all"}
ShowTypes == {"proposals", "triggers", "watchdogs", "all"}

(* Mutant: the time is updated before it is used.                          *)
QueryUpdatingFirst(t) ==
  /\ At(t, "query")
  /\ LET objs == GetAllNewerThan(IF rpc[t].command = "diff" THEN now ELSE 0)
     IN \E strShow \in Shows, strType \in ShowTypes :
          /\ told' = told \cup
               Shown(objs, strShow, strType) \X {rpc[t].command}
          /\ filtered' = filtered \cup (objs \ Shown(objs, strShow, strType))
  /\ nTimeLastDiff' = now
  /\ Goto(t, Idle)
  /\ UNCHANGED <<env, gov, stamps, relayed, late, dropped>>

(* Under the lock, the objects from that time on, less those the filters   *)
(* leave out; either command and any filter sets the time.                 *)
Query(t) ==
  /\ At(t, "query")
  /\ LET objs == GetAllNewerThan(rpc[t].start)
     IN \E strShow \in Shows, strType \in ShowTypes :
          /\ told' = told \cup
               Shown(objs, strShow, strType) \X {rpc[t].command}
          /\ filtered' = filtered \cup (objs \ Shown(objs, strShow, strType))
  /\ nTimeLastDiff' = now
  /\ Goto(t, Idle)
  /\ UNCHANGED <<env, gov, stamps, relayed, late, dropped>>

(* gobject getvotes, getcurrentvotes and the counts of gobject get.        *)
GetMatchingVotes(o) == {v \in votes : v.obj = o}
GetCurrentVotes(o) == {v \in current : v.obj = o}
Count(o, signal, outcome) ==
  Cardinality({v \in GetCurrentVotes(o) :
                 v.signal = signal /\ v.outcome = outcome})
Get(o, signal) == [outcome \in Outcomes |-> Count(o, signal, outcome)]
-----------------------------------------------------------------------------
(* Peers and the node around the commands.                                 *)

(* An object comes from a peer: one seen already is ignored.               *)
ReceiveObject(o) ==
  /\ o \notin mapSeen
  /\ mapSeen' = mapSeen \cup {o}
  /\ AddGovernanceObject(o)
  /\ UNCHANGED <<rpc, env, stamps, nTimeLastDiff, relayed, asked>>

(* Maintenance removes an object with its votes; that it was seen stays.   *)
CheckAndRemove(o) ==
  /\ o \in mapObjects
  /\ mapObjects' = mapObjects \ {o}
  /\ votes' = votes \ GetMatchingVotes(o)
  /\ current' = current \ GetMatchingVotes(o)
  /\ told' = {x \in told : x[1] # o} /\ filtered' = filtered \ {o}
  /\ dropped' = dropped \cup {o}
  /\ UNCHANGED <<rpc, env, mapSeen, mapOrphanVotes, stamps, nTimeLastDiff,
                 relayed, late>>

(* A vote that waits expires, or is tried again.                           *)
CheckMasternodeOrphanVotes(v) ==
  /\ v \in mapOrphanVotes
  /\ mapOrphanVotes' = mapOrphanVotes \ {v}
  /\ \/ v.obj \in mapObjects /\ RecordVote(v)
     \/ UNCHANGED <<votes, current>>
  /\ UNCHANGED <<rpc, env, mapObjects, mapSeen, stamps, nTimeLastDiff, relayed,
                 asked, late, dropped>>

(* The votes of an object set or clear its flag fCachedValid.              *)
SetCachedValid(o) ==
  /\ cachedValid' = IF o \in cachedValid THEN cachedValid \ {o}
                    ELSE cachedValid \cup {o}
  /\ UNCHANGED <<rpc, load, listed, paid, now, gov, stamps, nTimeLastDiff,
                 relayed, asked, late, dropped>>

(* The list of masternodes changes.                                        *)
ListChanges(mn) ==
  /\ listed' = IF mn \in listed THEN listed \ {mn} ELSE listed \cup {mn}
  /\ UNCHANGED <<rpc, load, paid, cachedValid, now, gov, stamps,
                 nTimeLastDiff, relayed, asked, late, dropped>>

(* The clock goes on.                                                      *)
Tick ==
  /\ now < MaxTime
  /\ now' = now + 1
  /\ UNCHANGED <<rpc, load, listed, paid, cachedValid, gov, stamps,
                 nTimeLastDiff, relayed, asked, late, dropped>>

(* Mutant: what was seen is not cleared.                                   *)
ClearKeepingSeen ==
  /\ mapObjects' = {} /\ votes' = {} /\ current' = {} /\ mapOrphanVotes' = {}
  /\ stamps' = << >> /\ dropped' = {}
  /\ UNCHANGED mapSeen

Clear ==
  /\ mapObjects' = {} /\ votes' = {} /\ current' = {} /\ mapOrphanVotes' = {}
  /\ stamps' = << >> /\ dropped' = {}
  /\ mapSeen' = {}

(* A thread that has marked an object as seen and not added it yet.        *)
Adding(o) ==
  \E t \in Threads : rpc[t].step \in {"seen", "relayed"} /\ rpc[t].obj = o

(* SerializationOp: the maps go to the file and come back, unless another  *)
(* version wrote them.                                                     *)
SerializationOp(sameVersion) ==
  IF sameVersion
  THEN /\ UNCHANGED <<gov, stamps>>
       /\ dropped' = dropped \cup {o \in mapSeen \ mapObjects : Adding(o)}
  ELSE Clear

(* The node stops, in the middle of whatever its commands do, and starts   *)
(* again with what it had written when it stopped.                         *)
Restart ==
  /\ \E sameVersion \in BOOLEAN : SerializationOp(sameVersion)
  /\ rpc' = [t \in Threads |-> Idle]
  /\ nTimeLastDiff' = 0 /\ relayed' = {} /\ told' = {} /\ filtered' = {}
  /\ UNCHANGED <<env, late>>
-----------------------------------------------------------------------------
Init ==
  /\ rpc = [t \in Threads |-> Idle]
  /\ load \in Loads
  /\ listed = Masternodes /\ paid = {} /\ cachedValid = Objects /\ now = 0
  /\ mapObjects = {} /\ mapSeen = {}
  /\ votes = {} /\ current = {} /\ mapOrphanVotes = {}
  /\ stamps = << >> /\ nTimeLastDiff = 0
  /\ relayed = {} /\ told = {} /\ filtered = {} /\ late = {} /\ dropped = {}

SubmitStep(t) ==
  \/ "submit" \in load /\ \E o \in Objects : Submit(t, o)
  \/ SubmitCount(t)
  \/ SubmitSeen(t)
  \/ SubmitRelay(t)
  \/ SubmitAdd(t)

VoteStep(t) ==
  \/ /\ "vote" \in load
     /\ \E o \in VotedOn, ballot \in Ballots[load] :
          VoteConf(t, o, ballot) \/ VoteAlias(t, o, ballot)
                                 \/ VoteMany(t, o, ballot)
  \/ VoteOne(t)
  \/ EndVote(t)

QueryStep(t) ==
  \/ "query" \in load /\ \E c \in {"list", "diff"} : StartQuery(t, c)
  \/ Query(t)

(* Bounds: the objects, masternodes and clock that commands look at.       *)
Watched ==
  {o \in Objects : "query" \in load \/ ("vote" \in load /\ o \in VotedOn)}
Relied == {mn \in Masternodes : "vote" \in load \/ mn = Self}

Around ==
  \/ "submit" \in load /\ \E o \in Objects : Prepare(o)
  \/ "query" \in load /\ (Tick \/ \E o \in VotedOn : SetCachedValid(o))
  \/ \E o \in Watched : ReceiveObject(o) \/ CheckAndRemove(o)
  \/ \E v \in mapOrphanVotes : CheckMasternodeOrphanVotes(v)
  \/ \E mn \in Relied : ListChanges(mn)
  \/ Restart

Next ==
  \/ \E t \in Threads : SubmitStep(t) \/ VoteStep(t) \/ QueryStep(t)
  \/ Around

Spec == Init /\ [][Next]_vars
-----------------------------------------------------------------------------
TypeOK ==
  /\ mapObjects \cup mapSeen \cup paid \cup late \cup dropped \subseteq Objects
  /\ cachedValid \cup relayed \cup filtered \subseteq Objects
  /\ votes \cup current \cup mapOrphanVotes \subseteq Votes
  /\ told \subseteq Objects \X {"list", "diff"}
  /\ listed \subseteq Masternodes
  /\ stamps \in Seq(0 .. MaxTime) /\ Len(stamps) <= Size
  /\ {nTimeLastDiff, now} \subseteq 0 .. MaxTime

(* An object that is marked as seen, and so refused from peers from then   *)
(* on, is known, or about to be added by the command that marked it, or    *)
(* one the manager has refused or removed, or one a stop of the node came  *)
(* upon in the middle of its command; after a restart with a file another  *)
(* version wrote there is none.                                            *)
SeenIsKnown ==
  \A o \in mapSeen : o \in mapObjects \/ Adding(o) \/ o \in dropped

(* What the node tells its peers it can serve: an object it has marked as  *)
(* seen, and a trigger it has counted in the window, as long as the window *)
(* goes back to it.                                                        *)
RelayedIsCounted ==
  \A o \in relayed :
    /\ o \in mapSeen
    /\ TypeOf[o] = "trigger" /\ Len(stamps) < Size =>
         \E i \in DOMAIN stamps : stamps[i] = TimeOf[o]

(* Whatever order votes come in, before their object or after it: of the   *)
(* votes of a masternode with one signal, all of them listed by getvotes,  *)
(* one counts, and the counts that get reports of a signal are together    *)
(* the masternodes that have voted with it.                                *)
CountsAreOfVotes ==
  /\ current \subseteq votes
  /\ \A v \in votes : \E w \in current :
       {x \in current : Slot(x) = Slot(v)} = {w}
  /\ \A o \in mapObjects, signal \in Signals :
       SumFunction(Get(o, signal)) =
         Cardinality({v.mn : v \in {w \in GetMatchingVotes(o) :
                                     w.signal = signal}})

(* The report of a voting command: successes are the votes it has sent,    *)
(* though entries change sides while it runs.                              *)
ReportAddsUp ==
  \A t \in Threads : At(t, "voting") =>
    LET call == rpc[t]
    IN /\ call.nSuccessful = Len(call.sent)
       /\ call.nSuccessful + call.nFailed + call.skipped + Len(call.left)
            = call.of

(* The manager's maps, its rate window, what peers were told and what a    *)
(* command reports speak of the same objects and votes, whatever threads,  *)
(* maintenance and restarts come between the calls that change them.       *)
RecordsAgree ==
  /\ TypeOK
  /\ SeenIsKnown
  /\ RelayedIsCounted
  /\ CountsAreOfVotes
  /\ ReportAddsUp

(* An object that no query has found, neither shown nor left out by its    *)
(* filters, is newer than the last query, unless it came when a query had  *)
(* passed the time it carries: though the start of a query is read before  *)
(* its lock is taken, no object known in time falls between two queries.   *)
NothingPassedOver ==
  \A o \in mapObjects \ (late \cup filtered) :
    (\A c \in {"list", "diff"} : <<o, c>> \notin told) =>
      TimeOf[o] >= nTimeLastDiff

(* "diff - List differences since last diff" (rpcgovernance.cpp:39).       *)
DiffPassesNothingOver ==
  \A o \in mapObjects :
    <<o, "diff">> \notin told => TimeOf[o] >= nTimeLastDiff

(* "This check should always pass" (rpcgovernance.cpp:209).                *)
SecondCheckPasses ==
  \A t \in Threads : At(t, "checked") => MasternodeRateCheck(rpc[t].obj)

(* An object the node has sent to its peers is one it knows, or is about   *)
(* to: what the order of rpcgovernance.cpp:214-218 leaves open.            *)
RelayedIsKnown ==
  \A o \in relayed : o \in mapObjects \/ Adding(o)
=============================================================================
