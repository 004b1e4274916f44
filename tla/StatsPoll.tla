------------------------------ MODULE StatsPoll ------------------------------
(***************************************************************************)
(* PeerConnectionObserver::getStats (PeerConnectionManager.h): the HTTP    *)
(* thread clears the report of the shared                                  *)
(* PeerConnectionStatsCollectorCallback, asks WebRTC for stats, and polls  *)
(* report_ once a second until it is non-empty or ten tries are used up.   *)
(* WebRTC's signaling thread calls OnStatsDelivered, which writes report_  *)
(* one stats object at a time, keyed by stats id, without a lock.  A       *)
(* delivery may come after its getStats has given up, during a later one.  *)
(*                                                                         *)
(* A stats object is abstracted to <<request, id>>: the getStats call it   *)
(* answers and its stats id.                                               *)
(***************************************************************************)
EXTENDS Naturals

CONSTANTS
    Entries,  \* the stats ids of one report
    MaxCalls, \* bound on the getStats calls
    Polls,    \* int count = 10
    NoReport  \* no report returned yet

(* Entries is non-empty, MaxCalls a natural and Polls a positive natural.  *)

VARIABLES
    call,        \* the number of getStats calls started
    pc,          \* the HTTP thread: "idle", "polling", "returned"
    count,       \* count in getStats
    report,      \* report_ of the stats callback
    written,     \* written[r]: stats ids OnStatsDelivered has stored for request r
    outstanding, \* requests whose OnStatsDelivered has not finished
    returned     \* the report the last getStats returned

vars == <<call, pc, count, report, written, outstanding, returned>>

Requests == 1..MaxCalls

TypeOK ==
    /\ call \in 0..MaxCalls
    /\ pc \in {"idle", "polling", "returned"}
    /\ count \in 0..Polls
    /\ report \subseteq Requests \X Entries
    /\ written \in [Requests -> SUBSET Entries]
    /\ outstanding \subseteq Requests
    /\ returned \in SUBSET (Requests \X Entries) \cup {NoReport}

Init ==
    /\ call = 0
    /\ pc = "idle"
    /\ count = 0
    /\ report = {}
    /\ written = [r \in Requests |-> {}]
    /\ outstanding = {}
    /\ returned = NoReport

(* getStats: clearReport(), pc_->GetStats(stats_callback_), count = 10.   *)
GetStats ==
    /\ pc # "polling"
    /\ call < MaxCalls
    /\ call' = call + 1
    /\ report' = {}
    /\ outstanding' = outstanding \cup {call + 1}
    /\ count' = Polls
    /\ pc' = "polling"
    /\ UNCHANGED <<written, returned>>

(* One test of while (getReport().empty() && (--count > 0)) sleep(1s):    *)
(* a non-empty report ends the loop without decrementing; otherwise count  *)
(* is decremented and the loop ends when it reaches 0.  On leaving, the    *)
(* report as it is at that moment is copied out.                           *)
PollReport ==
    /\ pc = "polling"
    /\ count' = IF report = {} THEN count - 1 ELSE count
    /\ IF report = {} /\ count - 1 > 0
         THEN UNCHANGED <<pc, returned>>
         ELSE /\ pc' = "returned"
              /\ returned' = report
    /\ UNCHANGED <<call, report, written, outstanding>>

(* OnStatsDelivered for request r stores one more stats object:           *)
(* report_[stats.id()] = statsMembers, replacing an entry of that id.      *)
OnStatsDelivered(r, e) ==
    /\ r \in outstanding
    /\ e \notin written[r]
    /\ report' = {x \in report : x[2] # e} \cup {<<r, e>>}
    /\ written' = [written EXCEPT ![r] = @ \cup {e}]
    /\ outstanding' = IF written'[r] = Entries THEN outstanding \ {r} ELSE outstanding
    /\ UNCHANGED <<call, pc, count, returned>>

Next ==
    \/ GetStats
    \/ PollReport
    \/ \E r \in Requests, e \in Entries : OnStatsDelivered(r, e)

Spec == Init /\ [][Next]_vars

-----------------------------------------------------------------------------
(* Properties *)

(* A non-empty report getStats returns is the whole report of its own      *)
(* request: neither part of one still being written by OnStatsDelivered    *)
(* nor entries a late delivery of an earlier call wrote.                   *)
ReturnedReportComplete ==
    pc = "returned" /\ returned # {} =>
        returned = {call} \X Entries

=============================================================================
