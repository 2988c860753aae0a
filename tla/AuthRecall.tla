----------------------------- MODULE AuthRecall -----------------------------
(***************************************************************************)
(* The account a console may inherit when it connects to the secure server *)
(* without a ticket (ticketgranting.go, processLoginRequest in             *)
(* endpoint.go): the one that last logged in from the same address, for    *)
(* authRecallTTL.  authPIDByIP is a sync.Map: each Load, Store and Delete  *)
(* is a step, and Range reads each address at some moment of its own.      *)
(*                                                                         *)
(* clock counts seconds, the unit in which the file keeps the time of a    *)
(* login; the account service that answers ResolveUser is external.        *)
(***************************************************************************)
EXTENDS WriteBehind, FiniteSets

CONSTANTS
  Hosts,            \* addresses of clients
  Accounts,         \* PIDs
  Consoles,         \* who logs in from where: pairs of an address and an account
  authRecallTTL,
  authRecallMax,    \* entries the file may hold
  MaxClock          \* bound of the instance

ASSUME AuthRecallAssumption ==
  /\ IsFiniteSet(Hosts) /\ authRecallMax \in Nat /\ MaxClock \in Nat
  /\ authRecallTTL \in 0 .. MaxClock
  /\ Consoles \subseteq Hosts \X Accounts

VARIABLES
  clock,
  seen,      \* RecallAuthPID of an address: the record it has loaded, or Absent
  expiring,  \* addresses whose loaded record the flusher has found expired
  logins,    \* history: when each account last logged in from each address
  foreign    \* history: the newest ticketless CONNECT inherited an account that had
             \* not logged in from its address within the TTL

authVars == <<clock, seen, expiring, logins, foreign>>

Never == MaxClock + 1

NoRecalls == [h \in Hosts |-> Absent]
NoLogins  == [h \in Hosts |-> [pid \in Accounts |-> Never]]
NotSeen   == [h \in Hosts |-> Absent]
Recalled(t) == {h \in Hosts : t[h] # Absent}

AuthRecallInit ==
  /\ WriteBehindInit(NoRecalls, NoRecalls)
  /\ clock = 0 /\ seen = NotSeen /\ expiring = {} /\ logins = NoLogins /\ foreign = FALSE

MintedHere(h, pid) == logins[h][pid] # Never /\ clock - logins[h][pid] <= authRecallTTL

Expired(rec) == clock - rec.at > authRecallTTL

(* authRecallInit leaves out what has expired. *)
authRecallInit ==
  /\ \/ Load([h \in Hosts |-> IF disk[h] # Absent /\ ~Expired(disk[h]) THEN disk[h] ELSE Absent])
     \/ LoadFails(NoRecalls)
  /\ UNCHANGED authVars

RememberAuthPID(h, pid) == ChangeThenMark([table EXCEPT ![h] = [pid |-> pid, at |-> clock]])

(* handleLogin and handleLoginWithContext: an account that is not resolved *)
(* changes nothing, and what fails after the record was made leaves it.    *)
handleLogin(h, pid) ==
  /\ RememberAuthPID(h, pid)
  /\ logins' = [logins EXCEPT ![h][pid] = clock]
  /\ UNCHANGED <<flusherVars, clock, seen, expiring, foreign>>

RecallAuthPID_OfAnyone(h) ==
  /\ loaded /\ seen[h] = Absent /\ \E g \in Recalled(table) :
       \/ /\ ~Expired(table[g])
          /\ foreign' = ~MintedHere(h, table[g].pid)
          /\ seen' = seen
       \/ Expired(table[g]) /\ seen' = [seen EXCEPT ![h] = table[g]] /\ foreign' = foreign
  /\ UNCHANGED <<loaded, table, marking, dirty, flusherVars, diskVars, clock, expiring, logins>>

(* A ticketless CONNECT: refused without a record of its address. *)
RecallAuthPID(h) ==
  /\ loaded /\ seen[h] = Absent /\ table[h] # Absent
  /\ \/ /\ ~Expired(table[h])
        /\ foreign' = ~MintedHere(h, table[h].pid)
        /\ seen' = seen
     \/ Expired(table[h]) /\ seen' = [seen EXCEPT ![h] = table[h]] /\ foreign' = foreign
  /\ UNCHANGED <<loaded, table, marking, dirty, flusherVars, diskVars, clock, expiring, logins>>

(* ... and its second half for an expired record: Delete, whatever is there now. *)
RecallForgets(h) ==
  /\ seen[h] # Absent
  /\ table' = [table EXCEPT ![h] = Absent] /\ seen' = [seen EXCEPT ![h] = Absent]
  /\ UNCHANGED <<loaded, marking, dirty, flusherVars, diskVars, clock, expiring, logins, foreign>>

CollectRecalls ==
  /\ pc = "collect"
  /\ snap' = NoRecalls /\ todo' = Hosts /\ pc' = "range"
  /\ UNCHANGED <<loaded, table, marking, dirty, diskVars, authVars>>

(* Range visits an address: into the copy, or expired and to be deleted. *)
RangeVisits(h) ==
  /\ pc = "range" /\ h \in todo /\ expiring = {}
  /\ todo' = todo \ {h}
  /\ IF table[h] # Absent /\ Expired(table[h])
     THEN expiring' = {h} /\ snap' = snap
     ELSE /\ snap' = IF Cardinality(Recalled(snap)) < authRecallMax
                     THEN [snap EXCEPT ![h] = table[h]] ELSE snap
          /\ expiring' = expiring
  /\ UNCHANGED <<loaded, table, marking, dirty, pc, diskVars, clock, seen, logins, foreign>>

RangeForgets(h) ==
  /\ h \in expiring
  /\ table' = [table EXCEPT ![h] = Absent] /\ expiring' = {}
  /\ UNCHANGED <<loaded, marking, dirty, flusherVars, diskVars, clock, seen, logins, foreign>>

RangeEnds ==
  /\ pc = "range" /\ todo = {} /\ expiring = {}
  /\ pc' = "write"
  /\ UNCHANGED <<loaded, table, marking, dirty, todo, snap, diskVars, authVars>>

Second ==
  /\ clock < MaxClock /\ clock' = clock + 1
  /\ UNCHANGED <<loaded, table, marking, dirty, flusherVars, diskVars,
                 seen, expiring, logins, foreign>>

AuthRecallCrash ==
  /\ Crash(NoRecalls)
  /\ seen' = NotSeen /\ expiring' = {}
  /\ UNCHANGED <<clock, logins, foreign>>

AuthRecallFlusher ==
  \/ (SwapFlag \/ WriteFile \/ WriteFails) /\ UNCHANGED authVars
  \/ CollectRecalls
  \/ \E h \in Hosts : RangeVisits(h) \/ RangeForgets(h)
  \/ RangeEnds

AuthRecallNext ==
  \/ authRecallInit
  \/ \E h \in Hosts, pid \in Accounts : <<h, pid>> \in Consoles /\ handleLogin(h, pid)
  \/ \E h \in Hosts : RecallAuthPID(h) \/ RecallForgets(h)
  \/ MarkDirty /\ UNCHANGED authVars
  \/ AuthRecallFlusher
  \/ Second
  \/ AuthRecallCrash

-----------------------------------------------------------------------------
(* Once nothing waits to be written, a login that can be recalled is in the *)
(* file with its time: it will be there after a restart.                    *)
RecallsSaved ==
  Quiet /\ Cardinality(Hosts) <= authRecallMax
    => \A h \in Recalled(table) : disk[h] = table[h]

(* A console without a ticket only ever becomes an account that some        *)
(* console logged in to from the same address, and not longer than the TTL  *)
(* ago; and what it may become is never a login older than the one the file *)
(* has for that address.  So it is through restarts with an older file,     *)
(* expired records on disk and races between a login, the flusher and the   *)
(* deletion of what has expired.  Consoles that share an address do inherit *)
(* each other's logins.                                                     *)
RecallsOfTheAddress ==
  /\ ~foreign
  /\ loaded => \A h \in Recalled(table) \cap Recalled(disk) : disk[h].at <= table[h].at
=============================================================================
