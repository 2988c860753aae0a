----------------------------- MODULE CommonData -----------------------------
(***************************************************************************)
(* The profiles of the Ranking protocol (ranking.go): each player deposits *)
(* an opaque block and asks for those of others.  commonDataStore is a     *)
(* sync.Map; ForgetCommonData takes a profile out without raising the      *)
(* flag, so it may come back with the next start.                          *)
(***************************************************************************)
EXTENDS WriteBehind, FiniteSets

CONSTANTS
  Owners,   \* players with a profile
  Blobs,    \* profiles of an accepted length
  commonDataMaxStored

ASSUME CommonDataAssumption == IsFiniteSet(Owners) /\ commonDataMaxStored \in Nat

NoProfiles == [p \in Owners |-> Absent]
Stored(t)  == {p \in Owners : t[p] # Absent}

CommonDataInit == WriteBehindInit(NoProfiles, NoProfiles)

(* Entries that do not decode are skipped; PutCommonData makes none. *)
commonDataInit == Load(disk) \/ LoadFails(NoProfiles)

PutCommonData(p, b) ==
  /\ ChangeThenMark([table EXCEPT ![p] = b])
  /\ UNCHANGED flusherVars

ForgetCommonData(p) ==
  /\ loaded /\ table' = [table EXCEPT ![p] = Absent]
  /\ UNCHANGED <<loaded, marking, dirty, flusherVars, diskVars>>

CollectProfiles ==
  /\ pc = "collect"
  /\ snap' = NoProfiles /\ todo' = Owners /\ pc' = "range"
  /\ UNCHANGED <<loaded, table, marking, dirty, diskVars>>

VisitProfile(p) ==
  /\ pc = "range" /\ p \in todo
  /\ todo' = todo \ {p}
  /\ snap' = IF Cardinality(Stored(snap)) < commonDataMaxStored
             THEN [snap EXCEPT ![p] = table[p]] ELSE snap
  /\ UNCHANGED <<loaded, table, marking, dirty, pc, diskVars>>

ProfilesVisited ==
  /\ pc = "range" /\ todo = {}
  /\ pc' = "write"
  /\ UNCHANGED <<loaded, table, marking, dirty, todo, snap, diskVars>>

CommonDataFlusher ==
  \/ SwapFlag \/ WriteFile \/ WriteFails
  \/ CollectProfiles
  \/ \E p \in Owners : VisitProfile(p)
  \/ ProfilesVisited

CommonDataNext ==
  \/ commonDataInit
  \/ \E p \in Owners, b \in Blobs : PutCommonData(p, b)
  \/ \E p \in Owners : ForgetCommonData(p)
  \/ MarkDirty
  \/ CommonDataFlusher
  \/ Crash(NoProfiles)

-----------------------------------------------------------------------------
(* Once nothing waits to be written, every profile in memory is in the      *)
(* file, as long as there is room for all of them.                          *)
ProfilesStored ==
  Quiet /\ Cardinality(Owners) <= commonDataMaxStored
    => \A p \in Stored(table) : disk[p] = table[p]
=============================================================================
