------------------------------ MODULE Profiles ------------------------------
(***************************************************************************)
(* The profiles of Super Mario Maker 2 (datastore_smm2.go,                 *)
(* datastore_smm2_persist.go).  smm2Profils is a sync.Map: Load, Store and *)
(* each visit of Range are steps.  smm2EcritureMu is held from before the  *)
(* Range until after the rename.  A profile is its outfit, its name (the   *)
(* Mii is treated alike) and its country (so are language and device).     *)
(***************************************************************************)
EXTENDS WriteThrough

CONSTANTS
  Makers,                     \* PIDs
  Outfits, Names, Countries,
  NoName                      \* an empty string in a request

Profile == [outfit : Outfits, name : Names, country : Countries]

ASSUME ProfilesAssumption ==
  /\ Absent \notin [pid : Makers] /\ Absent \notin [pid : Makers, profile : Profile]
  /\ \A bytes \in Unreadable : bytes \notin [Makers -> {Absent} \cup Profile]

NoProfiles == [p \in Makers |-> Absent]

ProfilesInit == WriteThroughInit(NoProfiles)

SMM2ChargerProfils == Start(IF file \in Unreadable THEN NoProfiles ELSE file)

RegisterUser(w, p, profile) ==
  /\ Begin(w, "save", [pid |-> p])
  /\ table' = [table EXCEPT ![p] = profile]
  /\ UNCHANGED <<up, modifie, snap, osVars, overlapped, faultVars>>

(* SyncUserProfile: loads the profile, changes the copy, stores it. *)
SyncUserProfile(w, p, outfit, name) ==
  /\ table[p] # Absent
  /\ Begin(w, "store",
           [pid |-> p, profile |-> [table[p] EXCEPT !.outfit = outfit,
                                                    !.name = IF name = NoName THEN @ ELSE name]])
  /\ UNCHANGED <<up, table, modifie, snap, osVars, overlapped, faultVars>>

StoreSynced(w) ==
  /\ pc[w] = "store"
  /\ table' = [table EXCEPT ![req[w].pid] = req[w].profile]
  /\ req' = [req EXCEPT ![w] = [pid |-> @.pid]]
  /\ Goto(w, "save")
  /\ UNCHANGED <<up, modifie, snap, osVars, overlapped, requests, faultVars>>

\* smm2EcritureMu: taken by the handler whose step is one of these.
Saving == {w \in Handlers : pc[w] \in {"range", "open", "fill", "rename"}}

LockSave_RangeFirst(w) ==
  /\ pc[w] = "save"
  /\ Goto(w, "range") /\ snap' = [snap EXCEPT ![w] = [p \in {} |-> Absent]]
  /\ UNCHANGED <<up, table, modifie, req, osVars, overlapped, requests, faultVars>>

LockSave(w) ==
  /\ pc[w] = "save" /\ Saving = {}
  /\ Goto(w, "range") /\ snap' = [snap EXCEPT ![w] = [p \in {} |-> Absent]]
  /\ UNCHANGED <<up, table, modifie, req, osVars, overlapped, requests, faultVars>>

RangeProfile(w, p) ==
  /\ pc[w] = "range" /\ p \notin DOMAIN snap[w]
  /\ snap' = [snap EXCEPT ![w] = [q \in DOMAIN @ \cup {p} |-> IF q = p THEN table[p] ELSE @[q]]]
  /\ Goto(w, IF DOMAIN snap'[w] = Makers THEN "open" ELSE "range")
  /\ UNCHANGED <<up, table, modifie, req, osVars, overlapped, requests, faultVars>>

(* A rename that fails: the temporary file is removed. *)
RenameFailsRemoves(w) ==
  /\ pc[w] = "rename" /\ Fails(w)
  /\ tmp' = NoFile
  /\ UNCHANGED <<up, table, modifie, fd, file, overlapped, requests, crashes>>

ProfilesCrash == Crash(NoProfiles)

ProfilesNext ==
  \/ SMM2ChargerProfils
  \/ \E w \in Handlers, p \in Makers :
       \/ \E profile \in Profile : RegisterUser(w, p, profile)
       \/ \E outfit \in Outfits, name \in Names \cup {NoName} : SyncUserProfile(w, p, outfit, name)
       \/ RangeProfile(w, p)
  \/ \E w \in Handlers : StoreSynced(w) \/ LockSave(w) \/ WriteSteps(w) \/ RenameFailsRemoves(w)
  \/ ProfilesCrash
=============================================================================
