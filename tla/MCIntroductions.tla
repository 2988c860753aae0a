--------------------------- MODULE MCIntroductions ---------------------------
(***************************************************************************)
(* The two halves of an introduction.  RelayNeed decides whether a pair is *)
(* relayed and SessionURLs takes the decision as a choice, so a behaviour  *)
(* follows one of them, chosen at the start.                               *)
(***************************************************************************)
EXTENDS RelayNeed, SessionURLs

VARIABLE half   \* the half this behaviour follows

vars == <<needVars, urlVars, half>>

(* A volunteer of each kind, a pair of volunteers, and everybody. *)
Lists ==
  {[pids |-> {1}, forces |-> {}, ouvert |-> FALSE],
   [pids |-> {1}, forces |-> {2}, ouvert |-> FALSE],
   [pids |-> {}, forces |-> {}, ouvert |-> TRUE]}

(* Away from the loopback address the first is a title without options. *)
Title(preserve, reported, repoint, loopback) ==
  [preserveIdentity |-> preserve, reportedPort |-> reported, repoint |-> repoint, loopback |-> loopback]

MCTitles ==
  {Title(FALSE, FALSE, FALSE, TRUE), Title(FALSE, TRUE, TRUE, FALSE), Title(TRUE, FALSE, FALSE, FALSE)}

(* The networks: two households, one household, one machine, a host that       *)
(* reports the address of its peer, and VPN adapters in two households or one. *)
At(from, reports, overlay) == [from |-> from, reports |-> reports, overlay |-> overlay]

HostAndJoiner(h, j) == [c \in Consoles |-> IF c = "h" THEN h ELSE j]

MCNetworks ==
  {HostAndJoiner(At("here", Nothing, FALSE), At("there", Nothing, FALSE)),
   HostAndJoiner(At("here", Nothing, FALSE), At("here", "here", FALSE)),
   HostAndJoiner(At(Loopback, Nothing, FALSE), At(Loopback, Nothing, FALSE)),
   HostAndJoiner(At("there", "here", FALSE), At("here", Nothing, FALSE)),
   HostAndJoiner(At("here", Nothing, TRUE), At("there", Nothing, FALSE)),
   HostAndJoiner(At("here", Nothing, TRUE), At("here", Nothing, TRUE))}

MCTcp == [c \in Consoles |-> IF c = "h" THEN 10 ELSE 20]
MCUdp == [c \in Consoles |-> IF c = "h" THEN 11 ELSE 21]

NoUrls ==
  /\ title = Nothing /\ net = <<>> /\ alive = {} /\ natCache = Nothing
  /\ stations = <<>> /\ natFile = <<>> /\ call = <<>> /\ misled = Nothing

NoNeed ==
  /\ now = 0 /\ volunteers = Unknown /\ besoins = <<>> /\ vues = <<>> /\ gate = Unknown
  /\ intro = <<>> /\ causes = <<>> /\ success = <<>> /\ unearned = FALSE /\ verdicts = 0

Init ==
  \/ half = "need" /\ NeedInit /\ NoUrls
  \/ half = "urls" /\ UrlsInit /\ NoNeed

Next ==
  \/ half = "need" /\ NeedNext /\ UNCHANGED <<urlVars, half>>
  \/ half = "urls" /\ UrlsNext /\ UNCHANGED <<needVars, half>>

(* The goroutine of a waiting call sleeps for a bounded time. *)
Fairness ==
  \A c \in Consoles :
    WF_vars(half = "urls" /\ Poll(c) /\ UNCHANGED <<needVars, half>>)

Spec == Init /\ [][Next]_vars /\ Fairness

-----------------------------------------------------------------------------
(* A relayed pair has consented and has a cause: see GrantsEarned. *)
RelayEarned == half = "need" => GrantsEarned

(* See CandidatesNeverConnected. *)
CandidatesWithoutPath == half = "need" => CandidatesNeverConnected

(* See NeverPointsAtAsker. *)
PointsAtPeer == half = "urls" => NeverPointsAtAsker

(* A call that waits for the host's ReplaceURL is answered, by a host that  *)
(* never reports it, has left or reports late just as well, unless the      *)
(* caller leaves.                                                           *)
CallsAnswered ==
  \A c \in Consoles : (half = "urls" /\ call[c] # Nothing) ~> (half = "urls" => call[c] = Nothing)
=============================================================================
