----------------------------- MODULE PlainTeams -----------------------------
(***************************************************************************)
(* The programs whose threads share nothing they change, or have a cell    *)
(* each.                                                                   *)
(***************************************************************************)
EXTENDS TeamMain

PlainPrograms == {"private", "shared", "team", "hello", "lottery", "shotput"}

(* hello_iw_pri: the arrays are reserved by create_threads(), and nothing  *)
(* by main().                                                              *)
PrivateMain ==
  /\ Playing("private")
  /\ \/ ReadArguments(11, "arrays")
     \/ CreateAndJoin(22, "release")
     \/ Release

(* hello_iw_shr                                                            *)
SharedMain ==
  /\ Playing("shared")
  /\ \/ ReadArguments(11, "shared")
     \/ Obtain("shared", "shared", "arrays", 12, "exit")
     \/ CreateAndJoin(22, "release")
     \/ Release

(* create_thread_team: after a failure only the threads that were created  *)
(* are joined.                                                             *)
TeamsMain ==
  /\ Playing("team")
  /\ \/ ReadArguments(1, "arrays")
     \/ Obtain("arrays", "arrays", "create", 1, "exit")
     \/ Create("create", index + 1)
     \/ CreateFails(1, index)
     \/ CreatedAll("join")
     \/ JoinTeam("release")
     \/ Release

HelloMain ==
  /\ Playing("hello")
  /\ \/ GoOn("begin", "create", 0)
     \/ Create("join", 0)
     \/ Refuse("create", 1, "exit")
     \/ JoinTeam("exit")

(* greet() of those four.                                                  *)
Greet(i) == PrintLine(i, "start", "ended", i)

-----------------------------------------------------------------------------
(* grandma_lottery: the grandchildren return their numbers to the join.    *)

LotteryMain ==
  /\ Playing("lottery")
  /\ \/ GoOn("begin", "create", 0)
     \/ Create("create", index + 1)
     \/ CreateFailsUnseen("create", index + 1)
     \/ CreatedAll("join")
     \/ JoinTeam("print")
     \/ /\ Go("print", "exit")
        /\ said' = <<mine[0], mine[1]>>
        /\ UNCHANGED <<run, index, limit, status, refused, live, routine, sem, counter,
                       holder, mine, broke>>

BuyLottery(i) == \E number \in 0 .. MaxShot : Keep(i, "start", "ended", number)

-----------------------------------------------------------------------------
(* team_shot_put: athlete a of team t is thread t * Athletes + a.  A team's*)
(* arrays are reserved just before its first athlete and freed when its    *)
(* last is joined; nothing looks at the results of pthread_create().       *)

Athletes == run.count \div 2
Team(i)  == IF i < Athletes THEN "team1" ELSE "team2"

(* A whole team is joined and its arrays are still there.                  *)
ToDisband == {team \in live : \/ team = "team1" /\ index = Athletes
                              \/ team = "team2" /\ index = run.count}

Disband(to) ==
  /\ ToDisband # {}
  /\ Go("join", to)
  /\ live' = live \ ToDisband
  /\ UNCHANGED <<run, index, limit, status, refused, routine, sharedVars>>

Points(t) == Cardinality({a \in 0 .. Athletes - 1 :
               mine[t * Athletes + a] > mine[(1 - t) * Athletes + a]})

Winner == IF Points(0) > Points(1) THEN 1 ELSE IF Points(1) > Points(0) THEN 2 ELSE 0

PrintResult ==
  /\ Go("result", "release")
  /\ said' = Append(said, <<Points(0), Points(1), Winner>>)
  /\ UNCHANGED <<run, index, limit, status, refused, live, routine, sem, counter, holder,
                 mine, broke>>

(* main(), compete() and print_result().  Arguments that are refused, or an*)
(* even number of athletes, leave the exit status alone; a team whose      *)
(* arrays are refused fails an assertion.                                  *)
ShotPutMain ==
  /\ Playing("shotput")
  /\ \/ Athletes % 2 = 1 /\ ReadArguments(0, "matrix")
     \/ Athletes % 2 = 0 /\ Refuse("begin", 0, "exit")
     \/ Obtain("matrix", "matrix", "create", 0, "exit")
     \/ index \in {0, Athletes} /\ Team(index) \notin live
        /\ Obtain("create", Team(index), "create", 0, "crash")
     \/ Team(index) \in live /\ Create("create", index + 1)
     \/ Team(index) \in live /\ CreateFailsUnseen("create", index + 1)
     \/ CreatedAll("join")
     \/ ToDisband = {} /\ Join("join", "join", index + 1)
     \/ Disband(IF index = run.count THEN "result" ELSE "join")
     \/ PrintResult
     \/ Release

(* athlete(): the best of three shots.                                     *)
Athlete(i) == \E best \in 0 .. MaxShot : Keep(i, "start", "ended", best)

-----------------------------------------------------------------------------
PlainMain ==
  PrivateMain \/ SharedMain \/ TeamsMain \/ HelloMain \/ LotteryMain \/ ShotPutMain

PlainStep(i) ==
  \/ Playing("private") /\ Greet(i)
  \/ Playing("shared") /\ Greet(i)
  \/ Playing("team") /\ Greet(i)
  \/ Playing("hello") /\ Greet(i)
  \/ Playing("lottery") /\ BuyLottery(i)
  \/ Playing("shotput") /\ Athlete(i)
=============================================================================
