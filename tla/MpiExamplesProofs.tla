-------------------------- MODULE MpiExamplesProofs --------------------------
(***************************************************************************)
(* Theorems about the MPI examples, for every number of processes, size of *)
(* the buffer and length of what is sent, whether or not sends wait for    *)
(* their receivers.  The invariant says, for each program, exactly which   *)
(* messages are in transit given where the processes are.                  *)
(***************************************************************************)
EXTENDS MpiExamples, FiniteSetTheorems, SequenceTheorems, WellFoundedInduction, TLAPS

Shape ==
  /\ run \in Runs
  /\ DOMAIN place = Ranks /\ DOMAIN value = Ranks /\ DOMAIN gathered = Ranks
  /\ DOMAIN channel = Ranks /\ \A r \in Ranks : DOMAIN channel[r] = Ranks
  /\ next \in Nat
  /\ run.program # "send" => job = "running"

(* hello_ord: the token of the chain is on its way to the first process    *)
(* that has not begun, and all before are done.                            *)
Continue == Message(1, "continue")

OrderedInv ==
  run.program = "ord" =>
    /\ \A r \in Ranks : place[r] \in {"begin", "greet", "continue", "end"}
    /\ \A r, s \in Ranks :
         channel[r][s] = IF s = r + 1 /\ place[r] = "end" /\ place[s] = "begin"
                         THEN <<Continue>> ELSE <<>>
    /\ \A q, r \in Ranks : q < r /\ place[r] # "begin" => place[q] = "end"
    /\ said \in Seq(Ranks \X {"hello"})
    /\ \A k \in 1 .. Len(said) : place[said[k][1]] \in {"continue", "end"}

(* hello_itm: the greeting of a process that is done is on its way or in   *)
(* its place, and process 0 has counted those in their places.             *)
Collected == {r \in Ranks \ {0} : gathered[r] # Nothing}

GatheredInv ==
  run.program = "itm" =>
    /\ place[0] \in {"begin", "gather", "print", "end"}
    /\ gathered[0] = IF place[0] = "begin" THEN Nothing ELSE 0
    /\ \A r \in Ranks \ {0} :
         /\ place[r] \in {"begin", "end"}
         /\ gathered[r] \in {Nothing, r}
         /\ gathered[r] = r => place[r] = "end"
    /\ \A r, s \in Ranks :
         channel[r][s] = IF s = 0 /\ r # 0 /\ place[r] = "end" /\ gathered[r] = Nothing
                         THEN <<Message(1, r)>> ELSE <<>>
    /\ next = Cardinality(Collected) + 1
    /\ place[0] \in {"print", "end"} => Collected = Ranks \ {0}
    /\ said \in Seq(Nat \X {"hello"})
    /\ place[0] \in {"begin", "gather"} => Len(said) = 0
    /\ place[0] = "print" => Len(said) < run.size
    /\ \A k \in 1 .. Len(said) : said[k][1] = k - 1

(* The ping-pong: the ball is in flight to the one that waits, or in the   *)
(* hands of one, and is not there before the first serve.                  *)
Ball == Message(1, "ball")

InFlight(r) ==
  /\ channel[r][Rival(r)] = <<Ball>> /\ channel[Rival(r)][r] = <<>>
  /\ place[r] = "play"
  /\ place[Rival(r)] = "play" \/ (r = 0 /\ place[1] = "begin")

InHands(r) ==
  /\ channel[r][Rival(r)] = <<>> /\ channel[Rival(r)][r] = <<>>
  /\ place[r] = "serve" /\ place[Rival(r)] = "play"

NotServed ==
  /\ channel[0][1] = <<>> /\ channel[1][0] = <<>>
  /\ place[0] = "begin" /\ place[1] \in {"begin", "play"}

BallInv == Plays => NotServed \/ \E r \in Ranks : InFlight(r) \/ InHands(r)

(* The test of the wrapper: what was sent and not yet received is in       *)
(* transit, each process that has received it has the whole of it, and     *)
(* each line is of a process that is done.                                 *)
Data == Message(Elements(run.type, run.length), run.length)

Ended == {r \in Ranks : place[r] = "end"}

TransferInv ==
  run.program = "send" /\ run.type # "other" =>
    /\ place[0] \in {"begin", "send", "print", "end"}
    /\ place[0] = "begin" => next = 1
    /\ next >= 1
    /\ \A r \in Ranks \ {0} :
         /\ place[r] \in {"begin", "print", "end"}
         /\ place[r] # "begin" => r < next /\ Data.elements <= Capacity
    /\ \A r \in Ranks : place[r] # "begin" => value[r] = run.length
    /\ \A r, s \in Ranks :
         channel[r][s] = IF r = 0 /\ s # 0 /\ s < next /\ place[s] = "begin"
                         THEN <<Data>> ELSE <<>>
    /\ said \in Seq(Ranks \X Nat)
    /\ Len(said) = Cardinality(Ended)
    /\ \A k \in 1 .. Len(said) : said[k][2] = run.length /\ said[k][1] \in Ended
    /\ \A k, l \in 1 .. Len(said) : said[k][1] = said[l][1] => k = l
    /\ job # "running" => Elements(run.type, run.length) > Buffer

UnknownInv ==
  run.program = "send" /\ run.type = "other" =>
    /\ \A r, s \in Ranks : channel[r][s] = <<>>
    /\ \A r \in Ranks : place[r] \in {"begin", "end"}
    /\ said = <<>> /\ job = "running"

IInv == Shape /\ OrderedInv /\ GatheredInv /\ BallInv /\ TransferInv /\ UnknownInv

-----------------------------------------------------------------------------
(* Processes, channels and lines.                                          *)

LEMMA RankFacts ==
  ASSUME Shape
  PROVE  /\ run.size \in Nat \ {0} /\ run.size <= MaxSize /\ run.length \in Nat
         /\ 0 \in Ranks /\ Ranks \subseteq Nat /\ \A r \in Ranks : r < run.size
         /\ IsFiniteSet(Ranks) /\ Cardinality(Ranks) = run.size
<1>1. run.size \in Nat \ {0} /\ run.size <= MaxSize /\ run.length \in Nat
  BY MpiExamplesAssumption DEF Shape, Runs
<1>2. 0 \in Int /\ run.size - 1 \in Int /\ ~ 0 > run.size - 1 /\ (run.size - 1) - 0 + 1 = run.size
  BY <1>1
<1>3. IsFiniteSet(Ranks) /\ Cardinality(Ranks) = run.size
  BY <1>2, FS_Interval DEF Ranks
<1>4. 0 \in Ranks /\ Ranks \subseteq Nat /\ \A r \in Ranks : r < run.size
  BY <1>1 DEF Ranks
<1> QED BY <1>1, <1>3, <1>4

LEMMA SendAppends ==
  ASSUME Shape, NEW r \in Ranks, NEW s \in Ranks, NEW message, Send(r, s, message)
  PROVE  /\ DOMAIN channel' = Ranks /\ \A a \in Ranks : DOMAIN channel'[a] = Ranks
         /\ \A a, b \in Ranks :
              channel'[a][b] = IF a = r /\ b = s THEN Append(channel[r][s], message)
                               ELSE channel[a][b]
BY DEF Send, Shape

LEMMA TakeRemoves ==
  ASSUME Shape, NEW r \in Ranks, NEW s \in Ranks, NEW capacity, Take(r, s, capacity)
  PROVE  /\ channel[s][r] # <<>> /\ Head(channel[s][r]).elements <= capacity
         /\ DOMAIN channel' = Ranks /\ \A a \in Ranks : DOMAIN channel'[a] = Ranks
         /\ \A a, b \in Ranks :
              channel'[a][b] = IF a = s /\ b = r THEN Tail(channel[s][r]) ELSE channel[a][b]
BY DEF Take, Arrived, Shape

LEMMA OneMessage ==
  ASSUME NEW message
  PROVE  Append(<<>>, message) = <<message>> /\ Head(<<message>>) = message
         /\ Tail(<<message>>) = <<>> /\ <<message>> # <<>>
OBVIOUS

LEMMA GoMoves ==
  ASSUME Shape, NEW r \in Ranks, NEW from, NEW to, Go(r, from, to)
  PROVE  /\ place[r] = from /\ job = "running" /\ UNCHANGED <<run, job>> /\ Ranks' = Ranks
         /\ DOMAIN place' = Ranks
         /\ place'[r] = to /\ \A q \in Ranks : q # r => place'[q] = place[q]
BY DEF Go, Shape, Ranks

LEMMA LineAdded ==
  ASSUME NEW S, said \in Seq(S), NEW line \in S, said' = Append(said, line)
  PROVE  /\ said' \in Seq(S) /\ Len(said') = Len(said) + 1 /\ Len(said) \in Nat
         /\ \A k \in 1 .. Len(said) : said'[k] = said[k]
         /\ said'[Len(said) + 1] = line
BY AppendProperties, LenProperties

LEMMA InitIInv == Init => IInv
<1> SUFFICES ASSUME Init PROVE IInv
  OBVIOUS
<1>1. Shape
  BY DEF Init, Shape
<1>2. OrderedInv
  BY <1>1, RankFacts DEF Init, OrderedInv
<1>3. GatheredInv
  <2>1. Collected = {}
    BY DEF Init, Collected
  <2>2. Cardinality(Collected) = 0
    BY <2>1, FS_EmptySet
  <2> QED BY <1>1, <2>1, <2>2, RankFacts DEF Init, GatheredInv, Nothing
<1>4. BallInv
  <2> SUFFICES ASSUME Plays PROVE NotServed
    BY DEF BallInv
  <2>1. 0 \in Ranks /\ 1 \in Ranks
    BY DEF Plays, Ranks
  <2> QED BY <2>1 DEF Init, NotServed
<1>5. TransferInv
  <2>1. Ended = {}
    BY DEF Init, Ended
  <2>2. Cardinality(Ended) = 0
    BY <2>1, FS_EmptySet
  <2>3. \A r, s \in Ranks : channel[r][s] = <<>>
    BY DEF Init
  <2> QED BY <1>1, <2>2, <2>3, RankFacts DEF Init, TransferInv
<1>6. UnknownInv
  BY DEF Init, UnknownInv
<1> QED BY <1>1, <1>2, <1>3, <1>4, <1>5, <1>6 DEF IInv

(* A step of a process keeps what all the programs share.                  *)
LEMMA ShapeKept ==
  ASSUME Shape, NEW r \in Ranks, Process(r)
  PROVE  Shape' /\ run' = run /\ Ranks' = Ranks
<1>1. run' = run
  BY DEF Process, OrderedHello, WaitForPrevious, GreetAndContinue, GatheredHello, PingPong,
     PlayPingPong, SendTest, Read, Overrun, SendToNext, SentToAll, Receive, Truncated, PrintData,
     UnknownType, Go, Interrupt
<1>2. Ranks' = Ranks
  BY <1>1 DEF Ranks
<1>3. DOMAIN place' = Ranks /\ (run.program # "send" => job' = job)
  BY DEF Process, OrderedHello, WaitForPrevious, GreetAndContinue, GatheredHello, PingPong,
     PlayPingPong, SendTest, Read, Overrun, SendToNext, SentToAll, Receive, Truncated, PrintData,
     UnknownType, Go, Interrupt, Shape
<1>4. DOMAIN value' = Ranks /\ DOMAIN gathered' = Ranks /\ next' \in Nat
  BY DEF Process, OrderedHello, WaitForPrevious, GreetAndContinue, GatheredHello, PingPong,
     PlayPingPong, SendTest, Read, Overrun, SendToNext, SentToAll, Receive, Truncated, PrintData,
     UnknownType, Interrupt, Shape
<1> DEFINE Domains == DOMAIN channel' = Ranks /\ \A q \in Ranks : DOMAIN channel'[q] = Ranks
<1>5. Domains
  <2>1. ASSUME UNCHANGED channel PROVE Domains
    BY <2>1 DEF Shape
  <2>2. ASSUME NEW s, NEW message, Send(r, s, message) PROVE Domains
    BY <2>2 DEF Send, Shape
  <2>3. ASSUME NEW q \in Ranks, NEW s, NEW capacity, Take(q, s, capacity) PROVE Domains
    BY <2>3 DEF Take, Shape
  <2>4. \/ UNCHANGED channel
        \/ \E s, message : Send(r, s, message)
        \/ \E s, capacity : Take(r, s, capacity)
    BY DEF Process, OrderedHello, WaitForPrevious, GreetAndContinue, GatheredHello, PingPong,
       PlayPingPong, SendTest, Read, Overrun, SendToNext, SentToAll, Receive, Truncated,
       PrintData, UnknownType, Interrupt
  <2> QED BY <2>1, <2>2, <2>3, <2>4
<1> QED BY <1>1, <1>2, <1>3, <1>4, <1>5 DEF Shape

LEMMA OrderedStep ==
  ASSUME Shape, OrderedInv, NEW r \in Ranks, OrderedHello(r)
  PROVE  OrderedInv'
<1>1. run.program = "ord" /\ Shape' /\ run' = run /\ Ranks' = Ranks
  BY ShapeKept DEF Process, OrderedHello
<1>2. Ranks \subseteq Nat /\ run.size \in Nat /\ \A q \in Ranks : q < run.size
  BY RankFacts
<1> DEFINE Token(q, s) == s = q + 1 /\ place[q] = "end" /\ place[s] = "begin"
<1>3. /\ \A q \in Ranks : place[q] \in {"begin", "greet", "continue", "end"}
      /\ \A q, s \in Ranks : channel[q][s] = IF Token(q, s) THEN <<Continue>> ELSE <<>>
      /\ \A q, s \in Ranks : q < s /\ place[s] # "begin" => place[q] = "end"
      /\ said \in Seq(Ranks \X {"hello"})
      /\ \A k \in 1 .. Len(said) : place[said[k][1]] \in {"continue", "end"}
  BY <1>1 DEF OrderedInv
<1>4. CASE WaitForPrevious(r)
  <2>1. Go(r, "begin", "greet") /\ said' = said
    BY <1>4 DEF WaitForPrevious
  <2>2. /\ place[r] = "begin" /\ place'[r] = "greet"
        /\ \A q \in Ranks : q # r => place'[q] = place[q]
    BY <2>1, GoMoves
  <2>3. r # 0 => r - 1 \in Ranks /\ Token(r - 1, r)
    <3>1. SUFFICES ASSUME r # 0 PROVE r - 1 \in Ranks /\ Token(r - 1, r)
      OBVIOUS
    <3>2. r - 1 \in Ranks /\ Take(r, r - 1, 1)
      BY <1>2, <1>4, <3>1 DEF WaitForPrevious, Ranks
    <3>3. channel[r - 1][r] # <<>>
      BY <3>2 DEF Take, Arrived
    <3> QED BY <1>3, <3>2, <3>3
  <2>4. ASSUME NEW q \in Ranks, q < r PROVE place[q] = "end"
    <3>1. r \in Nat /\ q \in Nat /\ r # 0
      BY <1>2, <2>4
    <3>2. r - 1 \in Ranks /\ place[r - 1] = "end"
      BY <2>3, <3>1
    <3>3. q = r - 1 \/ q < r - 1
      BY <2>4, <3>1
    <3>4. CASE q < r - 1
      <4>1. place[r - 1] # "begin"
        BY <3>2
      <4> QED BY <1>3, <3>2, <3>4, <4>1
    <3> QED BY <3>2, <3>3, <3>4
  <2>5. \A q, s \in Ranks : channel'[q][s] = IF Token(q, s) /\ s # r THEN <<Continue>> ELSE <<>>
    <3>1. CASE r = 0
      <4>1. channel' = channel /\ \A q, s \in Ranks : Token(q, s) => s # 0
        BY <1>2, <1>4, <3>1 DEF WaitForPrevious
      <4> QED BY <1>3, <3>1, <4>1
    <3>2. CASE r # 0
      <4>1. Take(r, r - 1, 1) /\ r - 1 \in Ranks
        BY <1>4, <2>3, <3>2 DEF WaitForPrevious
      <4>2. \A q, s \in Ranks :
              channel'[q][s] = IF q = r - 1 /\ s = r THEN Tail(channel[r - 1][r])
                               ELSE channel[q][s]
        BY <4>1, TakeRemoves
      <4>3. Tail(channel[r - 1][r]) = <<>>
        <5>1. channel[r - 1][r] = <<Continue>>
          BY <1>3, <2>3, <3>2
        <5> QED BY <5>1, OneMessage
      <4>4. \A q \in Ranks : Token(q, r) => q = r - 1
        BY <1>2
      <4> HIDE DEF Token
      <4> TAKE q, s \in Ranks
      <4>5. CASE q = r - 1 /\ s = r
        BY <4>2, <4>3, <4>5
      <4>6. CASE ~ (q = r - 1 /\ s = r)
        <5>1. channel'[q][s] = channel[q][s]
          BY <4>2, <4>6
        <5>2. ~ (Token(q, s) /\ s = r)
          BY <4>4, <4>6
        <5>3. channel[q][s] = IF Token(q, s) THEN <<Continue>> ELSE <<>>
          BY <1>3
        <5> QED BY <5>1, <5>2, <5>3
      <4> QED BY <4>5, <4>6
    <3> QED BY <3>1, <3>2
  <2>6. \A q, s \in Ranks :
          (s = q + 1 /\ place'[q] = "end" /\ place'[s] = "begin") <=> (Token(q, s) /\ s # r)
    BY <2>2
  <2>7. \A q, s \in Ranks : channel'[q][s] = IF s = q + 1 /\ place'[q] = "end" /\ place'[s] = "begin"
                                            THEN <<Continue>> ELSE <<>>
    BY <2>5, <2>6
  <2>8. \A q, s \in Ranks : q < s /\ place'[s] # "begin" => place'[q] = "end"
    BY <1>2, <1>3, <2>2, <2>4
  <2>9. \A k \in 1 .. Len(said') : place'[said'[k][1]] \in {"continue", "end"}
    BY <1>3, <2>1, <2>2, ElementOfSeq
  <2> QED BY <1>1, <1>3, <2>1, <2>2, <2>7, <2>8, <2>9 DEF OrderedInv
<1>5. CASE GreetAndContinue(r) /\ place[r] = "greet"
  <2>1. Go(r, "greet", "continue") /\ Say(r, "hello") /\ channel' = channel
    BY <1>5 DEF GreetAndContinue, Go
  <2>2. /\ place'[r] = "continue" /\ \A q \in Ranks : q # r => place'[q] = place[q]
    BY <2>1, GoMoves
  <2>3. \A q, s \in Ranks :
          (s = q + 1 /\ place'[q] = "end" /\ place'[s] = "begin") <=> Token(q, s)
    BY <1>5, <2>2
  <2>4. \A q, s \in Ranks : channel'[q][s] = IF s = q + 1 /\ place'[q] = "end" /\ place'[s] = "begin"
                                            THEN <<Continue>> ELSE <<>>
    BY <1>3, <2>1, <2>3
  <2>5. \A q, s \in Ranks : q < s /\ place'[s] # "begin" => place'[q] = "end"
    BY <1>2, <1>3, <1>5, <2>2
  <2>6. <<r, "hello">> \in Ranks \X {"hello"} /\ said' = Append(said, <<r, "hello">>)
    BY <2>1 DEF Say
  <2>7. /\ said' \in Seq(Ranks \X {"hello"}) /\ Len(said') = Len(said) + 1 /\ Len(said) \in Nat
        /\ \A k \in 1 .. Len(said) : said'[k] = said[k]
        /\ said'[Len(said) + 1] = <<r, "hello">>
    BY <1>3, <2>6, LineAdded
  <2>8. \A k \in 1 .. Len(said) : said[k][1] \in Ranks
    BY <1>3, ElementOfSeq
  <2>9. \A k \in 1 .. Len(said') : place'[said'[k][1]] \in {"continue", "end"}
    <3> TAKE k \in 1 .. Len(said')
    <3>1. CASE k \in 1 .. Len(said)
      BY <1>3, <1>5, <2>2, <2>7, <2>8, <3>1
    <3>2. CASE k = Len(said) + 1
      BY <2>2, <2>7, <3>2
    <3> QED BY <2>7, <3>1, <3>2
  <2> QED BY <1>1, <1>3, <2>2, <2>4, <2>5, <2>7, <2>9 DEF OrderedInv
<1>6. CASE GreetAndContinue(r) /\ place[r] # "greet"
  <2>1. /\ Go(r, "continue", "end") /\ said' = said
        /\ IF r < run.size - 1 THEN Send(r, r + 1, Continue) ELSE UNCHANGED channel
    BY <1>6 DEF GreetAndContinue, Go, Continue
  <2>2. /\ place[r] = "continue" /\ place'[r] = "end"
        /\ \A q \in Ranks : q # r => place'[q] = place[q]
    BY <2>1, GoMoves
  <2>3. \A s \in Ranks : r < s => place[s] = "begin"
    BY <1>3, <2>2
  <2>4. \A q, s \in Ranks :
          (s = q + 1 /\ place'[q] = "end" /\ place'[s] = "begin")
            <=> Token(q, s) \/ (q = r /\ s = r + 1)
    BY <1>2, <2>2, <2>3
  <2>5. \A q, s \in Ranks :
          channel'[q][s] = IF Token(q, s) \/ (q = r /\ s = r + 1) THEN <<Continue>> ELSE <<>>
    <3>1. CASE r + 1 \in Ranks
      <4>1. Send(r, r + 1, Continue)
        BY <1>2, <2>1, <3>1 DEF Ranks
      <4>2. \A q, s \in Ranks :
              channel'[q][s] = IF q = r /\ s = r + 1 THEN Append(channel[r][r + 1], Continue)
                               ELSE channel[q][s]
        BY <3>1, <4>1, SendAppends
      <4>3. channel[r][r + 1] = <<>>
        BY <1>3, <2>2, <3>1
      <4>4. Append(channel[r][r + 1], Continue) = <<Continue>>
        BY <4>3, OneMessage
      <4> QED BY <1>3, <4>2, <4>4
    <3>2. CASE r + 1 \notin Ranks
      <4>1. channel' = channel
        BY <1>2, <2>1, <3>2 DEF Ranks
      <4> QED BY <1>3, <3>2, <4>1
    <3> QED BY <3>1, <3>2
  <2>6. \A q, s \in Ranks : channel'[q][s] = IF s = q + 1 /\ place'[q] = "end" /\ place'[s] = "begin"
                                            THEN <<Continue>> ELSE <<>>
    BY <2>4, <2>5
  <2>7. \A q, s \in Ranks : q < s /\ place'[s] # "begin" => place'[q] = "end"
    BY <1>2, <1>3, <2>2, <2>3
  <2>8. \A k \in 1 .. Len(said') : place'[said'[k][1]] \in {"continue", "end"}
    BY <1>3, <2>1, <2>2, ElementOfSeq
  <2> QED BY <1>1, <1>3, <2>1, <2>2, <2>6, <2>7, <2>8 DEF OrderedInv
<1> QED BY <1>4, <1>5, <1>6 DEF OrderedHello

LEMMA CollectedFinite ==
  ASSUME Shape
  PROVE  /\ IsFiniteSet(Collected) /\ Cardinality(Collected) \in Nat
         /\ Cardinality(Collected) = run.size - 1 => Collected = Ranks \ {0}
<1>1. IsFiniteSet(Ranks \ {0}) /\ Cardinality(Ranks \ {0}) = run.size - 1
  BY RankFacts, FS_RemoveElement
<1>2. Collected \in SUBSET (Ranks \ {0})
  BY DEF Collected
<1> QED BY <1>1, <1>2, FS_Subset, FS_CardinalityType

LEMMA GatheredStep ==
  ASSUME Shape, GatheredInv, NEW r \in Ranks, GatheredHello(r)
  PROVE  GatheredInv'
<1>1. run.program = "itm" /\ Shape' /\ run' = run /\ Ranks' = Ranks
  BY ShapeKept DEF Process, GatheredHello
<1>2. 0 \in Ranks /\ Ranks \subseteq Nat /\ run.size \in Nat \ {0} /\ \A q \in Ranks : q < run.size
  BY RankFacts
<1> DEFINE Sent(q, s) == s = 0 /\ q # 0 /\ place[q] = "end" /\ gathered[q] = Nothing
<1>3. /\ place[0] \in {"begin", "gather", "print", "end"}
      /\ gathered[0] = IF place[0] = "begin" THEN Nothing ELSE 0
      /\ \A q \in Ranks \ {0} :
           /\ place[q] \in {"begin", "end"}
           /\ gathered[q] \in {Nothing, q}
           /\ gathered[q] = q => place[q] = "end"
      /\ \A q, s \in Ranks : channel[q][s] = IF Sent(q, s) THEN <<Message(1, q)>> ELSE <<>>
      /\ next = Cardinality(Collected) + 1
      /\ place[0] \in {"print", "end"} => Collected = Ranks \ {0}
      /\ said \in Seq(Nat \X {"hello"})
      /\ place[0] \in {"begin", "gather"} => Len(said) = 0
      /\ place[0] = "print" => Len(said) < run.size
      /\ \A k \in 1 .. Len(said) : said[k][1] = k - 1
  BY <1>1 DEF GatheredInv
<1>4. \A q \in Ranks : q # Nothing
  BY <1>2 DEF Nothing
<1>5. ASSUME r # 0, Go(r, "begin", "end"), Send(r, 0, Message(1, r)),
             UNCHANGED <<next, value, gathered, said>>
      PROVE  GatheredInv'
  <2>1. /\ place[r] = "begin" /\ place'[r] = "end"
        /\ \A q \in Ranks : q # r => place'[q] = place[q]
    BY <1>5, GoMoves
  <2>2. gathered[r] = Nothing
    BY <1>3, <1>5, <2>1
  <2>3. Collected' = Collected
    BY <1>1, <1>5 DEF Collected
  <2>4. \A q, s \in Ranks :
          (s = 0 /\ q # 0 /\ place'[q] = "end" /\ gathered'[q] = Nothing)
            <=> Sent(q, s) \/ (q = r /\ s = 0)
    BY <1>5, <2>1, <2>2
  <2>5. \A q, s \in Ranks :
          channel'[q][s] = IF Sent(q, s) \/ (q = r /\ s = 0) THEN <<Message(1, q)>> ELSE <<>>
    <3>1. \A q, s \in Ranks :
            channel'[q][s] = IF q = r /\ s = 0 THEN Append(channel[r][0], Message(1, r))
                             ELSE channel[q][s]
      BY <1>2, <1>5, SendAppends
    <3>2. channel[r][0] = <<>>
      BY <1>2, <1>3, <2>1
    <3>3. Append(channel[r][0], Message(1, r)) = <<Message(1, r)>>
      BY <3>2, OneMessage
    <3>4. \A q, s \in Ranks : channel[q][s] = IF Sent(q, s) THEN <<Message(1, q)>> ELSE <<>>
      BY <1>3
    <3> HIDE DEF Sent
    <3> TAKE q, s \in Ranks
    <3>5. CASE q = r /\ s = 0
      BY <3>1, <3>3, <3>5
    <3>6. CASE ~ (q = r /\ s = 0)
      BY <3>1, <3>4, <3>6
    <3> QED BY <3>5, <3>6
  <2>6. \A q, s \in Ranks :
          channel'[q][s] = IF s = 0 /\ q # 0 /\ place'[q] = "end" /\ gathered'[q] = Nothing
                           THEN <<Message(1, q)>> ELSE <<>>
    BY <2>4, <2>5
  <2> HIDE DEF Sent
  <2>7. place'[0] = place[0] /\ gathered' = gathered /\ next' = next /\ said' = said
    BY <1>2, <1>5, <2>1
  <2>8. \A q \in Ranks \ {0} :
          /\ place'[q] \in {"begin", "end"}
          /\ gathered'[q] \in {Nothing, q}
          /\ gathered'[q] = q => place'[q] = "end"
    BY <1>3, <2>1, <2>7
  <2> QED BY <1>1, <1>3, <2>3, <2>6, <2>7, <2>8 DEF GatheredInv
<1>6. ASSUME r = 0, Go(0, "begin", "gather"), gathered' = [gathered EXCEPT ![0] = 0],
             UNCHANGED <<next, channel, value, said>>
      PROVE  GatheredInv'
  <2>1. /\ place[0] = "begin" /\ place'[0] = "gather"
        /\ \A q \in Ranks : q # 0 => place'[q] = place[q]
    BY <1>2, <1>6, GoMoves
  <2>2. gathered'[0] = 0 /\ \A q \in Ranks : q # 0 => gathered'[q] = gathered[q]
    BY <1>2, <1>6 DEF Shape
  <2>3. Collected' = Collected
    BY <1>1, <2>2 DEF Collected
  <2>4. \A q, s \in Ranks :
          (s = 0 /\ q # 0 /\ place'[q] = "end" /\ gathered'[q] = Nothing) <=> Sent(q, s)
    BY <2>1, <2>2
  <2>5. \A q, s \in Ranks :
          channel'[q][s] = IF s = 0 /\ q # 0 /\ place'[q] = "end" /\ gathered'[q] = Nothing
                           THEN <<Message(1, q)>> ELSE <<>>
    BY <1>3, <1>6, <2>4
  <2> HIDE DEF Sent
  <2>6. \A q \in Ranks \ {0} :
          /\ place'[q] \in {"begin", "end"}
          /\ gathered'[q] \in {Nothing, q}
          /\ gathered'[q] = q => place'[q] = "end"
    BY <1>3, <2>1, <2>2
  <2> QED BY <1>1, <1>3, <1>6, <2>1, <2>2, <2>3, <2>5, <2>6 DEF GatheredInv
<1>7. ASSUME r = 0, Go(0, "gather", "gather"), NEW p \in Ranks \ {0}, Take(0, p, 1),
             gathered' = [gathered EXCEPT ![p] = Head(channel[p][0]).content],
             next' = next + 1, UNCHANGED <<value, said>>
      PROVE  GatheredInv'
  <2>1. place[0] = "gather" /\ \A q \in Ranks : place'[q] = place[q]
    BY <1>2, <1>7, GoMoves
  <2>2. /\ channel[p][0] # <<>>
        /\ \A q, s \in Ranks :
             channel'[q][s] = IF q = p /\ s = 0 THEN Tail(channel[p][0]) ELSE channel[q][s]
    BY <1>2, <1>7, TakeRemoves
  <2>3. Sent(p, 0) /\ channel[p][0] = <<Message(1, p)>>
    BY <1>2, <1>3, <1>7, <2>2
  <2>4. Tail(channel[p][0]) = <<>> /\ Head(channel[p][0]).content = p
    BY <2>3, OneMessage DEF Message
  <2>5. gathered'[p] = p /\ \A q \in Ranks : q # p => gathered'[q] = gathered[q]
    BY <1>7, <2>4 DEF Shape
  <2>6. Collected' = Collected \union {p} /\ p \notin Collected
    BY <1>1, <1>4, <1>7, <2>3, <2>5 DEF Collected
  <2>7. next' = Cardinality(Collected') + 1
    BY <1>3, <1>7, <2>6, CollectedFinite, FS_AddElement
  <2>8. \A q, s \in Ranks :
          (s = 0 /\ q # 0 /\ place'[q] = "end" /\ gathered'[q] = Nothing)
            <=> Sent(q, s) /\ ~ (q = p /\ s = 0)
    BY <1>4, <1>7, <2>1, <2>5
  <2>9. \A q, s \in Ranks :
          channel'[q][s] = IF Sent(q, s) /\ ~ (q = p /\ s = 0) THEN <<Message(1, q)>> ELSE <<>>
    <3>1. \A q, s \in Ranks : channel[q][s] = IF Sent(q, s) THEN <<Message(1, q)>> ELSE <<>>
      BY <1>3
    <3> HIDE DEF Sent
    <3> TAKE q, s \in Ranks
    <3>2. CASE q = p /\ s = 0
      BY <2>2, <2>4, <3>2
    <3>3. CASE ~ (q = p /\ s = 0)
      BY <2>2, <3>1, <3>3
    <3> QED BY <3>2, <3>3
  <2>10. \A q, s \in Ranks :
          channel'[q][s] = IF s = 0 /\ q # 0 /\ place'[q] = "end" /\ gathered'[q] = Nothing
                           THEN <<Message(1, q)>> ELSE <<>>
    BY <2>8, <2>9
  <2>11. \A q \in Ranks \ {0} :
          /\ place'[q] \in {"begin", "end"}
          /\ gathered'[q] \in {Nothing, q}
          /\ gathered'[q] = q => place'[q] = "end"
    BY <1>3, <2>1, <2>3, <2>5
  <2> HIDE DEF Sent
  <2> QED BY <1>1, <1>2, <1>3, <1>7, <2>1, <2>5, <2>7, <2>10, <2>11 DEF GatheredInv
<1>8. ASSUME r = 0, next = run.size, Go(0, "gather", "print"),
             UNCHANGED <<next, channel, value, gathered, said>>
      PROVE  GatheredInv'
  <2>1. /\ place[0] = "gather" /\ place'[0] = "print"
        /\ \A q \in Ranks : q # 0 => place'[q] = place[q]
    BY <1>2, <1>8, GoMoves
  <2>2. Collected' = Collected
    BY <1>1, <1>8 DEF Collected
  <2>3. Collected = Ranks \ {0}
    BY <1>2, <1>3, <1>8, CollectedFinite
  <2>4. \A q, s \in Ranks :
          (s = 0 /\ q # 0 /\ place'[q] = "end" /\ gathered'[q] = Nothing) <=> Sent(q, s)
    BY <1>8, <2>1
  <2>5. \A q, s \in Ranks :
          channel'[q][s] = IF s = 0 /\ q # 0 /\ place'[q] = "end" /\ gathered'[q] = Nothing
                           THEN <<Message(1, q)>> ELSE <<>>
    BY <1>3, <1>8, <2>4
  <2>6. \A q \in Ranks \ {0} :
          /\ place'[q] \in {"begin", "end"}
          /\ gathered'[q] \in {Nothing, q}
          /\ gathered'[q] = q => place'[q] = "end"
    BY <1>3, <1>8, <2>1
  <2> HIDE DEF Sent
  <2> QED BY <1>1, <1>2, <1>3, <1>8, <2>1, <2>2, <2>3, <2>5, <2>6 DEF GatheredInv
<1>9. ASSUME Go(r, "print", IF Len(said) + 1 = run.size THEN "end" ELSE "print"),
             said' = Append(said, <<gathered[Len(said)], "hello">>),
             UNCHANGED <<next, channel, value, gathered>>
      PROVE  GatheredInv'
  <2>1. /\ place[r] = "print"
        /\ place'[r] = IF Len(said) + 1 = run.size THEN "end" ELSE "print"
        /\ \A q \in Ranks : q # r => place'[q] = place[q]
    BY <1>9, GoMoves
  <2>2. r = 0
    BY <1>3, <2>1
  <2>3. Collected' = Collected /\ Collected = Ranks \ {0}
    BY <1>1, <1>3, <1>9, <2>1, <2>2 DEF Collected
  <2>4. Len(said) \in Nat /\ Len(said) < run.size /\ Len(said) \in Ranks
    <3>1. Len(said) \in Nat /\ Len(said) < run.size
      BY <1>3, <2>1, <2>2, LenProperties
    <3> QED BY <1>2, <3>1 DEF Ranks
  <2>5. gathered[Len(said)] = Len(said)
    <3>1. CASE Len(said) = 0
      BY <1>3, <2>1, <2>2, <3>1
    <3>2. CASE Len(said) # 0
      BY <1>3, <2>3, <2>4, <3>2 DEF Collected
    <3> QED BY <3>1, <3>2
  <2>6. <<Len(said), "hello">> \in Nat \X {"hello"}
    BY <2>4
  <2>7. /\ said' \in Seq(Nat \X {"hello"}) /\ Len(said') = Len(said) + 1
        /\ \A k \in 1 .. Len(said) : said'[k] = said[k]
        /\ said'[Len(said) + 1] = <<Len(said), "hello">>
    <3>1. said' = Append(said, <<Len(said), "hello">>)
      BY <1>9, <2>5
    <3>2. said \in Seq(Nat \X {"hello"})
      BY <1>3
    <3> QED BY <2>6, <3>1, <3>2, LineAdded
  <2>8. \A k \in 1 .. Len(said') : said'[k][1] = k - 1
    <3> TAKE k \in 1 .. Len(said')
    <3>1. k \in 1 .. Len(said) \/ k = Len(said) + 1
      BY <2>4, <2>7
    <3>2. CASE k \in 1 .. Len(said)
      BY <1>3, <2>7, <3>2
    <3>3. CASE k = Len(said) + 1
      <4>1. said'[k] = <<Len(said), "hello">>
        BY <2>7, <3>3
      <4>2. said'[k][1] = Len(said)
        BY <4>1
      <4> QED BY <2>4, <3>3, <4>2
    <3> QED BY <3>1, <3>2, <3>3
  <2>9. \A q, s \in Ranks :
          (s = 0 /\ q # 0 /\ place'[q] = "end" /\ gathered'[q] = Nothing) <=> Sent(q, s)
    BY <1>9, <2>1, <2>2
  <2>10. \A q, s \in Ranks :
          channel'[q][s] = IF s = 0 /\ q # 0 /\ place'[q] = "end" /\ gathered'[q] = Nothing
                           THEN <<Message(1, q)>> ELSE <<>>
    BY <1>3, <1>9, <2>9
  <2>11. \A q \in Ranks \ {0} :
          /\ place'[q] \in {"begin", "end"}
          /\ gathered'[q] \in {Nothing, q}
          /\ gathered'[q] = q => place'[q] = "end"
    BY <1>3, <1>9, <2>1, <2>2
  <2> HIDE DEF Sent
  <2>12. place'[0] \in {"print", "end"} /\ (place'[0] = "print" => Len(said') < run.size)
    BY <1>2, <2>1, <2>2, <2>4, <2>7
  <2> QED BY <1>1, <1>3, <1>9, <2>1, <2>2, <2>3, <2>7, <2>8, <2>10, <2>11, <2>12 DEF GatheredInv
<1> QED BY <1>5, <1>6, <1>7, <1>8, <1>9 DEF GatheredHello

LEMMA BallStep ==
  ASSUME Shape, BallInv, NEW r \in Ranks, PingPong(r)
  PROVE  BallInv'
<1>1. run.program = "pingpong" /\ Shape' /\ run' = run /\ Ranks' = Ranks
  BY ShapeKept DEF Process, PingPong
<1> SUFFICES ASSUME Plays PROVE NotServed' \/ \E q \in Ranks : InFlight(q)' \/ InHands(q)'
  BY <1>1 DEF BallInv, Plays
<1>2. Ranks = {0, 1} /\ PlayPingPong(r)
  BY DEF PingPong, Plays, Ranks
<1>3. Rival(0) = 1 /\ Rival(1) = 0 /\ Rival(r) \in Ranks /\ Rival(r) # r /\ Rival(Rival(r)) = r
  BY <1>2 DEF Rival
<1>4. NotServed \/ \E q \in {r, Rival(r)} : InFlight(q) \/ InHands(q)
  BY <1>2, <1>3 DEF BallInv
<1>5. CASE PlayPingPong(r) /\ place[r] = "begin" /\ r = 0
  <2>1. Go(0, "begin", "play") /\ Send(0, 1, Ball)
    BY <1>3, <1>5 DEF PlayPingPong, Go, Serves, Ball
  <2>2. place'[0] = "play" /\ place'[1] = place[1]
    BY <1>2, <2>1, GoMoves
  <2>3. NotServed
    BY <1>3, <1>4, <1>5 DEF InFlight, InHands
  <2>4. channel'[0][1] = Append(channel[0][1], Ball) /\ channel'[1][0] = channel[1][0]
    BY <1>2, <2>1, SendAppends
  <2>5. channel'[0][1] = <<Ball>> /\ channel'[1][0] = <<>>
    BY <2>3, <2>4, OneMessage DEF NotServed
  <2>6. InFlight(0)'
    BY <1>3, <2>2, <2>3, <2>5 DEF InFlight, NotServed, Rival, Ball
  <2> QED BY <1>2, <2>6
<1>6. CASE PlayPingPong(r) /\ place[r] = "begin" /\ r # 0
  <2>1. r = 1 /\ Go(1, "begin", "play") /\ channel' = channel
    BY <1>2, <1>6 DEF PlayPingPong, Go, Serves
  <2>2. place'[1] = "play" /\ place'[0] = place[0]
    BY <1>2, <2>1, GoMoves
  <2>3. NotServed \/ InFlight(0)
    BY <1>3, <1>4, <1>6, <2>1 DEF InFlight, InHands
  <2>4. NotServed => NotServed'
    BY <2>1, <2>2 DEF NotServed
  <2>5. InFlight(0) => InFlight(0)'
    BY <1>3, <2>1, <2>2 DEF InFlight, Rival, Ball
  <2> QED BY <1>2, <2>3, <2>4, <2>5
<1>7. CASE PlayPingPong(r) /\ place[r] = "play"
  <2>1. Go(r, "play", "serve") /\ Take(r, Rival(r), 1)
    BY <1>7 DEF PlayPingPong, Go
  <2>2. place'[r] = "serve" /\ place'[Rival(r)] = place[Rival(r)]
    BY <1>3, <2>1, GoMoves
  <2>3. /\ channel[Rival(r)][r] # <<>>
        /\ channel'[Rival(r)][r] = Tail(channel[Rival(r)][r])
        /\ channel'[r][Rival(r)] = channel[r][Rival(r)]
    BY <1>3, <2>1, TakeRemoves
  <2>4. InFlight(Rival(r))
    BY <1>2, <1>3, <1>4, <1>7, <2>3 DEF InFlight, InHands, NotServed
  <2>5. channel[Rival(r)][r] = <<Ball>> /\ channel[r][Rival(r)] = <<>> /\ place[Rival(r)] = "play"
    BY <1>3, <2>4 DEF InFlight
  <2>6. channel'[Rival(r)][r] = <<>> /\ channel'[r][Rival(r)] = <<>>
    BY <2>3, <2>5, OneMessage
  <2>7. InHands(r)'
    BY <2>2, <2>5, <2>6 DEF InHands, Rival
  <2> QED BY <1>1, <2>7
<1>8. CASE PlayPingPong(r) /\ place[r] # "begin" /\ place[r] # "play"
  <2>1. Go(r, "serve", "play") /\ Send(r, Rival(r), Ball)
    BY <1>8 DEF PlayPingPong, Go, Ball
  <2>2. place[r] = "serve" /\ place'[r] = "play" /\ place'[Rival(r)] = place[Rival(r)]
    BY <1>3, <2>1, GoMoves
  <2>3. /\ channel'[r][Rival(r)] = Append(channel[r][Rival(r)], Ball)
        /\ channel'[Rival(r)][r] = channel[Rival(r)][r]
    <3>1. \A a, b \in Ranks :
            channel'[a][b] = IF a = r /\ b = Rival(r) THEN Append(channel[r][Rival(r)], Ball)
                             ELSE channel[a][b]
      BY <1>3, <2>1, SendAppends
    <3> QED BY <1>3, <3>1
  <2>4. InHands(r)
    BY <1>2, <1>3, <1>4, <2>2 DEF InFlight, InHands, NotServed
  <2>5. channel'[r][Rival(r)] = <<Ball>> /\ channel'[Rival(r)][r] = <<>>
    BY <2>3, <2>4, OneMessage DEF InHands
  <2>6. InFlight(r)'
    BY <2>2, <2>4, <2>5 DEF InFlight, InHands, Rival, Ball
  <2> QED BY <1>1, <2>6
<1> QED BY <1>2, <1>5, <1>6, <1>7, <1>8

LEMMA EndedFinite ==
  ASSUME Shape
  PROVE  /\ IsFiniteSet(Ended) /\ Cardinality(Ended) \in Nat
         /\ (\A r \in Ranks : place[r] = "end") => Cardinality(Ended) = run.size
<1>1. IsFiniteSet(Ended) /\ Cardinality(Ended) \in Nat
  BY RankFacts, FS_Subset, FS_CardinalityType DEF Ended
<1>2. ASSUME \A r \in Ranks : place[r] = "end" PROVE Cardinality(Ended) = run.size
  <2>1. Ended = Ranks
    BY <1>2 DEF Ended
  <2> QED BY <2>1, RankFacts
<1> QED BY <1>1, <1>2

LEMMA TransferStep ==
  ASSUME Shape, TransferInv, run.type # "other", NEW r \in Ranks, SendTest(r)
  PROVE  TransferInv'
<1>1. run.program = "send" /\ Shape' /\ run' = run /\ Ranks' = Ranks
  BY ShapeKept DEF Process, SendTest
<1>2. /\ 0 \in Ranks /\ Ranks \subseteq Nat /\ run.size \in Nat \ {0} /\ run.length \in Nat
      /\ \A q \in Ranks : q < run.size
      /\ Data' = Data /\ Capacity' = Capacity
  BY <1>1, RankFacts DEF Data, Capacity, Message, Elements
<1> DEFINE Sent(q, s) == q = 0 /\ s # 0 /\ s < next /\ place[s] = "begin"
<1>3. /\ place[0] \in {"begin", "send", "print", "end"}
      /\ place[0] = "begin" => next = 1
      /\ next >= 1
      /\ \A q \in Ranks \ {0} :
           /\ place[q] \in {"begin", "print", "end"}
           /\ place[q] # "begin" => q < next /\ Data.elements <= Capacity
      /\ \A q \in Ranks : place[q] # "begin" => value[q] = run.length
      /\ \A q, s \in Ranks : channel[q][s] = IF Sent(q, s) THEN <<Data>> ELSE <<>>
      /\ said \in Seq(Ranks \X Nat)
      /\ Len(said) = Cardinality(Ended)
      /\ \A k \in 1 .. Len(said) : said[k][2] = run.length /\ said[k][1] \in Ended
      /\ \A k, l \in 1 .. Len(said) : said[k][1] = said[l][1] => k = l
      /\ job # "running" => Elements(run.type, run.length) > Buffer
  BY <1>1 DEF TransferInv
<1>4. Elements(run.type, run.length)' = Elements(run.type, run.length) /\ next \in Nat
  BY <1>1 DEF Elements, Shape
<1>5. ASSUME Read(r) PROVE TransferInv'
  <2>1. /\ r = 0 /\ Go(0, "begin", "send") /\ value' = [value EXCEPT ![0] = run.length]
        /\ UNCHANGED <<next, channel, gathered, said, job>>
    BY <1>5 DEF Read, Go
  <2>2. place[0] = "begin" /\ place'[0] = "send" /\ \A q \in Ranks : q # 0 => place'[q] = place[q]
    BY <1>2, <2>1, GoMoves
  <2>3. value'[0] = run.length /\ \A q \in Ranks : q # 0 => value'[q] = value[q]
    BY <1>2, <2>1 DEF Shape
  <2>4. Ended' = Ended
    BY <1>1, <2>2 DEF Ended
  <2>5. \A q, s \in Ranks :
          (q = 0 /\ s # 0 /\ s < next' /\ place'[s] = "begin") <=> Sent(q, s)
    BY <2>1, <2>2
  <2>6. \A q, s \in Ranks :
          channel'[q][s] = IF q = 0 /\ s # 0 /\ s < next' /\ place'[s] = "begin"
                           THEN <<Data>> ELSE <<>>
    BY <1>3, <2>1, <2>5
  <2>7. \A q \in Ranks \ {0} :
           /\ place'[q] \in {"begin", "print", "end"}
           /\ place'[q] # "begin" => q < next' /\ Data.elements <= Capacity
    BY <1>3, <2>1, <2>2
  <2>8. \A q \in Ranks : place'[q] # "begin" => value'[q] = run.length
    BY <1>3, <2>2, <2>3
  <2> HIDE DEF Sent
  <2> QED BY <1>1, <1>2, <1>3, <1>4, <2>1, <2>2, <2>4, <2>6, <2>7, <2>8 DEF TransferInv
<1>6. ASSUME Overrun(r) PROVE TransferInv'
  <2>1. /\ UNCHANGED <<place, next, channel, value, said>>
        /\ \/ run.type = "aint" /\ run.length > Buffer
           \/ run.type = "1txt" /\ run.length + 1 > Buffer
    BY <1>6 DEF Overrun, Interrupt
  <2>2. Elements(run.type, run.length) > Buffer
    BY <2>1 DEF Elements
  <2>3. Ended' = Ended
    BY <1>1, <2>1 DEF Ended
  <2> QED BY <1>1, <1>2, <1>3, <1>4, <2>1, <2>2, <2>3 DEF TransferInv
<1>7. ASSUME SendToNext(r) PROVE TransferInv'
  <2>1. /\ r = 0 /\ next < run.size /\ Go(0, "send", "send")
        /\ Send(0, next, Message(Elements(run.type, value[0]), value[0]))
        /\ next' = next + 1 /\ UNCHANGED <<value, gathered, said, job>>
    BY <1>7 DEF SendToNext, Go
  <2>2. place[0] = "send" /\ \A q \in Ranks : place'[q] = place[q]
    BY <1>2, <2>1, GoMoves
  <2>3. Message(Elements(run.type, value[0]), value[0]) = Data
    <3>1. value[0] = run.length
      BY <1>2, <1>3, <2>2
    <3> QED BY <3>1 DEF Data
  <2>4. next \in Ranks /\ next # 0 /\ next \in Nat
    BY <1>2, <1>3, <1>4, <2>1 DEF Ranks
  <2>5. place[next] = "begin"
    BY <1>3, <2>4
  <2>6. Ended' = Ended
    BY <1>1, <2>2 DEF Ended
  <2>7. \A q, s \in Ranks :
          (q = 0 /\ s # 0 /\ s < next' /\ place'[s] = "begin")
            <=> Sent(q, s) \/ (q = 0 /\ s = next)
    BY <1>2, <2>1, <2>2, <2>4, <2>5
  <2>8. \A q, s \in Ranks :
          channel'[q][s] = IF Sent(q, s) \/ (q = 0 /\ s = next) THEN <<Data>> ELSE <<>>
    <3>1. Send(0, next, Data) /\ 0 \in Ranks /\ next \in Ranks
      BY <1>2, <2>1, <2>3, <2>4
    <3>2. \A q, s \in Ranks :
            channel'[q][s] = IF q = 0 /\ s = next THEN Append(channel[0][next], Data)
                             ELSE channel[q][s]
      BY <3>1, SendAppends
    <3>3. channel[0][next] = <<>>
      BY <1>2, <1>3, <2>4
    <3>4. Append(channel[0][next], Data) = <<Data>>
      BY <3>3, OneMessage
    <3>5. \A q, s \in Ranks : channel[q][s] = IF Sent(q, s) THEN <<Data>> ELSE <<>>
      BY <1>3
    <3> HIDE DEF Sent
    <3> TAKE q, s \in Ranks
    <3>6. CASE q = 0 /\ s = next
      BY <3>2, <3>4, <3>6
    <3>7. CASE ~ (q = 0 /\ s = next)
      BY <3>2, <3>5, <3>7
    <3> QED BY <3>6, <3>7
  <2>9. \A q, s \in Ranks :
          channel'[q][s] = IF q = 0 /\ s # 0 /\ s < next' /\ place'[s] = "begin"
                           THEN <<Data>> ELSE <<>>
    BY <2>7, <2>8
  <2>10. \A q \in Ranks \ {0} :
           /\ place'[q] \in {"begin", "print", "end"}
           /\ place'[q] # "begin" => q < next' /\ Data.elements <= Capacity
    BY <1>2, <1>3, <2>1, <2>2, <2>4
  <2>11. \A q \in Ranks : place'[q] # "begin" => value'[q] = run.length
    BY <1>3, <2>1, <2>2
  <2>12. next' >= 1 /\ place'[0] = "send" /\ said' = said /\ job' = job
    BY <1>2, <1>3, <2>1, <2>2, <2>4
  <2> HIDE DEF Sent
  <2> QED BY <1>1, <1>2, <1>3, <1>4, <2>6, <2>9, <2>10, <2>11, <2>12 DEF TransferInv
<1>8. ASSUME SentToAll(r) PROVE TransferInv'
  <2>1. r = 0 /\ Go(0, "send", "print") /\ UNCHANGED <<next, channel, value, gathered, said, job>>
    BY <1>8 DEF SentToAll, Go
  <2>2. place[0] = "send" /\ place'[0] = "print" /\ \A q \in Ranks : q # 0 => place'[q] = place[q]
    BY <1>2, <2>1, GoMoves
  <2>3. Ended' = Ended
    BY <1>1, <2>2 DEF Ended
  <2>4. \A q, s \in Ranks :
          (q = 0 /\ s # 0 /\ s < next' /\ place'[s] = "begin") <=> Sent(q, s)
    BY <2>1, <2>2
  <2>5. \A q, s \in Ranks :
          channel'[q][s] = IF q = 0 /\ s # 0 /\ s < next' /\ place'[s] = "begin"
                           THEN <<Data>> ELSE <<>>
    BY <1>3, <2>1, <2>4
  <2>6. \A q \in Ranks \ {0} :
           /\ place'[q] \in {"begin", "print", "end"}
           /\ place'[q] # "begin" => q < next' /\ Data.elements <= Capacity
    BY <1>3, <2>1, <2>2
  <2>7. \A q \in Ranks : place'[q] # "begin" => value'[q] = run.length
    BY <1>2, <1>3, <2>1, <2>2
  <2> HIDE DEF Sent
  <2> QED BY <1>1, <1>2, <1>3, <1>4, <2>1, <2>2, <2>3, <2>5, <2>6, <2>7 DEF TransferInv
<1>9. ASSUME Receive(r) PROVE TransferInv'
  <2>1. CASE Truncated(r, "begin", 0, Capacity)
    <3>1. /\ place[r] = "begin" /\ channel[0][r] # <<>> /\ Head(channel[0][r]).elements > Capacity
          /\ UNCHANGED <<place, next, channel, value, said>>
      BY <2>1 DEF Truncated, Arrived, Interrupt
    <3>2. channel[0][r] = <<Data>>
      BY <1>2, <1>3, <3>1
    <3>3. Data.elements > Capacity
      BY <3>1, <3>2, OneMessage
    <3>4. Elements(run.type, run.length) > Buffer
      BY <3>3 DEF Data, Message, Capacity, Elements
    <3>5. Ended' = Ended
      BY <1>1, <3>1 DEF Ended
    <3> QED BY <1>1, <1>2, <1>3, <1>4, <3>1, <3>4, <3>5 DEF TransferInv
  <2>2. ASSUME r # 0, Go(r, "begin", "print"), Take(r, 0, Capacity),
               value' = [value EXCEPT ![r] = Head(channel[0][r]).content],
               UNCHANGED <<next, gathered, said>>
        PROVE  TransferInv'
    <3>1. /\ place[r] = "begin" /\ place'[r] = "print" /\ job' = job
          /\ \A q \in Ranks : q # r => place'[q] = place[q]
      BY <2>2, GoMoves
    <3>2. /\ channel[0][r] # <<>> /\ Head(channel[0][r]).elements <= Capacity
          /\ \A q, s \in Ranks :
               channel'[q][s] = IF q = 0 /\ s = r THEN Tail(channel[0][r]) ELSE channel[q][s]
      BY <1>2, <2>2, TakeRemoves
    <3>3. Sent(0, r) /\ channel[0][r] = <<Data>>
      BY <1>2, <1>3, <3>2
    <3>4. Tail(channel[0][r]) = <<>> /\ Head(channel[0][r]) = Data
      BY <3>3, OneMessage
    <3>5. Data.elements <= Capacity /\ Data.content = run.length /\ r < next
      BY <3>2, <3>3, <3>4 DEF Data, Message
    <3>6. value'[r] = run.length /\ \A q \in Ranks : q # r => value'[q] = value[q]
      BY <2>2, <3>4, <3>5 DEF Shape
    <3>7. Ended' = Ended
      BY <1>1, <3>1 DEF Ended
    <3>8. \A q, s \in Ranks :
            (q = 0 /\ s # 0 /\ s < next' /\ place'[s] = "begin")
              <=> Sent(q, s) /\ ~ (q = 0 /\ s = r)
      BY <2>2, <3>1
    <3>9. \A q, s \in Ranks :
            channel'[q][s] = IF Sent(q, s) /\ ~ (q = 0 /\ s = r) THEN <<Data>> ELSE <<>>
      <4>1. \A q, s \in Ranks : channel[q][s] = IF Sent(q, s) THEN <<Data>> ELSE <<>>
        BY <1>3
      <4> HIDE DEF Sent
      <4> TAKE q, s \in Ranks
      <4>2. CASE q = 0 /\ s = r
        BY <3>2, <3>4, <4>2
      <4>3. CASE ~ (q = 0 /\ s = r)
        BY <3>2, <4>1, <4>3
      <4> QED BY <4>2, <4>3
    <3>10. \A q, s \in Ranks :
             channel'[q][s] = IF q = 0 /\ s # 0 /\ s < next' /\ place'[s] = "begin"
                              THEN <<Data>> ELSE <<>>
      BY <3>8, <3>9
    <3>11. \A q \in Ranks \ {0} :
             /\ place'[q] \in {"begin", "print", "end"}
             /\ place'[q] # "begin" => q < next' /\ Data.elements <= Capacity
      BY <1>3, <2>2, <3>1, <3>5
    <3>12. \A q \in Ranks : place'[q] # "begin" => value'[q] = run.length
      BY <1>3, <3>1, <3>6
    <3>13. place'[0] = place[0] /\ next' = next /\ said' = said
      BY <1>2, <2>2, <3>1
    <3> HIDE DEF Sent
    <3> QED BY <1>1, <1>2, <1>3, <1>4, <3>1, <3>7, <3>10, <3>11, <3>12, <3>13 DEF TransferInv
  <2> QED BY <1>9, <2>1, <2>2 DEF Receive
<1>10. ASSUME PrintData(r) PROVE TransferInv'
  <2>1. /\ Go(r, "print", "end") /\ said' = Append(said, <<r, value[r]>>)
        /\ UNCHANGED <<next, channel, value, gathered, job>>
    BY <1>10 DEF PrintData, Say, Go
  <2>2. place[r] = "print" /\ place'[r] = "end" /\ \A q \in Ranks : q # r => place'[q] = place[q]
    BY <2>1, GoMoves
  <2>3. value[r] = run.length
    BY <1>3, <2>2
  <2>4. Ended' = Ended \union {r} /\ r \notin Ended
    BY <1>1, <2>2 DEF Ended
  <2>5. /\ said' \in Seq(Ranks \X Nat) /\ Len(said') = Len(said) + 1 /\ Len(said) \in Nat
        /\ \A k \in 1 .. Len(said) : said'[k] = said[k]
        /\ said'[Len(said) + 1] = <<r, run.length>>
    <3>1. said' = Append(said, <<r, run.length>>)
      BY <2>1, <2>3
    <3>2. said \in Seq(Ranks \X Nat) /\ <<r, run.length>> \in Ranks \X Nat
      BY <1>2, <1>3
    <3> QED BY <3>1, <3>2, LineAdded
  <2>6. Len(said') = Cardinality(Ended')
    BY <1>3, <2>4, <2>5, EndedFinite, FS_AddElement
  <2>7. \A k \in 1 .. Len(said') : k \in 1 .. Len(said) \/ k = Len(said) + 1
    BY <2>5
  <2>8. said'[Len(said) + 1][1] = r /\ said'[Len(said) + 1][2] = run.length
    BY <2>5
  <2>9. \A k \in 1 .. Len(said) : said'[k][2] = run.length /\ said'[k][1] \in Ended
    BY <1>3, <2>5
  <2>10. \A k \in 1 .. Len(said') : said'[k][2] = run.length /\ said'[k][1] \in Ended'
    BY <2>4, <2>7, <2>8, <2>9
  <2>11. \A k, l \in 1 .. Len(said') : said'[k][1] = said'[l][1] => k = l
    <3>1. \A k, l \in 1 .. Len(said) : said'[k][1] = said'[l][1] => k = l
      BY <1>3, <2>5
    <3> QED BY <2>4, <2>7, <2>8, <2>9, <3>1
  <2>12. \A q, s \in Ranks :
           (q = 0 /\ s # 0 /\ s < next' /\ place'[s] = "begin") <=> Sent(q, s)
    BY <2>1, <2>2
  <2>13. \A q, s \in Ranks :
           channel'[q][s] = IF q = 0 /\ s # 0 /\ s < next' /\ place'[s] = "begin"
                            THEN <<Data>> ELSE <<>>
    BY <1>3, <2>1, <2>12
  <2>14. \A q \in Ranks \ {0} :
           /\ place'[q] \in {"begin", "print", "end"}
           /\ place'[q] # "begin" => q < next' /\ Data.elements <= Capacity
    BY <1>3, <2>1, <2>2
  <2>15. \A q \in Ranks : place'[q] # "begin" => value'[q] = run.length
    BY <1>3, <2>1, <2>2
  <2>16. /\ place'[0] \in {"begin", "send", "print", "end"} /\ next' = next /\ job' = job
         /\ place'[0] = "begin" => next = 1
    BY <1>2, <1>3, <2>1, <2>2
  <2> HIDE DEF Sent
  <2> QED BY <1>1, <1>2, <1>3, <1>4, <2>5, <2>6, <2>10, <2>11, <2>13, <2>14, <2>15, <2>16
      DEF TransferInv
<1> QED BY <1>5, <1>6, <1>7, <1>8, <1>9, <1>10 DEF SendTest, UnknownType

LEMMA UnknownStep ==
  ASSUME Shape, UnknownInv, run.type = "other", NEW r \in Ranks, SendTest(r)
  PROVE  UnknownInv'
<1>1. run.program = "send" /\ Shape' /\ run' = run /\ Ranks' = Ranks
  BY ShapeKept DEF Process, SendTest
<1>2. /\ \A q, s \in Ranks : channel[q][s] = <<>>
      /\ \A q \in Ranks : place[q] \in {"begin", "end"}
      /\ said = <<>> /\ job = "running"
  BY <1>1 DEF UnknownInv
<1>3. UnknownType(r)
  <2>1. ~ Read(r) /\ ~ Overrun(r) /\ ~ Receive(r)
    BY DEF Read, Overrun, Receive
  <2>2. ~ SendToNext(r) /\ ~ SentToAll(r) /\ ~ PrintData(r)
    BY <1>2 DEF SendToNext, SentToAll, PrintData, Go
  <2> QED BY <2>1, <2>2 DEF SendTest
<1>4. Go(r, "begin", "end") /\ UNCHANGED <<channel, said, job>>
  BY <1>3 DEF UnknownType, Go
<1>5. \A q \in Ranks : place'[q] \in {"begin", "end"}
  BY <1>2, <1>4, GoMoves
<1> QED BY <1>1, <1>2, <1>4, <1>5 DEF UnknownInv

(* The program of the run is one, so that the invariants of the others say *)
(* nothing of a step of it.                                                *)
LEMMA ProcessIInv ==
  ASSUME IInv, NEW r \in Ranks, Process(r)
  PROVE  IInv'
<1>1. Shape /\ OrderedInv /\ GatheredInv /\ BallInv /\ TransferInv /\ UnknownInv
  BY DEF IInv
<1>2. Shape' /\ run' = run
  BY <1>1, ShapeKept
<1>3. /\ run.program # "ord" => OrderedInv'
      /\ run.program # "itm" => GatheredInv'
      /\ run.program # "pingpong" => BallInv'
      /\ run.program # "send" \/ run.type = "other" => TransferInv'
      /\ run.program # "send" \/ run.type # "other" => UnknownInv'
  BY <1>2 DEF OrderedInv, GatheredInv, BallInv, Plays, TransferInv, UnknownInv
<1>4. CASE OrderedHello(r)
  <2>1. run.program = "ord" /\ OrderedInv'
    BY <1>1, <1>4, OrderedStep DEF OrderedHello
  <2> QED BY <1>2, <1>3, <2>1 DEF IInv
<1>5. CASE GatheredHello(r)
  <2>1. run.program = "itm" /\ GatheredInv'
    BY <1>1, <1>5, GatheredStep DEF GatheredHello
  <2> QED BY <1>2, <1>3, <2>1 DEF IInv
<1>6. CASE PingPong(r)
  <2>1. run.program = "pingpong" /\ BallInv'
    BY <1>1, <1>6, BallStep DEF PingPong
  <2> QED BY <1>2, <1>3, <2>1 DEF IInv
<1>7. CASE SendTest(r) /\ run.type # "other"
  <2>1. run.program = "send" /\ TransferInv'
    BY <1>1, <1>7, TransferStep DEF SendTest
  <2> QED BY <1>2, <1>3, <1>7, <2>1 DEF IInv
<1>8. CASE SendTest(r) /\ run.type = "other"
  <2>1. run.program = "send" /\ UnknownInv'
    BY <1>1, <1>8, UnknownStep DEF SendTest
  <2> QED BY <1>2, <1>3, <1>8, <2>1 DEF IInv
<1> QED BY <1>4, <1>5, <1>6, <1>7, <1>8 DEF Process

LEMMA StutterIInv ==
  ASSUME IInv, UNCHANGED vars
  PROVE  IInv'
<1>1. UNCHANGED <<run, place, next, channel, value, gathered, said, job>> /\ Ranks' = Ranks
  BY DEF vars, Ranks
<1>2. Shape'
  BY <1>1 DEF IInv, Shape
<1>3. OrderedInv'
  BY <1>1 DEF IInv, OrderedInv
<1>4. GatheredInv'
  BY <1>1 DEF IInv, GatheredInv, Collected
<1>5. BallInv'
  BY <1>1 DEF IInv, BallInv, Plays, NotServed, InFlight, InHands, Rival
<1>6. TransferInv'
  BY <1>1 DEF IInv, TransferInv, Ended, Capacity, Data, Message, Elements
<1>7. UnknownInv'
  BY <1>1 DEF IInv, UnknownInv
<1> QED BY <1>2, <1>3, <1>4, <1>5, <1>6, <1>7 DEF IInv

LEMMA Invariance == Spec => []IInv
<1>1. Init => IInv
  BY InitIInv
<1>2. IInv /\ [Next]_vars => IInv'
  BY ProcessIInv, StutterIInv DEF Next
<1> QED BY <1>1, <1>2, PTL DEF Spec

-----------------------------------------------------------------------------
(* What the wrapper sends to everyone is printed whole and once by each    *)
(* process, the job is interrupted only by an input with no room in the    *)
(* buffer, and the players of the ping-pong never have two balls.          *)
THEOREM SentArrivesWhole == Spec => []DataArrives
<1>1. ASSUME IInv PROVE DataArrives
  <2>1. Shape /\ TransferInv /\ UnknownInv /\ BallInv
    BY <1>1 DEF IInv
  <2>2. 0 \in Ranks /\ run.size \in Nat \ {0} /\ run.length \in Nat /\ Ranks \subseteq Nat
    BY <2>1, RankFacts
  <2> DEFINE Whole ==
        /\ \A k \in 1 .. Len(said) :
             said[k][2] = run.length /\ \A l \in 1 .. Len(said) : said[k][1] = said[l][1] => k = l
        /\ job # "running" => Elements(run.type, run.length) > Buffer
        /\ (\A r \in Ranks : place[r] = "end") /\ run.type # "other" =>
             /\ Len(said) = run.size
             /\ run.size > 1 => run.type = "1int" \/ Elements(run.type, run.length) <= Buffer
  <2>3. ASSUME run.program = "send", run.type # "other" PROVE Whole
    <3>1. \A k \in 1 .. Len(said) :
            said[k][2] = run.length /\ \A l \in 1 .. Len(said) : said[k][1] = said[l][1] => k = l
      BY <2>1, <2>3 DEF TransferInv
    <3>2. job # "running" => Elements(run.type, run.length) > Buffer
      BY <2>1, <2>3 DEF TransferInv
    <3>3. ASSUME \A r \in Ranks : place[r] = "end" PROVE Len(said) = run.size
      BY <2>1, <2>3, <3>3, EndedFinite DEF TransferInv
    <3>4. ASSUME \A r \in Ranks : place[r] = "end", run.size > 1
          PROVE  run.type = "1int" \/ Elements(run.type, run.length) <= Buffer
      <4>1. 1 \in Ranks \ {0}
        BY <2>2, <3>4 DEF Ranks
      <4>2. Data.elements <= Capacity
        BY <2>1, <2>3, <3>4, <4>1 DEF TransferInv
      <4> QED BY <4>2 DEF Data, Message, Capacity
    <3> QED BY <3>1, <3>2, <3>3, <3>4
  <2>4. ASSUME run.program = "send", run.type = "other" PROVE Whole
    <3>1. said = <<>> /\ job = "running"
      BY <2>1, <2>4 DEF UnknownInv
    <3> QED BY <2>4, <3>1
  <2> DEFINE Serving == Cardinality({r \in Ranks : place[r] = "serve"})
  <2> DEFINE To1 == Len(channel[0][1])
  <2> DEFINE To0 == Len(channel[1][0])
  <2> DEFINE OneBall == Serving + To1 + To0 <= 1
  <2>5. ASSUME Plays PROVE OneBall
    <3>1. Ranks = {0, 1} /\ Rival(0) = 1 /\ Rival(1) = 0
      BY <2>5 DEF Plays, Ranks, Rival
    <3>2. \A c : (c = <<>> => Len(c) = 0) /\ (c = <<Ball>> => Len(c) = 1)
      OBVIOUS
    <3>3. CASE \A r \in Ranks : place[r] # "serve"
      <4>1. {r \in Ranks : place[r] = "serve"} = {}
        BY <3>3
      <4>2. Serving = 0
        BY <4>1, FS_EmptySet
      <4>3. \/ channel[0][1] = <<>> /\ channel[1][0] = <<>>
            \/ channel[0][1] = <<Ball>> /\ channel[1][0] = <<>>
            \/ channel[0][1] = <<>> /\ channel[1][0] = <<Ball>>
        BY <2>1, <2>5, <3>1 DEF BallInv, NotServed, InFlight, InHands
      <4>4. (To1 = 0 /\ To0 = 0) \/ (To1 = 1 /\ To0 = 0) \/ (To1 = 0 /\ To0 = 1)
        BY <3>2, <4>3, Zenon
      <4> HIDE DEF Serving, To1, To0
      <4> QED BY <4>2, <4>4
    <3>4. ASSUME NEW p \in Ranks, place[p] = "serve" PROVE OneBall
      <4>1. /\ channel[0][1] = <<>> /\ channel[1][0] = <<>>
            /\ \A q \in Ranks : place[q] = "serve" => q = p
        BY <2>1, <2>5, <3>1, <3>4 DEF BallInv, NotServed, InFlight, InHands
      <4>2. {r \in Ranks : place[r] = "serve"} = {p}
        BY <3>4, <4>1
      <4>3. Serving = 1
        BY <4>2, FS_Singleton
      <4> HIDE DEF Serving
      <4> QED BY <3>2, <4>1, <4>3
    <3> QED BY <3>3, <3>4
  <2> HIDE DEF OneBall
  <2>6. run.program = "send" => Whole
    BY <2>3, <2>4
  <2>7. run.program = "pingpong" /\ run.size = 2 => OneBall
    BY <2>5 DEF Plays
  <2> QED BY <2>6, <2>7 DEF DataArrives, OneBall
<1> QED BY <1>1, Invariance, PTL

-----------------------------------------------------------------------------
(* What is announced: the first of each pair printed.                      *)
Announcing == Announced' = Announced \/ \E n \in 0 .. MaxSize - 1 : Order!Announce(n)

LEMMA SameAnnounced ==
  ASSUME run' = run, said' = said
  PROVE  Announcing
BY DEF Announcing, Announced

LEMMA OthersAnnounceNothing ==
  ASSUME run' = run, run.program \notin {"ord", "itm"}
  PROVE  Announcing
BY DEF Announcing, Announced

LEMMA LineAnnounced ==
  ASSUME run' = run, run.program \in {"ord", "itm"},
         NEW S, S \subseteq Nat, said \in Seq(S \X {"hello"}), NEW n \in S, n \in 0 .. MaxSize - 1,
         said' = Append(said, <<n, "hello">>),
         \A k \in 1 .. Len(said) : said[k][1] < n
  PROVE  Announcing
<1> DEFINE old == [k \in 1 .. Len(said) |-> said[k][1]]
           new == [k \in 1 .. Len(said') |-> said'[k][1]]
<1>1. Announced = old /\ Announced' = new
  BY DEF Announced
<1>2. /\ said' \in Seq(S \X {"hello"}) /\ Len(said') = Len(said) + 1 /\ Len(said) \in Nat
      /\ \A k \in 1 .. Len(said) : said'[k] = said[k]
      /\ said'[Len(said) + 1] = <<n, "hello">>
  <2>1. <<n, "hello">> \in S \X {"hello"}
    OBVIOUS
  <2> QED BY <2>1, LineAdded
<1>3. said'[Len(said) + 1][1] = n /\ n \in Nat
  <2>1. said'[Len(said) + 1] = <<n, "hello">>
    BY <1>2
  <2> HIDE DEF old, new
  <2> QED BY <2>1
<1>4. \A k \in 1 .. Len(said) : said[k][1] \in Nat
  <2>1. \A k \in 1 .. Len(said) : said[k] \in S \X {"hello"}
    BY ElementOfSeq
  <2>2. \A line \in S \X {"hello"} : line[1] \in Nat
    OBVIOUS
  <2> QED BY <2>1, <2>2
<1>5. old \in Seq(Nat) /\ Len(old) = Len(said)
  BY <1>2, <1>4
<1>6. \A k \in 1 .. Len(said') : said'[k][1] \in Nat
  <2> TAKE k \in 1 .. Len(said')
  <2>1. CASE k \in 1 .. Len(said)
    BY <1>2, <1>4, <2>1
  <2>2. CASE k = Len(said) + 1
    BY <1>3, <2>2
  <2> QED BY <1>2, <2>1, <2>2
<1>7. new \in Seq(Nat) /\ Len(new) = Len(said) + 1
  <2>1. Len(said') \in Nat
    BY <1>2
  <2>2. new \in Seq(Nat) /\ Len(new) = Len(said')
    BY <1>6, <2>1
  <2> QED BY <1>2, <2>2
<1>8. /\ Append(old, n) \in Seq(Nat) /\ Len(Append(old, n)) = Len(old) + 1
      /\ \A k \in 1 .. Len(old) : Append(old, n)[k] = old[k]
      /\ Append(old, n)[Len(old) + 1] = n
  BY <1>3, <1>5, AppendProperties
<1>9. ASSUME NEW k \in 1 .. Len(new) PROVE new[k] = Append(old, n)[k]
  <2>1. k \in 1 .. Len(said') /\ new[k] = said'[k][1]
    BY <1>2, <1>7
  <2>2. CASE k \in 1 .. Len(said)
    <3>1. old[k] = said[k][1] /\ said'[k] = said[k]
      BY <1>2, <2>2
    <3> QED BY <1>5, <1>8, <2>1, <2>2, <3>1
  <2>3. CASE k = Len(said) + 1
    BY <1>3, <1>5, <1>8, <2>1, <2>3
  <2> QED BY <1>2, <2>1, <2>2, <2>3
<1>10. new = Append(old, n)
  BY <1>5, <1>7, <1>8, <1>9, SeqEqual
<1>11. \A k \in 1 .. Len(old) : old[k] < n
  BY <1>5
<1> QED BY <1>1, <1>10, <1>11 DEF Announcing, Order!Announce

(* Along the chain, whoever has greeted is a process before the one that   *)
(* greets: the others have not begun.                                      *)
LEMMA OrderedAnnounces ==
  ASSUME Shape, OrderedInv, NEW r \in Ranks, OrderedHello(r)
  PROVE  Announcing
<1>1. run.program = "ord" /\ run' = run
  BY ShapeKept DEF Process, OrderedHello
<1>2. Ranks \subseteq Nat /\ (\A q \in Ranks : q < run.size) /\ run.size <= MaxSize /\ run.size \in Nat
  BY RankFacts
<1>3. CASE said' = said
  BY <1>1, <1>3, SameAnnounced
<1>4. CASE said' # said
  <2>1. Go(r, "greet", "continue") /\ said' = Append(said, <<r, "hello">>)
    BY <1>4 DEF OrderedHello, WaitForPrevious, GreetAndContinue, Say
  <2>2. place[r] = "greet"
    BY <2>1 DEF Go
  <2>3. said \in Seq(Ranks \X {"hello"}) /\ \A k \in 1 .. Len(said) : said[k][1] \in Ranks
    BY <1>1, ElementOfSeq DEF OrderedInv
  <2>4. \A q \in Ranks : place[q] \in {"continue", "end"} => q < r
    <3>1. \A q, s \in Ranks : q < s /\ place[s] # "begin" => place[q] = "end"
      BY <1>1 DEF OrderedInv
    <3> QED BY <1>2, <2>2, <3>1
  <2>5. \A k \in 1 .. Len(said) : said[k][1] < r
    BY <1>1, <2>3, <2>4 DEF OrderedInv
  <2>6. r \in 0 .. MaxSize - 1
    BY <1>2, MpiExamplesAssumption
  <2> QED BY <1>1, <1>2, <2>1, <2>3, <2>5, <2>6, LineAnnounced
<1> QED BY <1>3, <1>4

(* The greetings gathered are printed from the place of process 0 on, each *)
(* place holds the greeting of its process.                                *)
LEMMA GatheredAnnounces ==
  ASSUME Shape, GatheredInv, NEW r \in Ranks, GatheredHello(r)
  PROVE  Announcing
<1>1. run.program = "itm" /\ run' = run
  BY ShapeKept DEF Process, GatheredHello
<1>2. run.size <= MaxSize /\ run.size \in Nat /\ 0 \in Ranks
  BY RankFacts
<1>3. CASE said' = said
  BY <1>1, <1>3, SameAnnounced
<1>4. CASE said' # said
  <2>1. place[r] = "print" /\ said' = Append(said, <<gathered[Len(said)], "hello">>)
    BY <1>4 DEF GatheredHello, Go
  <2>2. /\ \A q \in Ranks \ {0} : place[q] \in {"begin", "end"}
        /\ gathered[0] = IF place[0] = "begin" THEN Nothing ELSE 0
        /\ place[0] \in {"print", "end"} => Collected = Ranks \ {0}
        /\ \A q \in Ranks \ {0} : gathered[q] \in {Nothing, q}
        /\ said \in Seq(Nat \X {"hello"})
        /\ place[0] = "print" => Len(said) < run.size
        /\ \A k \in 1 .. Len(said) : said[k][1] = k - 1
    BY <1>1 DEF GatheredInv
  <2>3. place[0] = "print" /\ Len(said) \in Nat /\ Len(said) < run.size
    BY <2>1, <2>2, LenProperties
  <2>4. Len(said) \in Ranks
    BY <1>2, <2>3 DEF Ranks
  <2>5. gathered[Len(said)] = Len(said)
    BY <2>2, <2>3, <2>4 DEF Collected
  <2>6. said' = Append(said, <<Len(said), "hello">>)
    BY <2>1, <2>5
  <2>7. Len(said) \in 0 .. MaxSize - 1
    BY <1>2, <2>3, MpiExamplesAssumption
  <2>8. \A k \in 1 .. Len(said) : said[k][1] < Len(said)
    BY <2>2, <2>3
  <2>9. said \in Seq(Nat \X {"hello"})
    BY <2>2
  <2> QED BY <1>1, <2>3, <2>6, <2>7, <2>8, <2>9, LineAnnounced
<1> QED BY <1>3, <1>4

(* Along the chain of messages and out of the gathered greetings, the      *)
(* processes greet in the order of their ranks, each once.                 *)
THEOREM RanksGreetInOrder == Spec => ImplementsOrdered
<1>1. Init => Order!Init
  <2>1. Init => said = <<>>
    BY DEF Init
  <2>2. said = <<>> => Announced = <<>>
    BY DEF Announced
  <2> QED BY <2>1, <2>2 DEF Order!Init
<1>2. IInv /\ [Next]_vars => [Order!Next]_Announced
  <2>1. ASSUME IInv, NEW r \in Ranks, Process(r) PROVE Announcing
    <3>1. Shape /\ OrderedInv /\ GatheredInv /\ run' = run
      BY <2>1, ShapeKept DEF IInv
    <3>2. CASE OrderedHello(r)
      BY <3>1, <3>2, OrderedAnnounces
    <3>3. CASE GatheredHello(r)
      BY <3>1, <3>3, GatheredAnnounces
    <3>4. CASE PingPong(r) \/ SendTest(r)
      <4>1. run.program \notin {"ord", "itm"}
        BY <3>4 DEF PingPong, SendTest
      <4> QED BY <3>1, <4>1, OthersAnnounceNothing
    <3> QED BY <2>1, <3>2, <3>3, <3>4 DEF Process
  <2>2. ASSUME UNCHANGED vars PROVE Announcing
    <3>1. run' = run /\ said' = said
      BY <2>2 DEF vars
    <3> QED BY <3>1, SameAnnounced
  <2>3. Announcing => [Order!Next]_Announced
    BY DEF Announcing, Order!Next
  <2> QED BY <2>1, <2>2, <2>3 DEF Next
<1> QED BY <1>1, <1>2, Invariance, PTL DEF Spec, ImplementsOrdered, Order!Spec

-----------------------------------------------------------------------------
(* Nobody waits for ever.  What process r needs to go on is what its       *)
(* actions ask: that its last send has returned and, where it receives,    *)
(* that a message has arrived.                                             *)
HasWhatItWaitsFor(r) ==
  /\ run.program = "ord" /\ place[r] = "begin" => r = 0 \/ Arrived(r, r - 1)
  /\ run.program = "itm" /\ place[r] = "gather" =>
       next = run.size \/ (next < run.size /\ \E s \in Ranks \ {0} : Arrived(r, s))
  /\ Plays /\ place[r] = "play" => Arrived(r, Rival(r))
  /\ run.program = "send" /\ place[r] = "begin" => r = 0 \/ run.type = "other" \/ Arrived(r, 0)
  /\ run.program = "send" /\ place[r] = "send" => next <= run.size

Ready(r) == job = "running" /\ place[r] # "end" /\ SendReturned(r) /\ HasWhatItWaitsFor(r)

SomebodyReady == Over \/ \E r \in Ranks : Ready(r)

(* What the invariant says besides of process 0, that sends to everyone.   *)
SendsToAll ==
  run.program = "send" /\ run.type # "other" =>
    next <= run.size /\ (place[0] \in {"print", "end"} => next = run.size)

(* A player never sends to itself, and without two of them nobody plays.   *)
OnlyTwoPlay ==
  run.program = "pingpong" =>
    /\ \A r \in Ranks : channel[r][r] = <<>>
    /\ run.size # 2 =>
         \A r, s \in Ranks : channel[r][s] = <<>> /\ place[r] \in {"begin", "end"}

LEMMA FirstOf ==
  ASSUME NEW S \in SUBSET Nat, S # {}
  PROVE  \E m \in S : \A n \in S : m <= n
<1> DEFINE less == OpToRel(<, Nat)
<1>1. \A m, n \in S : <<n, m>> \in less <=> n < m
  BY DEF OpToRel
<1>2. IsWellFoundedOn(less, Nat)
  BY NatLessThanWellFounded
<1> HIDE DEF less
<1>3. PICK m \in S : \A n \in S : ~ (<<n, m>> \in less)
  BY <1>2, WFMin
<1>4. \A n \in S : ~ (n < m)
  BY <1>1, <1>3, Zenon
<1>5. m \in Nat /\ \A n \in S : n \in Nat
  OBVIOUS
<1> QED BY <1>4, <1>5

LEMMA SendsToAllKept ==
  ASSUME IInv, SendsToAll, [Next]_vars
  PROVE  SendsToAll'
<1>1. ASSUME UNCHANGED vars PROVE SendsToAll'
  BY <1>1 DEF SendsToAll, vars
<1>2. ASSUME NEW r \in Ranks, Process(r) PROVE SendsToAll'
  <2>1. Shape /\ run' = run /\ TransferInv
    BY <1>2, ShapeKept DEF IInv
  <2> SUFFICES ASSUME run.program = "send", run.type # "other"
               PROVE  next' <= run.size /\ (place'[0] \in {"print", "end"} => next' = run.size)
    BY <2>1 DEF SendsToAll
  <2>2. /\ next <= run.size /\ (place[0] \in {"print", "end"} => next = run.size)
        /\ next \in Nat /\ run.size \in Nat /\ 0 \in Ranks
    BY <2>1, RankFacts DEF SendsToAll, Shape
  <2>3. SendTest(r)
    BY <1>2 DEF Process, OrderedHello, GatheredHello, PingPong
  <2>4. CASE Read(r) \/ SendToNext(r) \/ SentToAll(r)
    <3>1. PICK from, to : Go(r, from, to) /\ r = 0 /\ place'[0] = to /\ to \in {"send", "print"}
                          /\ (to = "send" => next' <= run.size)
                          /\ (to = "print" => next' = run.size)
      <4>1. \A from, to : Go(r, from, to) => place'[r] = to
        BY <2>1, GoMoves
      <4> QED BY <2>2, <2>4, <4>1 DEF Read, SendToNext, SentToAll
    <3> QED BY <2>2, <3>1
  <2>5. CASE Overrun(r) \/ Truncated(r, "begin", 0, Capacity)
    BY <2>2, <2>5 DEF Overrun, Truncated, Interrupt
  <2>6. CASE Receive(r) /\ ~ Truncated(r, "begin", 0, Capacity)
    <3>1. r # 0 /\ Go(r, "begin", "print") /\ next' = next
      BY <2>6 DEF Receive
    <3>2. place'[0] = place[0]
      BY <2>1, <2>2, <3>1, GoMoves
    <3> QED BY <2>2, <3>1, <3>2
  <2>7. CASE PrintData(r)
    <3>1. Go(r, "print", "end") /\ next' = next
      BY <2>7 DEF PrintData
    <3>2. place[r] = "print" /\ (r # 0 => place'[0] = place[0])
      BY <2>1, <2>2, <3>1, GoMoves
    <3> QED BY <2>2, <3>1, <3>2
  <2> QED BY <2>3, <2>4, <2>5, <2>6, <2>7 DEF SendTest, UnknownType
<1> QED BY <1>1, <1>2 DEF Next

LEMMA OnlyTwoPlayKept ==
  ASSUME IInv, OnlyTwoPlay, [Next]_vars
  PROVE  OnlyTwoPlay'
<1>1. ASSUME UNCHANGED vars PROVE OnlyTwoPlay'
  BY <1>1 DEF OnlyTwoPlay, vars, Ranks
<1>2. ASSUME NEW r \in Ranks, Process(r) PROVE OnlyTwoPlay'
  <2>1. Shape /\ run' = run /\ Ranks' = Ranks
    BY <1>2, ShapeKept DEF IInv
  <2>2. CASE run.program # "pingpong"
    BY <2>1, <2>2 DEF OnlyTwoPlay
  <2>3. CASE run.program = "pingpong" /\ run.size = 2
    <3>1. PlayPingPong(r) /\ Ranks = {0, 1}
      BY <1>2, <2>3 DEF Process, OrderedHello, GatheredHello, SendTest, PingPong, Ranks
    <3>2. Rival(r) \in Ranks /\ Rival(r) # r
      BY <3>1 DEF Rival
    <3>3. \A q \in Ranks : channel[q][q] = <<>>
      BY <2>3 DEF OnlyTwoPlay
    <3>4. \A q \in Ranks : channel'[q][q] = channel[q][q]
      <4>1. CASE channel' = channel
        BY <4>1
      <4>2. CASE Send(r, Rival(r), Ball)
        <5>1. \A a, b \in Ranks :
                channel'[a][b] = IF a = r /\ b = Rival(r) THEN Append(channel[r][Rival(r)], Ball)
                                 ELSE channel[a][b]
          BY <2>1, <3>2, <4>2, SendAppends
        <5> QED BY <3>2, <5>1
      <4>3. CASE Take(r, Rival(r), 1)
        <5>1. \A a, b \in Ranks :
                channel'[a][b] = IF a = Rival(r) /\ b = r THEN Tail(channel[Rival(r)][r])
                                 ELSE channel[a][b]
          BY <2>1, <3>2, <4>3, TakeRemoves
        <5> QED BY <3>2, <5>1
      <4> QED BY <3>1, <4>1, <4>2, <4>3 DEF PlayPingPong, Ball
    <3> QED BY <2>1, <2>3, <3>3, <3>4 DEF OnlyTwoPlay
  <2>4. CASE run.program = "pingpong" /\ run.size # 2
    <3>1. Go(r, "begin", "end") /\ channel' = channel
      BY <1>2, <2>4 DEF Process, OrderedHello, GatheredHello, SendTest, PingPong
    <3>2. place'[r] = "end" /\ \A q \in Ranks : q # r => place'[q] = place[q]
      BY <2>1, <3>1, GoMoves
    <3> QED BY <2>1, <2>4, <3>1, <3>2 DEF OnlyTwoPlay
  <2> QED BY <2>2, <2>3, <2>4
<1> QED BY <1>1, <1>2 DEF Next

(* hello_ord: the first process that is not done has what it waits for.    *)
LEMMA ChainReady ==
  ASSUME IInv, run.program = "ord", ~ Over
  PROVE  \E r \in Ranks : Ready(r)
<1>1. Shape /\ job = "running" /\ Ranks \subseteq Nat
  BY RankFacts DEF IInv, Over
<1> DEFINE waiting == {r \in Ranks : place[r] # "end"}
<1>2. waiting \in SUBSET Nat /\ waiting # {}
  BY <1>1 DEF Over
<1> HIDE DEF waiting
<1>3. PICK r \in waiting : \A q \in waiting : r <= q
  BY <1>2, FirstOf
<1>4. r \in Ranks /\ place[r] # "end" /\ \A q \in Ranks : q < r => place[q] = "end"
  BY <1>1, <1>3 DEF waiting
<1>5. \A q, s \in Ranks :
        channel[q][s] = IF s = q + 1 /\ place[q] = "end" /\ place[s] = "begin"
                        THEN <<Continue>> ELSE <<>>
  BY DEF IInv, OrderedInv
<1>6. SendReturned(r)
  BY <1>4, <1>5 DEF SendReturned
<1>7. place[r] = "begin" /\ r # 0 => Arrived(r, r - 1)
  <2> SUFFICES ASSUME place[r] = "begin", r # 0 PROVE channel[r - 1][r] # <<>>
    BY DEF Arrived
  <2>1. r - 1 \in Ranks /\ r - 1 < r /\ r = (r - 1) + 1
    BY <1>1, <1>4, RankFacts DEF Ranks
  <2>2. channel[r - 1][r] = <<Continue>>
    BY <1>4, <1>5, <2>1
  <2> QED BY <2>2, OneMessage
<1>8. HasWhatItWaitsFor(r)
  BY <1>7 DEF HasWhatItWaitsFor, Plays
<1> QED BY <1>1, <1>4, <1>6, <1>8 DEF Ready

(* hello_itm: a greeting that process 0 has not counted is on its way, or  *)
(* its process has not sent it.                                            *)
LEMMA GatherReady ==
  ASSUME IInv, run.program = "itm", ~ Over
  PROVE  \E r \in Ranks : Ready(r)
<1>1. Shape /\ job = "running" /\ 0 \in Ranks /\ run.size \in Nat \ {0}
  BY RankFacts DEF IInv, Over
<1>2. /\ place[0] \in {"begin", "gather", "print", "end"}
      /\ \A r \in Ranks \ {0} :
           /\ place[r] \in {"begin", "end"}
           /\ gathered[r] \in {Nothing, r}
           /\ gathered[r] = r => place[r] = "end"
      /\ \A r, s \in Ranks :
           channel[r][s] = IF s = 0 /\ r # 0 /\ place[r] = "end" /\ gathered[r] = Nothing
                           THEN <<Message(1, r)>> ELSE <<>>
      /\ next = Cardinality(Collected) + 1
      /\ place[0] \in {"print", "end"} => Collected = Ranks \ {0}
  BY DEF IInv, GatheredInv
<1>3. \A r \in Ranks : r = 0 \/ place[r] # "end" => SendReturned(r)
  BY <1>2 DEF SendReturned
<1>4. ASSUME NEW r \in Ranks \ {0}, place[r] # "end" PROVE Ready(r)
  <2>1. place[r] = "begin"
    BY <1>2, <1>4
  <2>2. HasWhatItWaitsFor(r)
    BY <2>1 DEF HasWhatItWaitsFor, Plays
  <2> QED BY <1>1, <1>3, <1>4, <2>2 DEF Ready
<1>5. CASE place[0] \in {"begin", "print"}
  <2>1. HasWhatItWaitsFor(0)
    BY <1>5 DEF HasWhatItWaitsFor, Plays
  <2> QED BY <1>1, <1>3, <1>5, <2>1 DEF Ready
<1>6. CASE place[0] = "gather" /\ Collected = Ranks \ {0}
  <2>1. next = run.size
    <3>1. Cardinality(Ranks \ {0}) = run.size - 1
      BY <1>1, RankFacts, FS_RemoveElement
    <3> QED BY <1>1, <1>2, <1>6, <3>1
  <2>2. HasWhatItWaitsFor(0)
    BY <1>6, <2>1 DEF HasWhatItWaitsFor, Plays
  <2> QED BY <1>1, <1>3, <1>6, <2>2 DEF Ready
<1>7. CASE place[0] = "gather" /\ Collected # Ranks \ {0}
  <2>1. PICK s \in Ranks \ {0} : gathered[s] = Nothing
    BY <1>7 DEF Collected
  <2>2. CASE place[s] = "end"
    <3>1. channel[s][0] = <<Message(1, s)>>
      BY <1>1, <1>2, <2>1, <2>2
    <3>2. Arrived(0, s)
      BY <3>1, OneMessage DEF Arrived
    <3>3. next < run.size
      <4>1. Collected \in SUBSET (Ranks \ {0})
        BY DEF Collected
      <4>2. IsFiniteSet(Ranks \ {0}) /\ Cardinality(Ranks \ {0}) = run.size - 1
        BY <1>1, RankFacts, FS_RemoveElement
      <4>3. Cardinality(Collected) <= run.size - 1
        BY <4>1, <4>2, FS_Subset
      <4> QED BY <1>1, <1>2, <1>7, <4>3, CollectedFinite
    <3>4. HasWhatItWaitsFor(0)
      BY <1>7, <2>1, <3>2, <3>3 DEF HasWhatItWaitsFor, Plays
    <3> QED BY <1>1, <1>3, <1>7, <3>4 DEF Ready
  <2>3. CASE place[s] # "end"
    BY <1>4, <2>1, <2>3
  <2> QED BY <2>2, <2>3
<1>8. CASE place[0] = "end"
  <2>1. PICK r \in Ranks : place[r] # "end"
    BY <1>1 DEF Over
  <2> QED BY <1>4, <1>8, <2>1
<1> QED BY <1>2, <1>5, <1>6, <1>7, <1>8

(* The ping-pong: the one with the ball, or the one it flies to.           *)
LEMMA PlayersReady ==
  ASSUME IInv, OnlyTwoPlay, run.program = "pingpong", ~ Over
  PROVE  \E r \in Ranks : Ready(r)
<1>1. Shape /\ job = "running"
  BY DEF IInv, Over
<1>2. CASE run.size # 2
  <2>1. PICK r \in Ranks : place[r] # "end"
    BY <1>1 DEF Over
  <2>2. SendReturned(r)
    BY <1>2 DEF OnlyTwoPlay, SendReturned
  <2>3. HasWhatItWaitsFor(r)
    BY <1>2 DEF HasWhatItWaitsFor, Plays
  <2> QED BY <1>1, <2>1, <2>2, <2>3 DEF Ready
<1>3. CASE run.size = 2
  <2>1. Plays /\ Ranks = {0, 1} /\ Rival(0) = 1 /\ Rival(1) = 0
    BY <1>3 DEF Plays, Ranks, Rival
  <2>2. \A r \in Ranks : channel[r][Rival(r)] = <<>> => SendReturned(r)
    <3>1. \A r \in Ranks : channel[r][r] = <<>>
      BY DEF OnlyTwoPlay
    <3> QED BY <2>1, <3>1 DEF SendReturned
  <2>3. ASSUME NEW r \in Ranks, channel[r][Rival(r)] = <<>>, place[r] # "end",
               place[r] = "play" => channel[Rival(r)][r] # <<>>
        PROVE  Ready(r)
    <3>1. HasWhatItWaitsFor(r)
      BY <2>3 DEF HasWhatItWaitsFor, Arrived
    <3> QED BY <1>1, <2>2, <2>3, <3>1 DEF Ready
  <2>4. NotServed \/ \E r \in Ranks : InFlight(r) \/ InHands(r)
    BY <2>1 DEF IInv, BallInv
  <2>5. CASE NotServed
    <3>1. channel[0][Rival(0)] = <<>> /\ place[0] = "begin"
      BY <2>1, <2>5 DEF NotServed
    <3> QED BY <2>1, <2>3, <3>1
  <2>6. ASSUME NEW r \in Ranks, InHands(r) PROVE Ready(r)
    BY <2>3, <2>6 DEF InHands
  <2>7. ASSUME NEW r \in Ranks, InFlight(r) PROVE Ready(Rival(r))
    <3>1. Rival(r) \in Ranks /\ Rival(Rival(r)) = r
      BY <2>1
    <3>2. /\ channel[r][Rival(r)] = <<Ball>> /\ channel[Rival(r)][r] = <<>>
          /\ place[Rival(r)] \in {"play", "begin"}
      BY <2>1, <2>7 DEF InFlight
    <3>3. channel[r][Rival(r)] # <<>>
      BY <3>2, OneMessage
    <3> QED BY <2>3, <3>1, <3>2, <3>3
  <2>8. \A r \in Ranks : Rival(r) \in Ranks
    BY <2>1
  <2> QED BY <2>4, <2>5, <2>6, <2>7, <2>8
<1> QED BY <1>2, <1>3

(* The test of the wrapper: the process the data is on its way to, or else *)
(* process 0, or once it has sent to all any that is not done.             *)
LEMMA TransferReady ==
  ASSUME IInv, SendsToAll, run.program = "send", run.type # "other", ~ Over
  PROVE  \E r \in Ranks : Ready(r)
<1>1. Shape /\ job = "running" /\ 0 \in Ranks /\ \A r \in Ranks : r < run.size
  BY RankFacts DEF IInv, Over
<1>2. /\ place[0] \in {"begin", "send", "print", "end"}
      /\ \A r \in Ranks \ {0} : place[r] \in {"begin", "print", "end"}
      /\ \A r, s \in Ranks :
           channel[r][s] = IF r = 0 /\ s # 0 /\ s < next /\ place[s] = "begin"
                           THEN <<Data>> ELSE <<>>
  BY DEF IInv, TransferInv
<1>3. next <= run.size /\ (place[0] \in {"print", "end"} => next = run.size)
  BY DEF SendsToAll
<1>4. \A r \in Ranks \ {0} : SendReturned(r)
  BY <1>2 DEF SendReturned
<1>5. CASE \E s \in Ranks : channel[0][s] # <<>>
  <2>1. PICK s \in Ranks : channel[0][s] # <<>>
    BY <1>5
  <2>2. s # 0 /\ place[s] = "begin"
    BY <1>1, <1>2, <2>1
  <2>3. HasWhatItWaitsFor(s)
    BY <2>1, <2>2 DEF HasWhatItWaitsFor, Plays, Arrived
  <2> QED BY <1>1, <1>4, <2>2, <2>3 DEF Ready
<1>6. CASE (\A s \in Ranks : channel[0][s] = <<>>) /\ place[0] # "end"
  <2>1. SendReturned(0) /\ HasWhatItWaitsFor(0)
    BY <1>3, <1>6 DEF SendReturned, HasWhatItWaitsFor, Plays
  <2> QED BY <1>1, <1>6, <2>1 DEF Ready
<1>7. CASE (\A s \in Ranks : channel[0][s] = <<>>) /\ place[0] = "end"
  <2>1. PICK r \in Ranks : place[r] # "end"
    BY <1>1 DEF Over
  <2>2. r # 0 /\ r < next
    BY <1>1, <1>3, <1>7, <2>1
  <2>3. place[r] # "begin"
    <3>1. <<Data>> # <<>>
      BY OneMessage
    <3> QED BY <1>1, <1>2, <1>7, <2>2, <3>1
  <2>4. place[r] = "print"
    BY <1>2, <2>1, <2>2, <2>3
  <2>5. HasWhatItWaitsFor(r)
    BY <2>4 DEF HasWhatItWaitsFor, Plays
  <2> QED BY <1>1, <1>4, <2>1, <2>2, <2>5 DEF Ready
<1> QED BY <1>5, <1>6, <1>7

LEMMA UnknownReady ==
  ASSUME IInv, run.program = "send", run.type = "other", ~ Over
  PROVE  \E r \in Ranks : Ready(r)
<1>1. PICK r \in Ranks : place[r] # "end"
  BY DEF Over
<1>2. SendReturned(r) /\ place[r] = "begin" /\ job = "running"
  BY <1>1 DEF IInv, UnknownInv, SendReturned
<1>3. HasWhatItWaitsFor(r)
  BY <1>2 DEF HasWhatItWaitsFor, Plays
<1> QED BY <1>1, <1>2, <1>3 DEF Ready

(* The examples never come to a state where every process waits for        *)
(* another, whether or not a send waits for its receiver: until all have   *)
(* ended or the job is interrupted, one has what it waits for              *)
(* (hello_ord/main.cpp:12-24, hello_itm:21-30, mpi_ping_pong,              *)
(* mpi_wrapper/src/main.cpp:45-111).                                       *)
THEOREM NeverAllWaiting == Spec => []SomebodyReady
<1>1. Init => SendsToAll /\ OnlyTwoPlay
  <2> SUFFICES ASSUME Init PROVE SendsToAll /\ OnlyTwoPlay
    OBVIOUS
  <2>1. Shape
    BY InitIInv DEF IInv
  <2>2. run.size \in Nat \ {0} /\ 0 \in Ranks
    BY <2>1, RankFacts
  <2> QED BY <2>2 DEF Init, SendsToAll, OnlyTwoPlay
<1>2. IInv /\ SendsToAll /\ OnlyTwoPlay /\ [Next]_vars => SendsToAll' /\ OnlyTwoPlay'
  BY SendsToAllKept, OnlyTwoPlayKept
<1>3. IInv /\ SendsToAll /\ OnlyTwoPlay => SomebodyReady
  <2> SUFFICES ASSUME IInv, SendsToAll, OnlyTwoPlay, ~ Over PROVE \E r \in Ranks : Ready(r)
    BY DEF SomebodyReady
  <2>1. run.program \in {"ord", "itm", "pingpong", "send"}
    BY DEF IInv, Shape, Runs
  <2> QED BY <2>1, ChainReady, GatherReady, PlayersReady, TransferReady, UnknownReady
<1> QED BY <1>1, <1>2, <1>3, Invariance, PTL DEF Spec
=============================================================================
