---------------------------- MODULE MpiExamples -----------------------------
(***************************************************************************)
(* The MPI examples over the wrapper class Mpi: greetings in order along a *)
(* chain (hello_ord) and gathered by process 0 (hello_itm), the ping-pong, *)
(* and the test of the wrapper, which sends a value, a text, an array or a *)
(* vector to everyone.  A behaviour runs one of them.  MPI itself is       *)
(* external: messages of one process to another arrive in order; a send    *)
(* may or may not return before its message is received; an error ends the *)
(* whole job, as MPI_ERRORS_ARE_FATAL says, so that the wrapper's          *)
(* exceptions are never thrown.                                            *)
(***************************************************************************)
EXTENDS Integers, Sequences, FiniteSets

CONSTANTS MaxSize,   (* bound of the number of processes                   *)
          Buffer     (* BUFFER_SIZE and DEFAULT_CAPACITY, 1024 in the code *)

ASSUME MpiExamplesAssumption == MaxSize \in Nat \ {0} /\ Buffer \in Nat \ {0}

VARIABLES
  run,       (* the program, its processes, its input, how MPI sends       *)
  place,     (* where each process is                                      *)
  next,      (* process 0's loop counter                                   *)
  channel,   (* channel[r][s]: the messages of process r to process s      *)
  value,     (* what each process has read or received                     *)
  gathered,  (* greetings of process 0                                     *)
  said,      (* the lines printed, in order: who and what                  *)
  job        (* "running", or how it was interrupted                       *)

vars == <<run, place, next, channel, value, gathered, said, job>>

Ranks == 0 .. run.size - 1

Types == {"1int", "1str", "1txt", "aint", "vint", "other"}

(* length: how many values or characters the input has.                    *)
Runs ==
  [program : {"ord", "itm", "pingpong"}, size : 1 .. MaxSize, eager : BOOLEAN,
   type : {"1int"}, length : {0}]
  \union
  [program : {"send"}, size : 1 .. MaxSize, eager : BOOLEAN,
   type : Types, length : 0 .. Buffer + 2]

Nothing == -1

Init ==
  /\ run \in Runs
  /\ place = [r \in Ranks |-> "begin"]
  /\ next = 1
  /\ channel = [r \in Ranks |-> [s \in Ranks |-> <<>>]]
  /\ value = [r \in Ranks |-> Nothing]
  /\ gathered = [r \in Ranks |-> Nothing]
  /\ said = <<>>
  /\ job = "running"

-----------------------------------------------------------------------------
(* Mpi.hpp over MPI.                                                       *)

(* Process r's last MPI_Send has returned.                                 *)
SendReturned(r) == run.eager \/ \A s \in Ranks : channel[r][s] = <<>>

Go(r, from, to) ==
  /\ job = "running"
  /\ place[r] = from
  /\ SendReturned(r)
  /\ place' = [place EXCEPT ![r] = to]
  /\ UNCHANGED <<run, job>>

(* How many elements of the message's type send() sends: a text goes with  *)
(* its end.                                                                *)
Elements(type, length) ==
  CASE type = "1int" -> 1
    [] type \in {"1str", "1txt"} -> length + 1
    [] OTHER -> length

Send(r, s, message) == channel' = [channel EXCEPT ![r][s] = Append(@, message)]

Arrived(r, s) == channel[s][r] # <<>>

(* The first message of s to r is received when it fits.                   *)
Take(r, s, capacity) ==
  /\ Arrived(r, s)
  /\ Head(channel[s][r]).elements <= capacity
  /\ channel' = [channel EXCEPT ![s][r] = Tail(@)]

Interrupt(how) ==
  /\ job = "running"
  /\ job' = how
  /\ UNCHANGED <<run, place, next, channel, value, gathered, said>>

(* A message longer than the capacity it is received with is an error.     *)
Truncated(r, from, s, capacity) ==
  /\ place[r] = from /\ SendReturned(r) /\ Arrived(r, s)
  /\ Head(channel[s][r]).elements > capacity
  /\ Interrupt("aborted")

Say(r, what) == said' = Append(said, <<r, what>>)

Message(elements, content) == [elements |-> elements, content |-> content]

-----------------------------------------------------------------------------
(* hello_ord                                                               *)

(* Mutant of WaitForPrevious: nobody waits.                                *)
DoNotWait(r) ==
  /\ Go(r, "begin", "greet")
  /\ UNCHANGED <<next, channel, value, gathered, said>>

WaitForPrevious(r) ==
  /\ Go(r, "begin", "greet")
  /\ IF r = 0 THEN UNCHANGED channel ELSE Take(r, r - 1, 1)
  /\ UNCHANGED <<next, value, gathered, said>>

GreetAndContinue(r) ==
  \/ /\ Go(r, "greet", "continue")
     /\ Say(r, "hello")
     /\ UNCHANGED <<next, channel, value, gathered>>
  \/ /\ Go(r, "continue", "end")
     /\ IF r < run.size - 1 THEN Send(r, r + 1, Message(1, "continue")) ELSE UNCHANGED channel
     /\ UNCHANGED <<next, value, gathered, said>>

OrderedHello(r) == run.program = "ord" /\ (WaitForPrevious(r) \/ GreetAndContinue(r))

-----------------------------------------------------------------------------
(* hello_itm: process 0 receives the greetings as they come and puts each  *)
(* in its place; the room for one, 128 characters, is always enough.       *)

GatheredHello(r) ==
  /\ run.program = "itm"
  /\ \/ /\ r # 0
        /\ Go(r, "begin", "end")
        /\ Send(r, 0, Message(1, r))
        /\ UNCHANGED <<next, value, gathered, said>>
     \/ /\ r = 0
        /\ Go(r, "begin", "gather")
        /\ gathered' = [gathered EXCEPT ![0] = 0]
        /\ UNCHANGED <<next, channel, value, said>>
     \/ /\ r = 0 /\ next < run.size
        /\ Go(r, "gather", "gather")
        /\ \E s \in Ranks \ {0} :
             /\ Take(r, s, 1)
             /\ gathered' = [gathered EXCEPT ![s] = Head(channel[s][0]).content]
        /\ next' = next + 1
        /\ UNCHANGED <<value, said>>
     \/ /\ r = 0 /\ next = run.size
        /\ Go(r, "gather", "print")
        /\ UNCHANGED <<next, channel, value, gathered, said>>
     \/ /\ Go(r, "print", IF Len(said) + 1 = run.size THEN "end" ELSE "print")
        /\ said' = Append(said, <<gathered[Len(said)], "hello">>)
        /\ UNCHANGED <<next, channel, value, gathered>>

-----------------------------------------------------------------------------
(* mpi_ping_pong: with other than two processes nobody plays.              *)

Rival(r) == 1 - r

(* Mutant of Serves: both serve first.                                     *)
BothServe(r) == TRUE

Serves(r) == r = 0

PlayPingPong(r) ==
  \/ /\ Go(r, "begin", "play")
     /\ IF Serves(r) THEN Send(r, Rival(r), Message(1, "ball")) ELSE UNCHANGED channel
     /\ UNCHANGED <<next, value, gathered, said>>
  \/ /\ Go(r, "play", "serve")
     /\ Take(r, Rival(r), 1)
     /\ UNCHANGED <<next, value, gathered, said>>
  \/ /\ Go(r, "serve", "play")
     /\ Send(r, Rival(r), Message(1, "ball"))
     /\ UNCHANGED <<next, value, gathered, said>>

PingPong(r) ==
  /\ run.program = "pingpong"
  /\ \/ run.size = 2 /\ PlayPingPong(r)
     \/ /\ run.size # 2
        /\ Go(r, "begin", "end")
        /\ UNCHANGED <<next, channel, value, gathered, said>>

-----------------------------------------------------------------------------
(* The test of the wrapper.                                                *)

(* Mutant of Capacity: no room for the end of a text.                      *)
CapacityOfText ==
  IF run.type = "1int" THEN 1 ELSE IF run.type \in {"1str", "1txt"} THEN Buffer - 1 ELSE Buffer

(* What a receiver has room for.                                           *)
Capacity == IF run.type = "1int" THEN 1 ELSE Buffer

(* Process 0 reads what it will send.                                      *)
Read(r) ==
  /\ r = 0 /\ run.type # "other"
  /\ run.type = "aint" => run.length <= Buffer
  /\ Go(r, "begin", "send")
  /\ value' = [value EXCEPT ![0] = run.length]
  /\ UNCHANGED <<next, channel, gathered, said>>

(* send_array() stores one value more than it has room for before it looks *)
(* at the count, and ends there.  send_text() does not look: a text with no*)
(* room for its end may end it.  The others take what comes.               *)
Overrun(r) ==
  /\ r = 0 /\ place[r] = "begin"
  /\ \/ run.type = "aint" /\ run.length > Buffer
     \/ run.type = "1txt" /\ run.length + 1 > Buffer
  /\ Interrupt("crashed")

SendToNext(r) ==
  /\ r = 0 /\ next < run.size
  /\ Go(r, "send", "send")
  /\ Send(r, next, Message(Elements(run.type, value[0]), value[0]))
  /\ next' = next + 1
  /\ UNCHANGED <<value, gathered, said>>

SentToAll(r) ==
  /\ r = 0 /\ next = run.size
  /\ Go(r, "send", "print")
  /\ UNCHANGED <<next, channel, value, gathered, said>>

Receive(r) ==
  /\ r # 0 /\ run.type # "other"
  /\ \/ /\ Go(r, "begin", "print")
        /\ Take(r, 0, Capacity)
        /\ value' = [value EXCEPT ![r] = Head(channel[0][r]).content]
        /\ UNCHANGED <<next, gathered, said>>
     \/ Truncated(r, "begin", 0, Capacity)

PrintData(r) ==
  /\ Go(r, "print", "end")
  /\ Say(r, value[r])
  /\ UNCHANGED <<next, channel, value, gathered>>

(* An unknown type of data is an exception, which main() reports.          *)
UnknownType(r) ==
  /\ run.type = "other"
  /\ Go(r, "begin", "end")
  /\ UNCHANGED <<next, channel, value, gathered, said>>

SendTest(r) ==
  /\ run.program = "send"
  /\ \/ Read(r) \/ Overrun(r) \/ SendToNext(r) \/ SentToAll(r) \/ Receive(r) \/ PrintData(r)
     \/ UnknownType(r)

-----------------------------------------------------------------------------
Process(r) == r \in Ranks /\ (OrderedHello(r) \/ GatheredHello(r) \/ PingPong(r) \/ SendTest(r))

Over == job # "running" \/ \A r \in Ranks : place[r] = "end"

Next == (\E r \in Ranks : Process(r)) \/ (Over /\ UNCHANGED vars)

(* Every process goes on while it can.                                     *)
Spec ==
  /\ Init /\ [][Next]_vars
  /\ \A r \in 0 .. MaxSize - 1 : WF_vars(Process(r))

-----------------------------------------------------------------------------
Announced ==
  IF run.program \in {"ord", "itm"} THEN [k \in 1 .. Len(said) |-> said[k][1]] ELSE <<>>

Order == INSTANCE OrderedGreetings WITH Numbers <- 0 .. MaxSize - 1, said <- Announced

(* Along the chain and out of the gathered greetings, the processes greet  *)
(* in the order of their ranks and each once, in whatever order they run   *)
(* and their messages arrive (hello_ord/main.cpp:12-24, hello_itm:21-30).  *)
ImplementsOrdered == Order!Spec

(* What is sent to everyone arrives whole: every process prints, once, what*)
(* process 0 read, and the job is interrupted only by an input that has no *)
(* room in the buffer, in send_text() and send_array(), or at a receiver   *)
(* (mpi_wrapper/src/main.cpp:45-111).  And there is always one ball.       *)
DataArrives ==
  /\ run.program = "send" =>
       /\ \A k \in 1 .. Len(said) :
            said[k][2] = run.length /\ \A l \in 1 .. Len(said) : said[k][1] = said[l][1] => k = l
       /\ job # "running" => Elements(run.type, run.length) > Buffer
       /\ (\A r \in Ranks : place[r] = "end") /\ run.type # "other" =>
            /\ Len(said) = run.size
            /\ run.size > 1 => run.type = "1int" \/ Elements(run.type, run.length) <= Buffer
  /\ run.program = "pingpong" /\ place # [r \in Ranks |-> "begin"] /\ run.size = 2 =>
       Cardinality({r \in Ranks : place[r] = "serve"}) + Len(channel[0][1]) + Len(channel[1][0])
         <= 1

Plays == run.program = "pingpong" /\ run.size = 2

(* The two players of the ping-pong serve for ever in turn, and every other*)
(* program ends, whether or not sends wait for their receivers.            *)
Progress ==
  /\ \A r \in 0 .. 1 : Plays => []<>(r \in Ranks /\ place[r] = "serve")
  /\ ~ Plays => <>Over
=============================================================================
