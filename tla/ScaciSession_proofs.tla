------------------------ MODULE ScaciSession_proofs ------------------------
(***************************************************************************)
(* Theorems about what Application Centers are told, for any number of     *)
(* connections, sensors, uplinks and changes of state: types, and that     *)
(* when nothing is under way the last epStat read of a sensor is its       *)
(* state, unless an epStat may have passed an older one.                   *)
(*                                                                         *)
(* The inductive invariant has two parts.  The first is about places: what *)
(* an epStat has still to send is a stretch of the list of connections,    *)
(* of two of the same sensor one's stretch lies within the other's, and    *)
(* nobody waits where another one of its sensor is about to arrive.  The   *)
(* second is about age, without mentioning it: an epStat that carries an   *)
(* outdated state has a successor with the right one, either with more to  *)
(* do, or with the same to do and further back in the same queue.          *)
(***************************************************************************)
EXTENDS ScaciSession, SequenceTheorems, FiniteSetTheorems, TLAPS

(* A task with what its kind needs; it has begun exactly if it has         *)
(* something left to send.                                                 *)
SoundTask ==
  {t \in Task :
     /\ t.begun <=> t.todo # <<>>
     /\ t.kind = "ulData" => t.ep \in Eps /\ t.uplink > 0
     /\ t.kind = "epStat" => t.ep \in Eps /\ t.state \in States
     /\ t.kind = "burst" => t.conn \in Conns}

(* A task that has begun: one that runs or waits in a drain.               *)
BegunTask == {t \in SoundTask : t.begun}

(* TypeOK, and which tasks the queues can hold.                            *)
TypeInv ==
  /\ TypeOK
  /\ ready \in Seq(SoundTask)
  /\ current \in Seq(BegunTask)
  /\ waiting \in [Conns -> Seq(BegunTask)]

-----------------------------------------------------------------------------
(***************************************************************************)
(* Sequences                                                               *)
(***************************************************************************)

(* The range of a sequence, by positions.                                  *)
LEMMA RangeOf ==
  ASSUME NEW S, NEW q \in Seq(S)
  PROVE  /\ Range(q) \subseteq S
         /\ \A n \in 1 .. Len(q) : q[n] \in Range(q)
         /\ \A x \in Range(q) : \E n \in 1 .. Len(q) : q[n] = x
  BY DEF Range

(* What two sequences hold together.                                       *)
LEMMA ConcatRange ==
  ASSUME NEW S, NEW q \in Seq(S), NEW r \in Seq(S)
  PROVE  Range(q \o r) = Range(q) \cup Range(r)
<1>1. /\ Len(q) \in Nat /\ Len(r) \in Nat
      /\ DOMAIN q = 1 .. Len(q) /\ DOMAIN r = 1 .. Len(r)
      /\ DOMAIN (q \o r) = 1 .. (Len(q) + Len(r))
      /\ \A n \in 1 .. (Len(q) + Len(r)) :
           (q \o r)[n] = IF n <= Len(q) THEN q[n] ELSE r[n - Len(q)]
  OBVIOUS
<1>2. ASSUME NEW n \in 1 .. Len(r)
      PROVE  r[n] \in Range(q \o r)
  <2>1. /\ Len(q) + n \in 1 .. (Len(q) + Len(r))
        /\ ~(Len(q) + n <= Len(q)) /\ (Len(q) + n) - Len(q) = n
    BY <1>1
  <2>2. (q \o r)[Len(q) + n] = r[n]
    BY <1>1, <2>1
  <2> QED
    BY <1>1, <2>1, <2>2 DEF Range
<1>3. ASSUME NEW n \in 1 .. Len(q)
      PROVE  q[n] \in Range(q \o r)
  <2>1. n \in 1 .. (Len(q) + Len(r)) /\ n <= Len(q)
    BY <1>1
  <2> QED
    BY <1>1, <2>1 DEF Range
<1>4. ASSUME NEW n \in 1 .. (Len(q) + Len(r))
      PROVE  (q \o r)[n] \in Range(q) \cup Range(r)
  <2>1. CASE n <= Len(q)
    <3>1. n \in 1 .. Len(q) /\ (q \o r)[n] = q[n]
      BY <1>1, <2>1
    <3> QED
      BY <1>1, <3>1 DEF Range
  <2>2. CASE ~(n <= Len(q))
    <3>1. n - Len(q) \in 1 .. Len(r) /\ (q \o r)[n] = r[n - Len(q)]
      BY <1>1, <2>2
    <3> QED
      BY <1>1, <3>1 DEF Range
  <2> QED
    BY <2>1, <2>2
<1>5. Range(q \o r) \subseteq Range(q) \cup Range(r)
  BY <1>1, <1>4 DEF Range
<1>6. Range(q) \subseteq Range(q \o r) /\ Range(r) \subseteq Range(q \o r)
  BY <1>1, <1>2, <1>3, RangeOf
<1> QED
  BY <1>5, <1>6

(* What a sequence holds after Append.                                     *)
LEMMA AppendRange ==
  ASSUME NEW S, NEW q \in Seq(S), NEW x \in S
  PROVE  Range(Append(q, x)) = Range(q) \cup {x}
<1>1. Append(q, x) = q \o <<x>> /\ <<x>> \in Seq(S)
  OBVIOUS
<1>2. Range(<<x>>) = {x}
  BY DEF Range
<1>3. Range(q \o <<x>>) = Range(q) \cup Range(<<x>>)
  BY <1>1, ConcatRange
<1> QED
  BY <1>1, <1>2, <1>3

(* A sequence holds its head and what its tail holds.                      *)
LEMMA TailRange ==
  ASSUME NEW S, NEW q \in Seq(S), q # <<>>
  PROVE  Range(q) = {Head(q)} \cup Range(Tail(q))
<1>1. /\ Head(q) \in S /\ Tail(q) \in Seq(S) /\ <<Head(q)>> \in Seq(S)
      /\ Len(q) \in Nat /\ Len(q) > 0 /\ Len(Tail(q)) = Len(q) - 1
      /\ \A n \in 1 .. Len(q) - 1 : Tail(q)[n] = q[n + 1]
      /\ Head(q) = q[1] /\ DOMAIN q = 1 .. Len(q)
      /\ DOMAIN Tail(q) = 1 .. Len(q) - 1
  OBVIOUS
<1>2. ASSUME NEW n \in 1 .. Len(q)
      PROVE  q[n] \in {Head(q)} \cup Range(Tail(q))
  <2>1. CASE n = 1
    BY <1>1, <2>1
  <2>2. CASE n # 1
    <3>1. n - 1 \in 1 .. Len(q) - 1 /\ (n - 1) + 1 = n
      BY <1>1, <2>2
    <3>2. Tail(q)[n - 1] = q[n]
      BY <1>1, <3>1
    <3> QED
      BY <1>1, <3>1, <3>2 DEF Range
  <2> QED
    BY <2>1, <2>2
<1>3. ASSUME NEW n \in 1 .. Len(q) - 1
      PROVE  Tail(q)[n] \in Range(q)
  <2>1. n + 1 \in 1 .. Len(q)
    BY <1>1
  <2> QED
    BY <1>1, <2>1 DEF Range
<1>4. Range(q) \subseteq {Head(q)} \cup Range(Tail(q))
  BY <1>1, <1>2 DEF Range
<1>5. Range(Tail(q)) \subseteq Range(q)
  BY <1>1, <1>3 DEF Range
<1>6. Head(q) \in Range(q)
  BY <1>1 DEF Range
<1> QED
  BY <1>4, <1>5, <1>6

(* A sequence of at most one element, as the running task is kept in.      *)
LEMMA ShortSeq ==
  ASSUME NEW S, NEW q \in Seq(S), Len(q) <= 1
  PROVE  /\ q = <<>> => Range(q) = {}
         /\ q # <<>> => /\ q = <<Head(q)>> /\ Range(q) = {Head(q)}
                        /\ Head(q) \in S
<1>1. q = <<>> => Range(q) = {}
  BY DEF Range
<1>2. ASSUME q # <<>>
      PROVE  q = <<Head(q)>> /\ Range(q) = {Head(q)} /\ Head(q) \in S
  <2>1. /\ Len(q) \in Nat /\ Len(q) # 0 /\ Head(q) = q[1]
        /\ Head(q) \in S /\ DOMAIN q = 1 .. Len(q)
    BY <1>2
  <2>2. Len(q) = 1
    BY <2>1
  <2>3. q = <<Head(q)>>
    BY <2>1, <2>2
  <2>4. Range(q) = {Head(q)}
    BY <2>1, <2>2 DEF Range
  <2> QED
    BY <2>1, <2>3, <2>4
<1> QED
  BY <1>1, <1>2

(* What the empty sequence and a sequence of one element hold.             *)
LEMMA ShortRanges == Range(<<>>) = {} /\ \A x : Range(<<x>>) = {x}
  BY DEF Range

(* A sequence without its element at p.                                    *)
LEMMA RemoveIs ==
  ASSUME NEW S, NEW q \in Seq(S), NEW p \in 1 .. Len(q)
  PROVE  /\ RemoveAt(q, p) \in Seq(S)
         /\ Len(RemoveAt(q, p)) = Len(q) - 1
         /\ \A n \in 1 .. Len(q) - 1 :
              RemoveAt(q, p)[n] = IF n < p THEN q[n] ELSE q[n + 1]
<1> DEFINE a == SubSeq(q, 1, p - 1)
           b == SubSeq(q, p + 1, Len(q))
<1>1. /\ Len(q) \in Nat /\ p \in Int /\ 1 <= p /\ p <= Len(q)
  OBVIOUS
<1>2. /\ a \in Seq(S) /\ Len(a) = p - 1
      /\ \A n \in 1 .. p - 1 : a[n] = q[n]
  BY <1>1
<1>3. /\ b \in Seq(S) /\ Len(b) = Len(q) - p
      /\ \A n \in 1 .. Len(q) - p : b[n] = q[p + n]
  BY <1>1
<1> HIDE DEF a, b
<1>4. /\ Len(a) \in Nat /\ Len(b) \in Nat
      /\ a \in Seq(S) /\ b \in Seq(S)
  BY <1>2, <1>3
<1>5. /\ a \o b \in Seq(S) /\ Len(a \o b) = Len(a) + Len(b)
      /\ \A n \in 1 .. (Len(a) + Len(b)) :
           (a \o b)[n] = IF n <= Len(a) THEN a[n] ELSE b[n - Len(a)]
  BY <1>4
<1>6. Len(a) + Len(b) = Len(q) - 1
  BY <1>1, <1>2, <1>3
<1>7. ASSUME NEW n \in 1 .. Len(q) - 1
      PROVE  (a \o b)[n] = IF n < p THEN q[n] ELSE q[n + 1]
  <2>1. CASE n < p
    BY <1>1, <1>2, <1>5, <1>6, <2>1
  <2>2. CASE ~(n < p)
    <3>1. n - (p - 1) \in 1 .. Len(q) - p /\ p + (n - (p - 1)) = n + 1
      BY <1>1, <2>2
    <3>2. ~(n <= Len(a)) /\ n - Len(a) = n - (p - 1)
      BY <1>1, <1>2, <2>2
    <3> QED
      BY <1>3, <1>5, <1>6, <2>2, <3>1, <3>2
  <2> QED
    BY <2>1, <2>2
<1>8. RemoveAt(q, p) = a \o b
  BY DEF RemoveAt, a, b
<1> QED
  BY <1>5, <1>6, <1>7, <1>8

-----------------------------------------------------------------------------
(***************************************************************************)
(* Types                                                                   *)
(***************************************************************************)

(* At the start there are no tasks.                                        *)
LEMMA InitTyped == Init => TypeInv
<1> SUFFICES ASSUME Init PROVE TypeInv
  OBVIOUS
<1>1. /\ 0 \in 0 .. MaxUplinks /\ 0 \in 0 .. MaxChanges
  BY SessionAssumption
<1>2. /\ <<>> \in Seq(Task) /\ <<>> \in Seq(SoundTask)
      /\ <<>> \in Seq(BegunTask)
      /\ <<>> \in Seq({c \in Conns : handler[c] # "gone"}) /\ Len(<<>>) = 0
  OBVIOUS
<1>3. IsInjective(connected)
  BY DEF Init, IsInjective
<1>4. /\ connected = <<>> /\ ready = <<>> /\ current = <<>>
      /\ waiting = [c \in Conns |-> <<>>]
  BY DEF Init
<1>5. TypeOK
  <2>1. /\ handler \in [Conns -> {"open", "answering", "gone"}]
        /\ registered \in [Acs -> SUBSET Eps]
        /\ closing \subseteq Conns /\ paused \subseteq Conns
        /\ state \in [Eps -> States \cup {None}]
    BY DEF Init
  <2>2. /\ got \in [Conns -> SUBSET (1 .. MaxUplinks)]
        /\ told \in [Conns -> [Eps -> States \cup {None}]]
        /\ overtaken \in BOOLEAN
    BY DEF Init
  <2>3. uplinks \in 0 .. MaxUplinks /\ changes \in 0 .. MaxChanges
    BY <1>1 DEF Init
  <2> QED
    BY <1>2, <1>3, <1>4, <2>1, <2>2, <2>3 DEF TypeOK
<1> QED
  BY <1>2, <1>4, <1>5 DEF TypeInv

(* Begun tasks are sound, and sound tasks are tasks.                       *)
LEMMA BegunAreSound ==
  BegunTask \subseteq SoundTask /\ SoundTask \subseteq Task
  BY DEF BegunTask, SoundTask

(* What is left of a begun task after it has sent is none or a begun task. *)
LEMMA RestSound ==
  ASSUME NEW t \in BegunTask
  PROVE  /\ t.todo \in Seq(Conns \X Eps) /\ t.todo # <<>>
         /\ Head(t.todo)[1] \in Conns /\ Head(t.todo)[2] \in Eps
         /\ Head(t.todo) = <<Head(t.todo)[1], Head(t.todo)[2]>>
         /\ Sent(t) \in Seq(BegunTask)
         /\ Tail(t.todo) = <<>> => Sent(t) = <<>>
         /\ Tail(t.todo) # <<>> =>
              /\ Sent(t) = <<[t EXCEPT !.todo = Tail(t.todo)]>>
              /\ [t EXCEPT !.todo = Tail(t.todo)] \in BegunTask
<1>1. t \in Task /\ t \in SoundTask /\ t.begun /\ t.todo # <<>>
  BY DEF BegunTask, SoundTask
<1>2. t.todo \in Seq(Conns \X Eps)
  BY <1>1 DEF Task
<1>3. Head(t.todo) \in Conns \X Eps
  BY <1>1, <1>2
<1>4. Tail(t.todo) \in Seq(Conns \X Eps)
  BY <1>1, <1>2
<1> DEFINE s == [t EXCEPT !.todo = Tail(t.todo)]
<1>5. /\ s \in Task /\ s.todo = Tail(t.todo) /\ s.begun = t.begun
      /\ s.kind = t.kind /\ s.ep = t.ep /\ s.uplink = t.uplink
      /\ s.state = t.state /\ s.conn = t.conn
  BY <1>1, <1>4 DEF Task
<1>6. Sent(t) = IF s.todo = <<>> THEN <<>> ELSE <<s>>
  BY DEF Sent, Left
<1>7. Tail(t.todo) # <<>> => s \in BegunTask
  BY <1>1, <1>5 DEF BegunTask, SoundTask
<1>8. Sent(t) \in Seq(BegunTask)
  BY <1>5, <1>6, <1>7
<1>9. Tail(t.todo) = <<>> => Sent(t) = <<>>
  BY <1>5, <1>6
<1>10. Tail(t.todo) # <<>> => Sent(t) = <<s>>
  BY <1>5, <1>6
<1>11. /\ Head(t.todo)[1] \in Conns /\ Head(t.todo)[2] \in Eps
       /\ Head(t.todo) = <<Head(t.todo)[1], Head(t.todo)[2]>>
  BY <1>3
<1> QED
  BY <1>1, <1>2, <1>7, <1>8, <1>9, <1>10, <1>11

(* A created task joins the end of the ready queue.                        *)
LEMMA SpawnTyped ==
  ASSUME TypeInv, NEW t \in SoundTask, Spawn(t)
  PROVE  /\ ready' \in Seq(SoundTask) /\ ready' \in Seq(Task)
         /\ current' = current
<1>1. SoundTask \subseteq Task
  BY DEF SoundTask
<1> QED
  BY <1>1 DEF TypeInv, TypeOK, Spawn

(* The tasks the server creates are sound and have not begun.              *)
LEMMA NewTasksSound ==
  /\ \A c \in Conns : LET t == [NewTask EXCEPT !.conn = c]
                      IN  /\ t \in SoundTask /\ t.kind = "burst"
                          /\ t.conn = c /\ ~t.begun /\ t.todo = <<>>
  /\ \A e \in Eps, n \in 1 .. MaxUplinks :
       LET t == [NewTask EXCEPT !.kind = "ulData", !.ep = e, !.uplink = n]
       IN  t \in SoundTask /\ t.kind = "ulData" /\ ~t.begun /\ t.todo = <<>>
  /\ \A e \in Eps, s \in States :
       LET t == [NewTask EXCEPT !.kind = "epStat", !.ep = e, !.state = s]
       IN  /\ t \in SoundTask /\ t.kind = "epStat" /\ t.ep = e
           /\ t.state = s /\ ~t.begun /\ t.todo = <<>>
<1>1. /\ <<>> \in Seq(Conns \X Eps) /\ 0 \in 0 .. MaxUplinks
  BY SessionAssumption
<1>2. ASSUME NEW c \in Conns
      PROVE  LET t == [NewTask EXCEPT !.conn = c]
             IN  /\ t \in SoundTask /\ t.kind = "burst"
                 /\ t.conn = c /\ ~t.begun /\ t.todo = <<>>
  <2> DEFINE t == [NewTask EXCEPT !.conn = c]
  <2>1. /\ t \in Task /\ t.kind = "burst" /\ t.conn = c
        /\ t.begun = FALSE /\ t.todo = <<>>
    BY <1>1 DEF NewTask, Task
  <2> QED
    BY <2>1 DEF SoundTask
<1>3. ASSUME NEW e \in Eps, NEW n \in 1 .. MaxUplinks
      PROVE  LET t == [NewTask EXCEPT !.kind = "ulData", !.ep = e,
                                      !.uplink = n]
             IN  /\ t \in SoundTask /\ t.kind = "ulData" /\ ~t.begun
                 /\ t.todo = <<>>
  <2> DEFINE t == [NewTask EXCEPT !.kind = "ulData", !.ep = e, !.uplink = n]
  <2>1. n \in 0 .. MaxUplinks /\ n > 0
    BY SessionAssumption
  <2>2. /\ t \in Task /\ t.kind = "ulData" /\ t.ep = e /\ t.uplink = n
        /\ t.begun = FALSE /\ t.todo = <<>>
    BY <1>1, <2>1 DEF NewTask, Task
  <2> QED
    BY <2>1, <2>2 DEF SoundTask
<1>4. ASSUME NEW e \in Eps, NEW s \in States
      PROVE  LET t == [NewTask EXCEPT !.kind = "epStat", !.ep = e,
                                      !.state = s]
             IN  /\ t \in SoundTask /\ t.kind = "epStat" /\ t.ep = e
                 /\ t.state = s /\ ~t.begun /\ t.todo = <<>>
  <2> DEFINE t == [NewTask EXCEPT !.kind = "epStat", !.ep = e, !.state = s]
  <2>1. /\ t \in Task /\ t.kind = "epStat" /\ t.ep = e /\ t.state = s
        /\ t.begun = FALSE /\ t.todo = <<>>
    BY <1>1 DEF NewTask, Task
  <2> QED
    BY <2>1 DEF SoundTask
<1> QED
  BY <1>2, <1>3, <1>4

(* The list of connections: nobody twice, so that Place finds a connection *)
(* where it is listed.                                                     *)
LEMMA ConnectedIs ==
  ASSUME TypeOK
  PROVE  /\ connected \in Seq(Conns) /\ Range(connected) \subseteq Conns
         /\ Len(connected) \in Nat /\ DOMAIN connected = 1 .. Len(connected)
         /\ \A n \in DOMAIN connected : /\ connected[n] \in Conns
                                        /\ handler[connected[n]] # "gone"
         /\ \A m, n \in DOMAIN connected : connected[m] = connected[n] => m = n
         /\ \A n \in DOMAIN connected : Place(connected[n]) = n
         /\ \A c \in Range(connected) : /\ Place(c) \in DOMAIN connected
                                        /\ connected[Place(c)] = c
<1>1. /\ connected \in Seq({c \in Conns : handler[c] # "gone"})
      /\ IsInjective(connected)
  BY DEF TypeOK
<1>2. connected \in Seq(Conns)
  BY <1>1
<1>3. \A m, n \in DOMAIN connected : connected[m] = connected[n] => m = n
  BY <1>1 DEF IsInjective
<1>4. \A n \in DOMAIN connected : Place(connected[n]) = n
  BY <1>3 DEF Place
<1>5. \A c \in Range(connected) : \E n \in DOMAIN connected : connected[n] = c
  BY DEF Range
<1> QED
  BY <1>1, <1>2, <1>3, <1>4, <1>5, RangeOf

(* What a task sets out to do is a sequence of messages.                   *)
LEMMA TodoTyped ==
  ASSUME TypeInv, NEW t \in SoundTask, NEW q \in Todo(t)
  PROVE  q \in Seq(Conns \X Eps)
<1> USE DEF Todo
<1>1. t \in Task
  BY DEF SoundTask
<1>2. CASE t.kind = "ulData"
  <2>1. t.ep \in Eps
    BY <1>2 DEF SoundTask
  <2> DEFINE S == Recipients(t.ep)
  <2>2. S \subseteq DOMAIN connected
    BY DEF Recipients
  <2>3. PICK f \in Ascending(S) :
          q = [n \in DOMAIN f |-> <<connected[f[n]], t.ep>>]
    BY <1>2
  <2>4. IsFiniteSet(DOMAIN connected)
    <3>1. 1 \in Int /\ Len(connected) \in Int
      BY ConnectedIs DEF TypeInv
    <3>2. IsFiniteSet(1 .. Len(connected))
      BY <3>1, FS_Interval
    <3> QED
      BY <3>2, ConnectedIs DEF TypeInv
  <2>5. Cardinality(S) \in Nat
    BY <2>2, <2>4, FS_Subset, FS_CardinalityType
  <2>6. f \in [1 .. Cardinality(S) -> S]
    BY <2>3 DEF Ascending
  <2> HIDE DEF S
  <2>7. \A n \in 1 .. Cardinality(S) :
          <<connected[f[n]], t.ep>> \in Conns \X Eps
    BY <2>1, <2>2, <2>6, ConnectedIs DEF TypeInv
  <2> QED
    BY <2>3, <2>5, <2>6, <2>7
<1>3. CASE t.kind = "epStat"
  <2>1. t.ep \in Eps
    BY <1>3 DEF SoundTask
  <2>2. q = [n \in DOMAIN connected |-> <<connected[n], t.ep>>]
    BY <1>3
  <2> QED
    BY <2>1, <2>2, ConnectedIs DEF TypeInv
<1>4. CASE t.kind = "burst"
  <2>1. t.conn \in Conns
    BY <1>4 DEF SoundTask
  <2> DEFINE S == {e \in Eps : state[e] # None}
  <2>2. PICK f \in SetToSeqs(S) : q = [n \in DOMAIN f |-> <<t.conn, f[n]>>]
    BY <1>4
  <2>3. Cardinality(S) \in Nat
    BY SessionAssumption, FS_Subset, FS_CardinalityType
  <2>4. f \in [1 .. Cardinality(S) -> S]
    BY <2>2 DEF SetToSeqs
  <2>5. S \subseteq Eps
    OBVIOUS
  <2> HIDE DEF S
  <2> QED
    BY <2>1, <2>2, <2>3, <2>4, <2>5
<1> QED
  BY <1>1, <1>2, <1>3, <1>4 DEF Task

(* Every step keeps the types.                                             *)
LEMMA StepTyped == TypeInv /\ [Next]_sessionVars => TypeInv'
<1> SUFFICES ASSUME TypeInv, [Next]_sessionVars PROVE TypeInv'
  OBVIOUS
<1> USE DEF connVars, taskVars, sensorVars
<1> DEFINE Tasks == <<waiting, ready, current, paused>>
           Histories == <<got, told, overtaken>>
<1>1. /\ handler \in [Conns -> {"open", "answering", "gone"}]
      /\ connected \in Seq({c \in Conns : handler[c] # "gone"})
      /\ IsInjective(connected)
      /\ registered \in [Acs -> SUBSET Eps]
      /\ closing \subseteq Conns
  BY DEF TypeInv, TypeOK
<1>2. /\ paused \subseteq Conns
      /\ \A c \in Conns : waiting[c] # <<>> => c \in paused
      /\ \A c \in Conns : waiting[c] \in Seq(Task)
      /\ ready \in Seq(Task)
      /\ current \in Seq(Task) /\ Len(current) <= 1
      /\ ready \in Seq(SoundTask)
      /\ current \in Seq(BegunTask)
      /\ waiting \in [Conns -> Seq(BegunTask)]
  BY DEF TypeInv, TypeOK
<1>3. /\ state \in [Eps -> States \cup {None}]
      /\ uplinks \in 0 .. MaxUplinks
      /\ changes \in 0 .. MaxChanges
      /\ got \in [Conns -> SUBSET (1 .. MaxUplinks)]
      /\ told \in [Conns -> [Eps -> States \cup {None}]]
      /\ overtaken \in BOOLEAN
  BY DEF TypeInv, TypeOK
<1>4. SoundTask \subseteq Task /\ BegunTask \subseteq SoundTask
  BY DEF SoundTask, BegunTask
<1>5. uplinks \in Nat /\ changes \in Nat
  BY <1>3, SessionAssumption
<1>6. ASSUME NEW c \in Conns, Con(c)
      PROVE  TypeInv'
  <2> DEFINE H == {d \in Conns : handler'[d] # "gone"}
  <2>1. /\ handler' \in [Conns -> {"open", "answering", "gone"}]
        /\ c \in H /\ \A d \in Conns : handler[d] # "gone" => d \in H
    BY <1>6, <1>1 DEF Con
  <2>2. /\ connected \in Seq(H) /\ connected' = Append(connected, c)
        /\ c \notin Range(connected)
    BY <1>6, <1>1, <2>1 DEF Con
  <2> HIDE DEF H
  <2>3. /\ connected' \in Seq(H) /\ Len(connected) \in Nat
        /\ DOMAIN connected = 1 .. Len(connected)
        /\ DOMAIN connected' = 1 .. (Len(connected) + 1)
        /\ \A n \in 1 .. (Len(connected) + 1) :
             connected'[n] = IF n = Len(connected) + 1 THEN c
                             ELSE connected[n]
    BY <2>1, <2>2
  <2>4. \A n \in 1 .. Len(connected) : connected[n] # c
    BY <2>2, <2>3 DEF Range
  <2>5. \A m, n \in 1 .. Len(connected) :
          connected[m] = connected[n] => m = n
    BY <1>1, <2>3 DEF IsInjective
  <2>6. IsInjective(connected')
    <3> SUFFICES ASSUME NEW m \in 1 .. (Len(connected) + 1),
                        NEW n \in 1 .. (Len(connected) + 1),
                        connected'[m] = connected'[n]
                 PROVE  m = n
      BY <2>3 DEF IsInjective
    <3> QED
      BY <2>3, <2>4, <2>5
  <2> QED
    BY <1>6, <1>1, <1>2, <1>3, <2>1, <2>3, <2>6 DEF Con, TypeInv, TypeOK, H
<1>7. ASSUME NEW c \in Conns, Answered(c)
      PROVE  TypeInv'
  <2>1. /\ ready' \in Seq(SoundTask) /\ ready' \in Seq(Task)
        /\ current' = current
    BY <1>7, NewTasksSound, SpawnTyped DEF Answered
  <2>2. /\ handler' \in [Conns -> {"open", "answering", "gone"}]
        /\ {d \in Conns : handler'[d] # "gone"}
             = {d \in Conns : handler[d] # "gone"}
    BY <1>7, <1>1 DEF Answered
  <2> QED
    BY <1>7, <1>1, <1>2, <1>3, <2>1, <2>2 DEF Answered, TypeInv, TypeOK
<1>8. ASSUME NEW c \in Conns, NEW e \in Eps, Reg(c, e) \/ Dereg(c, e)
      PROVE  TypeInv'
  <2>1. registered' \in [Acs -> SUBSET Eps]
    <3>1. Eui(c) \in Acs
      BY SessionAssumption DEF Eui
    <3> QED
      BY <1>8, <1>1, <3>1 DEF Reg, Dereg
  <2> QED
    BY <1>8, <1>1, <1>2, <1>3, <2>1 DEF Reg, Dereg, TypeInv, TypeOK
<1>9. ASSUME NEW c \in Conns, Forget(c)
      PROVE  /\ closing' \subseteq Conns
             /\ got' \in [Conns -> SUBSET (1 .. MaxUplinks)]
             /\ told' \in [Conns -> [Eps -> States \cup {None}]]
  BY <1>9, <1>1, <1>3 DEF Forget
<1>10. ASSUME NEW c \in Conns, Closes(c)
      PROVE  TypeInv'
  <2>1. /\ closing' \subseteq Conns
        /\ got' \in [Conns -> SUBSET (1 .. MaxUplinks)]
        /\ told' \in [Conns -> [Eps -> States \cup {None}]]
    BY <1>9, <1>10 DEF Closes
  <2> QED
    BY <1>10, <1>1, <1>2, <1>3, <2>1 DEF Closes, TypeInv, TypeOK
<1>11. ASSUME NEW c \in Conns, Cleanup(c)
      PROVE  TypeInv'
  <2>1. /\ closing' \subseteq Conns
        /\ got' \in [Conns -> SUBSET (1 .. MaxUplinks)]
        /\ told' \in [Conns -> [Eps -> States \cup {None}]]
    BY <1>9, <1>11 DEF Cleanup
  <2>2. registered' \in [Acs -> SUBSET Eps] /\ overtaken' \in BOOLEAN
    BY <1>11, <1>1, <1>3, SessionAssumption DEF Cleanup
  <2>3. handler' \in [Conns -> {"open", "answering", "gone"}]
    BY <1>11, <1>1 DEF Cleanup
  <2>4. /\ connected' \in Seq({d \in Conns : handler'[d] # "gone"})
        /\ IsInjective(connected')
    <3> DEFINE N == Len(connected)
    <3>1. /\ connected \in Seq(Conns) /\ N \in Nat
          /\ DOMAIN connected = 1 .. N
          /\ \A n \in 1 .. N : /\ connected[n] \in Conns
                               /\ handler[connected[n]] # "gone"
          /\ \A m, n \in 1 .. N : connected[m] = connected[n] => m = n
      BY ConnectedIs DEF TypeInv
    <3>2. \A d \in Conns : d # c /\ handler[d] # "gone" => handler'[d] # "gone"
      BY <1>11, <1>1 DEF Cleanup
    <3>3. CASE c \notin Range(connected)
      <4>1. connected' = connected
        BY <1>11, <3>3 DEF Cleanup
      <4>2. \A n \in 1 .. N : connected[n] # c
        BY <3>1, <3>3 DEF Range
      <4>3. \A n \in 1 .. N :
              connected[n] \in {d \in Conns : handler'[d] # "gone"}
        BY <3>1, <3>2, <4>2
      <4> QED
        BY <1>1, <3>1, <4>1, <4>3
    <3>4. CASE c \in Range(connected)
      <4> DEFINE p == Place(c)
                 r == RemoveAt(connected, p)
      <4>1. p \in 1 .. N /\ connected[p] = c /\ connected' = r
        BY <1>11, <3>1, <3>4, ConnectedIs DEF Cleanup, TypeInv
      <4>2. /\ r \in Seq(Conns) /\ Len(r) = N - 1
            /\ \A n \in 1 .. N - 1 :
                 r[n] = IF n < p THEN connected[n] ELSE connected[n + 1]
        BY <3>1, <4>1, RemoveIs
      <4> HIDE DEF p, r, N
      <4>3. /\ DOMAIN r = 1 .. N - 1 /\ p \in Int
            /\ \A n \in 1 .. N - 1 : n \in 1 .. N /\ n + 1 \in 1 .. N
        BY <3>1, <4>1, <4>2
      <4>4. ASSUME NEW n \in 1 .. N - 1
            PROVE  r[n] \in {d \in Conns : handler'[d] # "gone"}
        <5>1. \/ r[n] = connected[n] /\ n # p
              \/ r[n] = connected[n + 1] /\ n + 1 # p
          <6>1. CASE n < p
            BY <4>2, <4>3, <6>1
          <6>2. CASE ~(n < p)
            BY <4>2, <4>3, <6>2
          <6> QED
            BY <6>1, <6>2
        <5>2. r[n] # c /\ r[n] \in Conns /\ handler[r[n]] # "gone"
          BY <3>1, <4>1, <4>3, <5>1
        <5> QED
          BY <3>2, <5>2
      <4>5. ASSUME NEW m \in 1 .. N - 1, NEW n \in 1 .. N - 1, r[m] = r[n]
            PROVE  m = n
        <5>1. m < p \/ m >= p
          BY <4>3
        <5>2. n < p \/ n >= p
          BY <4>3
        <5>3. CASE m < p /\ n < p
          BY <3>1, <4>2, <4>3, <4>5, <5>3
        <5>4. CASE m >= p /\ n >= p
          <6>1. connected[m + 1] = connected[n + 1]
            BY <4>2, <4>3, <4>5, <5>4
          <6>2. m + 1 = n + 1
            BY <3>1, <4>3, <6>1
          <6> QED
            BY <6>2
        <5>5. CASE m < p /\ n >= p
          <6>1. connected[m] = connected[n + 1]
            BY <4>2, <4>3, <4>5, <5>5
          <6> QED
            BY <3>1, <4>3, <5>5, <6>1
        <5>6. CASE m >= p /\ n < p
          <6>1. connected[m + 1] = connected[n]
            BY <4>2, <4>3, <4>5, <5>6
          <6> QED
            BY <3>1, <4>3, <5>6, <6>1
        <5> QED
          BY <5>1, <5>2, <5>3, <5>4, <5>5, <5>6
      <4>6. r \in Seq({d \in Conns : handler'[d] # "gone"})
        BY <4>2, <4>3, <4>4
      <4>7. IsInjective(r)
        BY <4>3, <4>5 DEF IsInjective
      <4> QED
        BY <4>1, <4>6, <4>7
    <3> QED
      BY <3>3, <3>4
  <2> QED
    BY <1>11, <1>2, <1>3, <2>1, <2>2, <2>3, <2>4 DEF Cleanup, TypeInv, TypeOK
<1>12. ASSUME NEW c \in Conns, Resumes(c)
      PROVE  TypeInv'
  <2>1. waiting[c] \in Seq(SoundTask) /\ waiting[c] \in Seq(Task)
    BY <1>2, <1>4
  <2>2. ready' \in Seq(SoundTask) /\ ready' \in Seq(Task)
    BY <1>12, <1>2, <2>1 DEF Resumes
  <2>3. /\ waiting' \in [Conns -> Seq(BegunTask)]
        /\ \A d \in Conns : waiting'[d] \in Seq(Task)
        /\ \A d \in Conns : waiting'[d] # <<>> => d \in paused'
        /\ paused' \subseteq Conns
    BY <1>12, <1>2 DEF Resumes
  <2> QED
    BY <1>12, <1>1, <1>2, <1>3, <2>2, <2>3 DEF Resumes, TypeInv, TypeOK
<1>13. ASSUME NEW e \in Eps, Publish(e)
      PROVE  TypeInv'
  <2>1. uplinks' \in 1 .. MaxUplinks /\ uplinks' \in 0 .. MaxUplinks
    BY <1>13, <1>5, SessionAssumption DEF Publish
  <2>2. /\ ready' \in Seq(SoundTask) /\ ready' \in Seq(Task)
        /\ current' = current
    BY <1>13, <2>1, NewTasksSound, SpawnTyped DEF Publish
  <2> QED
    BY <1>13, <1>1, <1>2, <1>3, <2>1, <2>2 DEF Publish, TypeInv, TypeOK
<1>14. ASSUME NEW e \in Eps, Appear(e)
      PROVE  TypeInv'
  <2>1. state' \in [Eps -> States \cup {None}]
    BY <1>14, <1>3 DEF Appear, States
  <2> QED
    BY <1>14, <1>1, <1>2, <1>3, <2>1 DEF Appear, TypeInv, TypeOK
<1>15. ASSUME NEW e \in Eps, Change(e)
       PROVE  TypeInv'
  <2>1. PICK s \in States \ {state[e]} :
          /\ state' = [state EXCEPT ![e] = s]
          /\ Spawn([NewTask EXCEPT !.kind = "epStat", !.ep = e, !.state = s])
    BY <1>15 DEF Change
  <2>2. /\ ready' \in Seq(SoundTask) /\ ready' \in Seq(Task)
        /\ current' = current
    BY <2>1, NewTasksSound, SpawnTyped
  <2>3. state' \in [Eps -> States \cup {None}]
    BY <1>3, <2>1
  <2>4. changes' \in 0 .. MaxChanges
    BY <1>15, <1>5, SessionAssumption DEF Change
  <2> QED
    BY <1>15, <1>1, <1>2, <1>3, <2>2, <2>3, <2>4 DEF Change, TypeInv, TypeOK
<1>16. CASE RunNext
  <2> DEFINE t == Head(ready)
  <2>1. t \in SoundTask /\ ready' \in Seq(SoundTask) /\ ready' \in Seq(Task)
    <3>1. ready # <<>> /\ ready' = Tail(ready)
      BY <1>16 DEF RunNext
    <3>2. Tail(ready) \in Seq(SoundTask) /\ Head(ready) \in SoundTask
      BY <1>2, <3>1
    <3> QED
      BY <1>4, <3>1, <3>2
  <2>2. current' \in Seq(BegunTask) /\ Len(current') <= 1
    <3>1. CASE t.begun
      <4>1. t \in BegunTask /\ current' = <<t>>
        BY <1>16, <2>1, <3>1 DEF RunNext, BegunTask
      <4> QED
        BY <4>1
    <3>2. CASE ~t.begun
      <4>1. PICK q \in Todo(t) :
              current' = Left([t EXCEPT !.begun = TRUE, !.todo = q])
        BY <1>16, <3>2 DEF RunNext
      <4>2. q \in Seq(Conns \X Eps)
        BY <2>1, TodoTyped
      <4> DEFINE u == [t EXCEPT !.begun = TRUE, !.todo = q]
      <4>3. t \in Task
        BY <2>1, <1>4
      <4>4. /\ u \in Task /\ u.begun = TRUE /\ u.todo = q /\ u.kind = t.kind
            /\ u.ep = t.ep /\ u.uplink = t.uplink /\ u.state = t.state
            /\ u.conn = t.conn
        BY <4>2, <4>3 DEF Task
      <4>5. u.todo # <<>> => u \in BegunTask
        BY <2>1, <4>4 DEF SoundTask, BegunTask
      <4> HIDE DEF u
      <4>6. current' = IF u.todo = <<>> THEN <<>> ELSE <<u>>
        BY <4>1 DEF Left, u
      <4> QED
        BY <4>5, <4>6
    <3> QED
      BY <3>1, <3>2
  <2>3. current' \in Seq(Task)
    BY <2>2, <1>4
  <2>4. overtaken' \in BOOLEAN
    BY <1>16, <1>3 DEF RunNext
  <2> QED
    BY <1>16, <1>1, <1>2, <1>3, <2>1, <2>2, <2>3, <2>4
       DEF RunNext, TypeInv, TypeOK
<1>17. CASE Send
  <2> DEFINE t == Head(current)
             c == Head(t.todo)[1]
             e == Head(t.todo)[2]
  <2>1. t \in BegunTask /\ t \in SoundTask /\ t \in Task
    BY <1>17, <1>2, <1>4 DEF Send
  <2>2. /\ c \in Conns /\ e \in Eps
        /\ Sent(t) \in Seq(BegunTask)
        /\ Sent(t) \in Seq(SoundTask) /\ Sent(t) \in Seq(Task)
        /\ Len(Sent(t)) <= 1
    <3>1. c \in Conns /\ e \in Eps /\ Sent(t) \in Seq(BegunTask)
      BY <2>1, RestSound
    <3>2. Len(Sent(t)) <= 1
      BY DEF Sent, Left
    <3> QED
      BY <3>1, <3>2, <1>4
  <2>3. /\ SendClosed(t, c) \/ SendWaits(t, c) \/ SendOn(t, c)
        /\ UNCHANGED <<connVars, closing, sensorVars, overtaken>>
    BY <1>17 DEF Send
  <2>4. /\ got' \in [Conns -> SUBSET (1 .. MaxUplinks)]
        /\ told' \in [Conns -> [Eps -> States \cup {None}]]
    <3>1. ASSUME Written(t, c, e)
          PROVE  /\ got' \in [Conns -> SUBSET (1 .. MaxUplinks)]
                 /\ told' \in [Conns -> [Eps -> States \cup {None}]]
      <4>1. CASE t.kind = "ulData"
        <5>1. t.uplink \in 1 .. MaxUplinks
          BY <2>1, <4>1, SessionAssumption DEF SoundTask, Task
        <5> QED
          BY <1>3, <2>2, <3>1, <4>1, <5>1 DEF Written
      <4>2. CASE t.kind # "ulData"
        <5>1. t.state \in States \cup {None} /\ state[e] \in States \cup {None}
          BY <2>1, <2>2, <1>3 DEF Task
        <5>2. PICK s \in States \cup {None} :
                told' = [told EXCEPT ![c][e] = s] /\ got' = got
          BY <3>1, <4>2, <5>1 DEF Written
        <5> QED
          BY <1>3, <2>2, <5>2
      <4> QED
        BY <4>1, <4>2
    <3>2. CASE SendClosed(t, c)
      BY <1>3, <3>2 DEF SendClosed
    <3>3. CASE SendWaits(t, c)
      BY <3>1, <3>3 DEF SendWaits
    <3>4. CASE SendOn(t, c)
      BY <3>1, <3>4 DEF SendOn
    <3> QED
      BY <2>3, <3>2, <3>3, <3>4
  <2>5. /\ ready' \in Seq(SoundTask) /\ ready' \in Seq(Task)
        /\ current' \in Seq(BegunTask) /\ current' \in Seq(Task)
        /\ Len(current') <= 1
    <3>1. /\ ready' = ready \/ ready' = ready \o Sent(t)
          /\ current' = <<>> \/ current' = Sent(t)
      BY <2>3 DEF SendClosed, SendWaits, SendOn
    <3>2. /\ ready \o Sent(t) \in Seq(SoundTask)
          /\ ready \o Sent(t) \in Seq(Task)
      BY <1>2, <2>2
    <3>3. /\ <<>> \in Seq(BegunTask) /\ <<>> \in Seq(Task) /\ Len(<<>>) <= 1
          /\ Sent(t) \in Seq(Task)
      BY <2>2
    <3> QED
      BY <1>2, <2>2, <3>1, <3>2, <3>3
  <2>6. /\ waiting' \in [Conns -> Seq(BegunTask)]
        /\ \A d \in Conns : waiting'[d] # <<>> => d \in paused'
        /\ paused' \subseteq Conns
    <3>1. waiting[c] \o Sent(t) \in Seq(BegunTask)
      BY <1>2, <2>2
    <3> QED
      BY <1>2, <2>2, <2>3, <3>1 DEF SendClosed, SendWaits, SendOn
  <2>7. \A d \in Conns : waiting'[d] \in Seq(Task)
    BY <2>6, <1>4
  <2> QED
    BY <1>1, <1>3, <2>3, <2>4, <2>5, <2>6, <2>7 DEF TypeInv, TypeOK
<1>18. CASE UNCHANGED sessionVars
  BY <1>18, <1>1, <1>2, <1>3 DEF sessionVars, TypeInv, TypeOK
<1> QED
  BY <1>6, <1>7, <1>8, <1>10, <1>11, <1>12, <1>13, <1>14, <1>15, <1>16, <1>17,
     <1>18 DEF Next, RunTasks, ApplicationCenter

(* The types and the kinds of tasks in the queues hold in every behaviour. *)
THEOREM TypeInvariance == Spec => []TypeInv
  BY InitTyped, StepTyped, PTL DEF Spec

(* The session state of the SCACI server is always of its type: the        *)
(* connections listed are listed once and not gone, tasks wait only where  *)
(* writing is paused, and at most one task runs.                           *)
THEOREM TypeCorrectness == Spec => []TypeOK
<1>1. TypeInv => TypeOK
  BY DEF TypeInv
<1> QED
  BY <1>1, TypeInvariance, PTL

-----------------------------------------------------------------------------
(***************************************************************************)
(* The way of an epStat                                                    *)
(***************************************************************************)

(* An epStat on its way through the connections.                           *)
Walks(t) == t.kind = "epStat" /\ t.begun

(* Two of them about the same sensor.                                      *)
Rivals(u, v) == Walks(u) /\ Walks(v) /\ u.ep = v.ep

(* What a task has still to send.                                          *)
Way(t) == Range(t.todo)

(* A task has to visit the connections listed from place i on, in order,   *)
(* as many as it has messages left.                                        *)
AlongAt(con, t, i) ==
  /\ i + Len(t.todo) - 1 <= Len(con)
  /\ \A n \in 1 .. Len(t.todo) : t.todo[n] = <<con[i + n - 1], t.ep>>

(* It has to visit a stretch of the list.                                  *)
Along(con, t) == \E i \in 1 .. Len(con) : AlongAt(con, t, i)

(* No connection is listed twice.                                          *)
Distinct(con) == \A m, n \in 1 .. Len(con) : con[m] = con[n] => m = n

(* A begun task has something left, its next message first.                *)
LEMMA TodoIs ==
  ASSUME NEW t \in BegunTask
  PROVE  /\ t.todo \in Seq(Conns \X Eps) /\ Len(t.todo) \in Nat
         /\ Len(t.todo) >= 1 /\ DOMAIN t.todo = 1 .. Len(t.todo)
         /\ Head(t.todo) = t.todo[1] /\ Head(t.todo) \in Way(t)
         /\ Way(t) = {t.todo[n] : n \in 1 .. Len(t.todo)}
<1>1. t.todo \in Seq(Conns \X Eps) /\ t.todo # <<>>
  BY RestSound
<1>2. /\ Len(t.todo) \in Nat /\ Len(t.todo) >= 1
      /\ DOMAIN t.todo = 1 .. Len(t.todo) /\ Head(t.todo) = t.todo[1]
  BY <1>1
<1> QED
  BY <1>1, <1>2 DEF Way, Range

(* A task that is at place i has to visit exactly the places from there to *)
(* the end of its stretch.                                                 *)
LEMMA WayIs ==
  ASSUME NEW con \in Seq(Conns), Distinct(con), NEW t \in BegunTask,
         NEW i \in 1 .. Len(con), AlongAt(con, t, i)
  PROVE  /\ Head(t.todo) = <<con[i], t.ep>>
         /\ \A n \in 1 .. Len(con) :
              <<con[n], t.ep>> \in Way(t) <=> i <= n /\ n < i + Len(t.todo)
         /\ \A x \in Way(t) : \E n \in 1 .. Len(con) : x = <<con[n], t.ep>>
         /\ i + Len(t.todo) <= Len(con) + 1
<1> DEFINE l == Len(t.todo)
<1>1. /\ l \in Nat /\ l >= 1 /\ Head(t.todo) = t.todo[1]
      /\ Way(t) = {t.todo[n] : n \in 1 .. l}
      /\ Len(con) \in Nat /\ i \in Nat /\ i >= 1
  BY TodoIs
<1>2. /\ i + l - 1 <= Len(con)
      /\ \A n \in 1 .. l : t.todo[n] = <<con[i + n - 1], t.ep>>
  BY DEF AlongAt
<1> HIDE DEF l
<1>3. t.todo[1] = <<con[i + 1 - 1], t.ep>> /\ i + 1 - 1 = i
  BY <1>1, <1>2
<1>4. ASSUME NEW n \in 1 .. Len(con), i <= n, n < i + l
      PROVE  <<con[n], t.ep>> \in Way(t)
  <2>1. n - i + 1 \in 1 .. l /\ i + (n - i + 1) - 1 = n
    BY <1>1, <1>4
  <2>2. t.todo[n - i + 1] = <<con[n], t.ep>>
    BY <1>2, <2>1
  <2> QED
    BY <1>1, <2>1, <2>2
<1>5. ASSUME NEW x \in Way(t)
      PROVE  \E n \in 1 .. Len(con) : /\ x = <<con[n], t.ep>>
                                      /\ i <= n /\ n < i + l
  <2>1. PICK m \in 1 .. l : x = t.todo[m]
    BY <1>1
  <2>2. i + m - 1 \in 1 .. Len(con) /\ i <= i + m - 1 /\ i + m - 1 < i + l
    BY <1>1, <1>2
  <2> QED
    BY <1>2, <2>1, <2>2
<1>6. ASSUME NEW n \in 1 .. Len(con), <<con[n], t.ep>> \in Way(t)
      PROVE  i <= n /\ n < i + l
  <2>1. PICK m \in 1 .. Len(con) : /\ <<con[n], t.ep>> = <<con[m], t.ep>>
                                   /\ i <= m /\ m < i + l
    BY <1>5, <1>6
  <2>2. n = m
    BY <2>1 DEF Distinct
  <2> QED
    BY <2>1, <2>2
<1>7. i + l <= Len(con) + 1
  BY <1>1, <1>2
<1> QED
  BY <1>1, <1>3, <1>4, <1>5, <1>6, <1>7 DEF l

(* Ways compare as the stretches do, and equal ways are equal sequences.   *)
LEMMA WaysAre ==
  ASSUME NEW con \in Seq(Conns), Distinct(con),
         NEW u \in BegunTask, NEW v \in BegunTask, u.ep = v.ep,
         NEW i \in 1 .. Len(con), AlongAt(con, u, i),
         NEW k \in 1 .. Len(con), AlongAt(con, v, k)
  PROVE  /\ Way(u) \subseteq Way(v) <=>
              k <= i /\ i + Len(u.todo) <= k + Len(v.todo)
         /\ Way(u) = Way(v) => u.todo = v.todo
<1> DEFINE l == Len(u.todo)
           m == Len(v.todo)
<1>1. /\ \A n \in 1 .. Len(con) :
           <<con[n], u.ep>> \in Way(u) <=> i <= n /\ n < i + l
      /\ \A x \in Way(u) : \E n \in 1 .. Len(con) : x = <<con[n], u.ep>>
      /\ i + l <= Len(con) + 1
  BY WayIs
<1>2. /\ \A n \in 1 .. Len(con) :
           <<con[n], u.ep>> \in Way(v) <=> k <= n /\ n < k + m
      /\ \A x \in Way(v) : \E n \in 1 .. Len(con) : x = <<con[n], u.ep>>
      /\ k + m <= Len(con) + 1
  BY WayIs
<1>3. /\ l \in Nat /\ m \in Nat /\ l >= 1 /\ m >= 1 /\ Len(con) \in Nat
      /\ i \in Nat /\ k \in Nat /\ i >= 1 /\ k >= 1
      /\ u.todo \in Seq(Conns \X Eps) /\ v.todo \in Seq(Conns \X Eps)
  BY TodoIs
<1>4. ASSUME k <= i, i + l <= k + m
      PROVE  Way(u) \subseteq Way(v)
  <2> SUFFICES ASSUME NEW x \in Way(u) PROVE x \in Way(v)
    OBVIOUS
  <2>1. PICK n \in 1 .. Len(con) : x = <<con[n], u.ep>>
    BY <1>1
  <2>2. i <= n /\ n < i + l
    BY <1>1, <2>1
  <2>3. k <= n /\ n < k + m
    BY <1>3, <1>4, <2>2
  <2> QED
    BY <1>2, <2>1, <2>3
<1>5. ASSUME Way(u) \subseteq Way(v)
      PROVE  k <= i /\ i + l <= k + m
  <2>1. /\ i \in 1 .. Len(con) /\ i + l - 1 \in 1 .. Len(con)
        /\ i <= i + l - 1 /\ i + l - 1 < i + l /\ i < i + l
    BY <1>1, <1>3
  <2>2. <<con[i], u.ep>> \in Way(u) /\ <<con[i + l - 1], u.ep>> \in Way(u)
    BY <1>1, <2>1
  <2>3. k <= i /\ i + l - 1 < k + m
    BY <1>2, <1>5, <2>1, <2>2
  <2> QED
    BY <1>3, <2>3
<1>6. ASSUME Way(u) = Way(v)
      PROVE  u.todo = v.todo
  <2>1. Way(u) \subseteq Way(v)
    BY <1>6
  <2>2. k <= i /\ i + l <= k + m
    BY <1>5, <2>1
  <2>3. i <= k /\ k + m <= i + l
    <3>1. /\ k \in 1 .. Len(con) /\ k + m - 1 \in 1 .. Len(con)
          /\ k <= k + m - 1 /\ k + m - 1 < k + m /\ k < k + m
      BY <1>2, <1>3
    <3>2. <<con[k], u.ep>> \in Way(v) /\ <<con[k + m - 1], u.ep>> \in Way(v)
      BY <1>2, <3>1
    <3>3. i <= k /\ k + m - 1 < i + l
      BY <1>1, <1>6, <3>1, <3>2
    <3> QED
      BY <1>3, <3>3
  <2>4. i = k /\ l = m
    BY <1>3, <2>2, <2>3
  <2>5. \A n \in 1 .. l : u.todo[n] = v.todo[n]
    BY <2>4 DEF AlongAt
  <2>6. u.todo \in Seq(Conns \X Eps) /\ v.todo \in Seq(Conns \X Eps)
    BY <1>3
  <2>7. u.todo = [n \in 1 .. l |-> u.todo[n]]
    BY <2>6
  <2>8. v.todo = [n \in 1 .. m |-> v.todo[n]]
    BY <2>6
  <2> HIDE DEF l, m
  <2> QED
    BY <2>4, <2>5, <2>7, <2>8
<1> QED
  BY <1>4, <1>5, <1>6

(* What a task has left when it sends and has not finished.                *)
LEMMA TailWay ==
  ASSUME NEW t \in BegunTask, Tail(t.todo) # <<>>
  PROVE  LET s == [t EXCEPT !.todo = Tail(t.todo)]
         IN  /\ s \in BegunTask /\ s.todo = Tail(t.todo)
             /\ s.kind = t.kind /\ s.ep = t.ep /\ s.state = t.state
             /\ s.conn = t.conn /\ s.begun /\ t.begun
             /\ Way(t) = {Head(t.todo)} \cup Way(s)
<1> DEFINE s == [t EXCEPT !.todo = Tail(t.todo)]
<1>1. /\ t.todo \in Seq(Conns \X Eps) /\ t.todo # <<>> /\ s \in BegunTask
  BY RestSound
<1>2. t \in Task /\ t.begun
  BY DEF BegunTask, SoundTask
<1>3. /\ s.todo = Tail(t.todo) /\ s.begun = t.begun
      /\ s.kind = t.kind /\ s.ep = t.ep /\ s.state = t.state
      /\ s.conn = t.conn
  BY <1>2 DEF Task
<1>4. Range(t.todo) = {Head(t.todo)} \cup Range(Tail(t.todo))
  BY <1>1, TailRange
<1> QED
  BY <1>1, <1>2, <1>3, <1>4 DEF Way

(* What becomes of a task that sends: nothing, or the same task with one   *)
(* message less.                                                           *)
LEMMA SentIs ==
  ASSUME NEW t \in BegunTask
  PROVE  /\ Tail(t.todo) = <<>> => Range(Sent(t)) = {}
         /\ Tail(t.todo) # <<>> =>
              Range(Sent(t)) = {[t EXCEPT !.todo = Tail(t.todo)]}
         /\ \A u \in Range(Sent(t)) :
              /\ u = [t EXCEPT !.todo = Tail(t.todo)] /\ Tail(t.todo) # <<>>
              /\ u \in BegunTask /\ u.begun /\ u.kind = t.kind
              /\ u.ep = t.ep /\ u.state = t.state /\ u.conn = t.conn
              /\ Way(t) = {Head(t.todo)} \cup Way(u)
<1>1. CASE Tail(t.todo) = <<>>
  <2>1. Sent(t) = <<>>
    BY <1>1, RestSound
  <2> QED
    BY <1>1, <2>1 DEF Range
<1>2. CASE Tail(t.todo) # <<>>
  <2> DEFINE s == [t EXCEPT !.todo = Tail(t.todo)]
  <2>1. Sent(t) = <<s>>
    BY <1>2, RestSound
  <2>2. Range(<<s>>) = {s}
    BY ShortRanges
  <2>3. /\ s \in BegunTask /\ s.begun /\ s.kind = t.kind /\ s.ep = t.ep
        /\ s.state = t.state /\ s.conn = t.conn
        /\ Way(t) = {Head(t.todo)} \cup Way(s)
    BY <1>2, TailWay
  <2> HIDE DEF s
  <2>4. Range(Sent(t)) = {s}
    BY <2>1, <2>2
  <2> QED
    BY <1>2, <2>3, <2>4 DEF s
<1> QED
  BY <1>1, <1>2

(* A message a task had left is the one it sends or is still left.         *)
LEMMA SentWay ==
  ASSUME NEW t \in BegunTask, NEW x \in Way(t)
  PROVE  x = Head(t.todo) \/ \E u \in Range(Sent(t)) : x \in Way(u)
<1>1. t.todo \in Seq(Conns \X Eps) /\ t.todo # <<>>
  BY RestSound
<1>2. Range(t.todo) = {Head(t.todo)} \cup Range(Tail(t.todo))
  BY <1>1, TailRange
<1>3. CASE Tail(t.todo) = <<>>
  BY <1>2, <1>3, ShortRanges DEF Way
<1>4. CASE Tail(t.todo) # <<>>
  <2> DEFINE s == [t EXCEPT !.todo = Tail(t.todo)]
  <2>1. s \in Range(Sent(t))
    BY <1>4, SentIs
  <2>2. Way(t) = {Head(t.todo)} \cup Way(s)
    BY <2>1, SentIs
  <2> QED
    BY <2>1, <2>2
<1> QED
  BY <1>3, <1>4

(* The task moves on by one place and does not come back.                  *)
LEMMA SentAlong ==
  ASSUME NEW con \in Seq(Conns), Distinct(con), NEW t \in BegunTask,
         NEW i \in 1 .. Len(con), AlongAt(con, t, i),
         NEW u \in Range(Sent(t))
  PROVE  /\ i + 1 \in 1 .. Len(con) /\ AlongAt(con, u, i + 1)
         /\ Head(t.todo) = <<con[i], t.ep>>
         /\ Head(u.todo) = <<con[i + 1], t.ep>>
         /\ Head(t.todo) \notin Way(u)
<1>1. /\ u \in BegunTask /\ u.todo = Tail(t.todo) /\ u.ep = t.ep
      /\ Tail(t.todo) # <<>>
  BY SentIs, TailWay
<1>2. /\ t.todo \in Seq(Conns \X Eps) /\ t.todo # <<>>
  BY RestSound
<1> DEFINE l == Len(t.todo)
           k == i + 1
<1>3. /\ l \in Nat /\ Len(Tail(t.todo)) = l - 1
      /\ \A n \in 1 .. l - 1 : Tail(t.todo)[n] = t.todo[n + 1]
      /\ Tail(t.todo) \in Seq(Conns \X Eps)
  BY <1>2
<1>4. /\ i + l - 1 <= Len(con) /\ Len(con) \in Nat /\ i \in Nat /\ i >= 1
      /\ \A n \in 1 .. l : t.todo[n] = <<con[i + n - 1], t.ep>>
  BY DEF AlongAt
<1>5. l # 1
  <2>1. Len(Tail(t.todo)) # 0
    BY <1>1, <1>3, EmptySeq
  <2> QED
    BY <1>3, <2>1
<1> HIDE DEF l
<1>6. Len(u.todo) = l - 1 /\ l >= 2
  <2>1. l # 0
    BY <1>2 DEF l
  <2> QED
    BY <1>1, <1>3, <1>5, <2>1
<1>7. k \in 1 .. Len(con) /\ k + (l - 1) - 1 <= Len(con)
  BY <1>3, <1>4, <1>6
<1>8. ASSUME NEW n \in 1 .. l - 1
      PROVE  u.todo[n] = <<con[k + n - 1], u.ep>>
  <2>1. n + 1 \in 1 .. l /\ i + (n + 1) - 1 = k + n - 1
    BY <1>3, <1>4
  <2>2. u.todo[n] = t.todo[n + 1]
    BY <1>1, <1>3
  <2> QED
    BY <1>1, <1>4, <2>1, <2>2
<1>9. AlongAt(con, u, k)
  BY <1>6, <1>7, <1>8 DEF AlongAt
<1>10. Head(t.todo) = <<con[i], t.ep>>
  BY WayIs
<1>11. k \in Int /\ i \in Int /\ ~(k <= i)
  BY <1>4
<1> HIDE DEF k
<1>12. /\ Head(u.todo) = <<con[k], u.ep>>
       /\ \A n \in 1 .. Len(con) :
            <<con[n], u.ep>> \in Way(u) <=> k <= n /\ n < k + Len(u.todo)
  BY <1>1, <1>7, <1>9, WayIs
<1>13. <<con[i], t.ep>> \notin Way(u)
  BY <1>1, <1>11, <1>12
<1> QED
  BY <1>1, <1>7, <1>9, <1>10, <1>12, <1>13 DEF k

(* A rival with no more to do, whose next message is another, has passed   *)
(* the connection the task is at.                                          *)
LEMMA HeadApart ==
  ASSUME NEW con \in Seq(Conns), Distinct(con),
         NEW t \in BegunTask, NEW i \in 1 .. Len(con), AlongAt(con, t, i),
         NEW v \in BegunTask, NEW m \in 1 .. Len(con), AlongAt(con, v, m),
         v.ep = t.ep, Way(v) \subseteq Way(t), Head(v.todo) # Head(t.todo)
  PROVE  Head(t.todo) \notin Way(v)
<1>1. /\ \A n \in 1 .. Len(con) :
           <<con[n], v.ep>> \in Way(v) <=> m <= n /\ n < m + Len(v.todo)
      /\ Head(v.todo) = <<con[m], v.ep>>
  BY WayIs
<1>2. /\ \A n \in 1 .. Len(con) :
           <<con[n], t.ep>> \in Way(t) <=> i <= n /\ n < i + Len(t.todo)
      /\ Head(t.todo) = <<con[i], t.ep>>
  BY WayIs
<1>3. Head(v.todo) \in Way(t)
  BY TodoIs
<1>4. i <= m
  BY <1>1, <1>2, <1>3
<1>5. Head(t.todo) \in Way(v) => m <= i
  BY <1>1, <1>2
<1>6. m # i
  BY <1>1, <1>2
<1>7. m \in Int /\ i \in Int
  OBVIOUS
<1> QED
  BY <1>4, <1>5, <1>6, <1>7

-----------------------------------------------------------------------------
(***************************************************************************)
(* The inductive invariant                                                 *)
(***************************************************************************)

(* The ready queue, the running task and the drains.                       *)
Queues(rd, cur, wt) ==
  /\ rd \in Seq(SoundTask)
  /\ cur \in Seq(BegunTask) /\ Len(cur) <= 1
  /\ wt \in [Conns -> Seq(BegunTask)]

(* The tasks that are not finished.                                        *)
Pend(rd, cur, wt) ==
  Range(rd) \cup Range(cur) \cup UNION {Range(wt[x]) : x \in Conns}

(* Every epStat has a stretch of the list before it.                       *)
InLine(con, P) == \A t \in P : Walks(t) => Along(con, t)

(* Of two epStats of a sensor one has no more to do than the other.        *)
Nested(P) ==
  \A u, v \in P :
    Rivals(u, v) => Way(u) \subseteq Way(v) \/ Way(v) \subseteq Way(u)

(* An epStat that waits at a connection goes on at the next one listed.    *)
WaitsBehind(con, wt) ==
  \A x \in Conns : \A u \in Range(wt[x]) :
    Walks(u) => \E n \in 1 .. Len(con) - 1 :
                  con[n] = x /\ Head(u.todo) = <<con[n + 1], u.ep>>

(* Nobody waits at a connection with the same next message as a rival that *)
(* can run: if it could, the one that waits would be overtaken.            *)
Apart(wt, Q) ==
  \A x \in Conns : \A u \in Range(wt[x]), v \in Q :
    Rivals(u, v) => Head(u.todo) # Head(v.todo)

(* A running epStat has no more to do than the rivals that are ready.      *)
OldestRuns(rd, cur) ==
  \A v \in Range(cur), u \in Range(rd) :
    Rivals(u, v) => Way(v) \subseteq Way(u)

(* The part of the invariant that is about places.                         *)
Structure(con, rd, cur, wt) ==
  /\ InLine(con, Pend(rd, cur, wt))
  /\ Nested(Pend(rd, cur, wt))
  /\ WaitsBehind(con, wt)
  /\ Apart(wt, Range(rd) \cup Range(cur))
  /\ OldestRuns(rd, cur)

(* An epStat that carries the state the sensor has.                        *)
Right(st, t) == t.kind = "epStat" /\ t.state = st[t.ep]

(* An epStat that carries another state.                                   *)
Wrong(st, t) == t.kind = "epStat" /\ t.state # st[t.ep]

(* A begun task has a right successor among P that has more to do.         *)
Bettered(st, P, v) ==
  /\ v.begun
  /\ \E w \in P : /\ Right(st, w) /\ w.ep = v.ep
                  /\ w.begun => Way(v) \subseteq Way(w) /\ Way(v) # Way(w)

(* Two tasks of a sensor have the same to do.                              *)
Same(u, v) == u.ep = v.ep /\ u.begun = v.begun /\ u.todo = v.todo

(* A task has a right successor further back in its queue.                 *)
Followed(st, q, n) ==
  \E m \in 1 .. Len(q) : m > n /\ Right(st, q[m]) /\ Same(q[m], q[n])

(* Every outdated epStat of a queue has a successor.                       *)
Ordered(st, P, q) ==
  \A n \in 1 .. Len(q) :
    Wrong(st, q[n]) => Bettered(st, P, q[n]) \/ Followed(st, q, n)

(* So has the running one; its successor may be ready.                     *)
Heeded(st, P, rd, cur) ==
  \A v \in Range(cur) :
    Wrong(st, v) => \/ Bettered(st, P, v)
                    \/ \E r \in Range(rd) : Right(st, r) /\ Same(r, v)

(* The part of the invariant that is about age.                            *)
Fresh(st, rd, cur, wt) ==
  /\ Ordered(st, Pend(rd, cur, wt), rd)
  /\ \A x \in Conns : Ordered(st, Pend(rd, cur, wt), wt[x])
  /\ Heeded(st, Pend(rd, cur, wt), rd, cur)

(* Nobody is told, or will be told, of a sensor not seen yet.              *)
Unseen(st, tl, P) ==
  \A e \in Eps : st[e] = None =>
    /\ \A c \in Conns : tl[c][e] = None
    /\ \A t \in P : t.kind = "epStat" => t.ep # e

(* A task will send to connection c about sensor e, or has yet to decide.  *)
Covers(t, c, e) == ~t.begun \/ <<c, e>> \in Way(t)

(* A task will tell connection c the state of sensor e: a burst, which     *)
(* reads the live state, or an epStat with the right one.                  *)
Will(st, P, c, e) ==
  \E t \in P : /\ Covers(t, c, e)
               /\ \/ t.kind = "burst" /\ t.conn = c
                  \/ Right(st, t) /\ t.ep = e

(* What a connection in S is told differs from a sensor's state only until *)
(* a task has told it, or while its con is being answered, after which a   *)
(* burst follows, or for a sensor's first uplink.                          *)
Telling(S, hd, st, tl, P) ==
  \A c \in S, e \in Eps : tl[c][e] # st[e] =>
    \/ tl[c][e] = None /\ st[e] = "online"
    \/ hd[c] = "answering"
    \/ Will(st, P, c, e)

(* The invariant for given values of the variables it is about.            *)
Orderly(con, hd, cl, st, tl, rd, cur, wt) ==
  /\ Structure(con, rd, cur, wt)
  /\ Fresh(st, rd, cur, wt)
  /\ Unseen(st, tl, Pend(rd, cur, wt))
  /\ Telling(Range(con) \ cl, hd, st, tl, Pend(rd, cur, wt))

(* The invariant for the current values.                                   *)
Now == Orderly(connected, handler, closing, state, told,
               ready, current, waiting)

(* The inductive invariant: types always, the rest as long as no epStat    *)
(* can have passed an older one.                                           *)
SessionInv ==
  /\ TypeInv
  /\ ~overtaken => Orderly(connected, handler, closing, state, told,
                          ready, current, waiting)

-----------------------------------------------------------------------------
(***************************************************************************)
(* The queues, and successors in them                                      *)
(***************************************************************************)

(* Where a pending task is, and what it is.                                *)
LEMMA PendOf ==
  ASSUME NEW rd, NEW cur, NEW wt, Queues(rd, cur, wt)
  PROVE  /\ Range(rd) \subseteq Pend(rd, cur, wt)
         /\ Range(cur) \subseteq Pend(rd, cur, wt)
         /\ \A x \in Conns : Range(wt[x]) \subseteq Pend(rd, cur, wt)
         /\ Pend(rd, cur, wt) \subseteq SoundTask
         /\ Range(rd) \subseteq SoundTask
         /\ Range(cur) \subseteq BegunTask
         /\ \A x \in Conns : Range(wt[x]) \subseteq BegunTask
         /\ \A t \in Pend(rd, cur, wt) : t.begun => t \in BegunTask
         /\ \A t \in Pend(rd, cur, wt) :
              \/ t \in Range(rd) \/ t \in Range(cur)
              \/ \E x \in Conns : t \in Range(wt[x])
<1>1. /\ Range(rd) \subseteq SoundTask
      /\ Range(cur) \subseteq BegunTask
      /\ \A x \in Conns : Range(wt[x]) \subseteq BegunTask
  BY RangeOf DEF Queues
<1> QED
  BY <1>1 DEF Pend, BegunTask

(* The queues of the session are typed.                                    *)
LEMMA QueuesTyped == TypeInv => Queues(ready, current, waiting)
  BY DEF TypeInv, TypeOK, Queues

(* The unfinished tasks are the pending ones.                              *)
LEMMA UnfinishedIs == TypeInv => Unfinished = Pend(ready, current, waiting)
<1> SUFFICES ASSUME TypeInv PROVE Unfinished = Pend(ready, current, waiting)
  OBVIOUS
<1>1. current \in Seq(SoundTask) /\ ready \in Seq(SoundTask)
  BY DEF TypeInv, BegunTask
<1> QED
  BY <1>1, ConcatRange DEF Unfinished, Pend

(* The types of the session, one by one.                                   *)
LEMMA StateIs ==
  ASSUME TypeInv
  PROVE  /\ connected \in Seq(Conns) /\ Range(connected) \subseteq Conns
         /\ Distinct(connected)
         /\ Queues(ready, current, waiting)
         /\ handler \in [Conns -> {"open", "answering", "gone"}]
         /\ state \in [Eps -> States \cup {None}]
         /\ told \in [Conns -> [Eps -> States \cup {None}]]
         /\ current = <<>> => Queues(ready, <<>>, waiting)
<1>1. TypeOK
  BY DEF TypeInv
<1>2. Distinct(connected)
  BY <1>1, ConnectedIs DEF Distinct
<1> QED
  BY <1>1, <1>2, ConnectedIs, QueuesTyped DEF TypeOK

(* A queue stays ordered if better successors remain.                      *)
LEMMA OrderedStays ==
  ASSUME NEW st, NEW P, NEW R, NEW q,
         Ordered(st, P, q),
         \A n \in 1 .. Len(q) :
           Wrong(st, q[n]) /\ Bettered(st, P, q[n]) => Bettered(st, R, q[n])
  PROVE  Ordered(st, R, q)
  BY DEF Ordered

(* More tasks take no successor away.                                      *)
LEMMA BetteredMore ==
  ASSUME NEW st, NEW P, NEW R, P \subseteq R, NEW v, Bettered(st, P, v)
  PROVE  Bettered(st, R, v)
  BY DEF Bettered

(* A queue joins another: an outdated task may find its successor in the   *)
(* second.                                                                 *)
LEMMA OrderedJoin ==
  ASSUME NEW st, NEW P, NEW S, NEW q \in Seq(S), NEW r \in Seq(S),
         \A n \in 1 .. Len(q) : Wrong(st, q[n]) =>
           \/ Bettered(st, P, q[n]) \/ Followed(st, q, n)
           \/ \E x \in Range(r) : Right(st, x) /\ Same(x, q[n]),
         Ordered(st, P, r)
  PROVE  Ordered(st, P, q \o r)
<1> DEFINE s == q \o r
<1>1. /\ Len(q) \in Nat /\ Len(r) \in Nat /\ Len(s) = Len(q) + Len(r)
      /\ \A n \in 1 .. Len(q) : s[n] = q[n]
      /\ \A n \in 1 .. Len(r) : s[Len(q) + n] = r[n]
  <2>1. /\ Len(q) \in Nat /\ Len(r) \in Nat /\ Len(s) = Len(q) + Len(r)
        /\ \A n \in 1 .. (Len(q) + Len(r)) :
             s[n] = IF n <= Len(q) THEN q[n] ELSE r[n - Len(q)]
    OBVIOUS
  <2>2. ASSUME NEW n \in 1 .. Len(r)
        PROVE  s[Len(q) + n] = r[n]
    <3>1. /\ Len(q) + n \in 1 .. (Len(q) + Len(r))
          /\ ~(Len(q) + n <= Len(q)) /\ (Len(q) + n) - Len(q) = n
      BY <2>1
    <3> HIDE DEF s
    <3> QED
      BY <2>1, <3>1
  <2>3. ASSUME NEW n \in 1 .. Len(q)
        PROVE  s[n] = q[n]
    <3>1. n \in 1 .. (Len(q) + Len(r)) /\ n <= Len(q)
      BY <2>1
    <3> HIDE DEF s
    <3> QED
      BY <2>1, <3>1
  <2> QED
    BY <2>1, <2>2, <2>3
<1> HIDE DEF s
<1>2. ASSUME NEW n \in 1 .. Len(s), Wrong(st, s[n])
      PROVE  Bettered(st, P, s[n]) \/ Followed(st, s, n)
  <2>1. CASE n <= Len(q)
    <3>1. n \in 1 .. Len(q) /\ s[n] = q[n]
      BY <1>1, <2>1
    <3>2. \/ Bettered(st, P, q[n]) \/ Followed(st, q, n)
          \/ \E x \in Range(r) : Right(st, x) /\ Same(x, q[n])
      BY <1>2, <3>1
    <3>3. ASSUME Followed(st, q, n)
          PROVE  Followed(st, s, n)
      <4>1. PICK m \in 1 .. Len(q) :
              m > n /\ Right(st, q[m]) /\ Same(q[m], q[n])
        BY <3>3 DEF Followed
      <4>2. m \in 1 .. Len(s) /\ s[m] = q[m]
        BY <1>1
      <4> QED
        BY <3>1, <4>1, <4>2 DEF Followed
    <3>4. ASSUME NEW x \in Range(r), Right(st, x), Same(x, q[n])
          PROVE  Followed(st, s, n)
      <4>1. PICK m \in 1 .. Len(r) : r[m] = x
        BY RangeOf
      <4>2. /\ Len(q) + m \in 1 .. Len(s) /\ s[Len(q) + m] = x
            /\ Len(q) + m > n
        BY <1>1, <3>1, <4>1
      <4> QED
        BY <3>1, <3>4, <4>2 DEF Followed
    <3> QED
      BY <3>1, <3>2, <3>3, <3>4
  <2>2. CASE ~(n <= Len(q))
    <3> DEFINE i == n - Len(q)
    <3>1. i \in 1 .. Len(r) /\ n = Len(q) + i /\ i \in Int
      BY <1>1, <2>2
    <3> HIDE DEF i
    <3>2. s[n] = r[i]
      BY <1>1, <3>1
    <3>3. Bettered(st, P, r[i]) \/ Followed(st, r, i)
      BY <1>2, <3>1, <3>2 DEF Ordered
    <3>4. ASSUME Followed(st, r, i)
          PROVE  Followed(st, s, n)
      <4>1. PICK m \in 1 .. Len(r) :
              m > i /\ Right(st, r[m]) /\ Same(r[m], r[i])
        BY <3>4 DEF Followed
      <4>2. /\ Len(q) + m \in 1 .. Len(s) /\ s[Len(q) + m] = r[m]
            /\ Len(q) + m > n
        BY <1>1, <3>1, <4>1
      <4> QED
        BY <3>2, <4>1, <4>2 DEF Followed
    <3> QED
      BY <3>2, <3>3, <3>4
  <2> QED
    BY <2>1, <2>2
<1> QED
  BY <1>2 DEF Ordered, s

(* Two ordered queues make one.                                            *)
LEMMA OrderedConcat ==
  ASSUME NEW st, NEW P, NEW S, NEW q \in Seq(S), NEW r \in Seq(S),
         Ordered(st, P, q), Ordered(st, P, r)
  PROVE  Ordered(st, P, q \o r)
  BY OrderedJoin DEF Ordered

(* A queue of one task.                                                    *)
LEMMA OrderedOne ==
  ASSUME NEW st, NEW P, NEW t, Wrong(st, t) => Bettered(st, P, t)
  PROVE  Ordered(st, P, <<t>>)
  BY DEF Ordered

(* A task joins an ordered queue.                                          *)
LEMMA OrderedAppend ==
  ASSUME NEW st, NEW P, NEW S, NEW q \in Seq(S), NEW t \in S,
         Ordered(st, P, q), Wrong(st, t) => Bettered(st, P, t)
  PROVE  Ordered(st, P, Append(q, t))
<1>1. Append(q, t) = q \o <<t>> /\ <<t>> \in Seq(S)
  OBVIOUS
<1>2. Ordered(st, P, <<t>>)
  BY OrderedOne
<1>3. Ordered(st, P, q \o <<t>>)
  BY <1>1, <1>2, OrderedConcat
<1> QED
  BY <1>1, <1>3

(* The head leaves an ordered queue: if it is outdated, its successor is   *)
(* right among the rest or has more to do.                                 *)
LEMMA OrderedTail ==
  ASSUME NEW st, NEW P, NEW S, NEW q \in Seq(S), q # <<>>, Ordered(st, P, q)
  PROVE  /\ Ordered(st, P, Tail(q))
         /\ Wrong(st, Head(q)) =>
              \/ Bettered(st, P, Head(q))
              \/ \E r \in Range(Tail(q)) : Right(st, r) /\ Same(r, Head(q))
<1> DEFINE s == Tail(q)
           l == Len(q)
<1>1. /\ l \in Nat /\ l >= 1 /\ Len(s) = l - 1 /\ Head(q) = q[1]
      /\ s \in Seq(S)
      /\ \A n \in 1 .. l - 1 : s[n] = q[n + 1]
  OBVIOUS
<1>2. \A n \in 1 .. l : Wrong(st, q[n]) =>
        Bettered(st, P, q[n]) \/ Followed(st, q, n)
  BY DEF Ordered
<1>3. \A n \in 1 .. l : Followed(st, q, n) =>
        \E m \in 1 .. l : m > n /\ Right(st, q[m]) /\ Same(q[m], q[n])
  BY DEF Followed
<1> HIDE DEF s, l
<1>4. ASSUME NEW n \in 1 .. Len(s), Wrong(st, s[n])
      PROVE  Bettered(st, P, s[n]) \/ Followed(st, s, n)
  <2> DEFINE k == n + 1
  <2>1. k \in 1 .. l /\ s[n] = q[k]
    BY <1>1
  <2>2. ASSUME Followed(st, q, k)
        PROVE  Followed(st, s, n)
    <3>1. PICK m \in 1 .. l :
            m > k /\ Right(st, q[m]) /\ Same(q[m], q[k])
      BY <1>3, <2>1, <2>2
    <3>2. m - 1 \in 1 .. Len(s) /\ m - 1 > n /\ (m - 1) + 1 = m
      BY <1>1, <3>1
    <3>3. s[m - 1] = q[m]
      BY <1>1, <3>2
    <3> QED
      BY <2>1, <3>1, <3>2, <3>3 DEF Followed
  <2> HIDE DEF k
  <2> QED
    BY <1>2, <1>4, <2>1, <2>2
<1>5. ASSUME Wrong(st, Head(q)), ~Bettered(st, P, Head(q))
      PROVE  \E r \in Range(s) : Right(st, r) /\ Same(r, Head(q))
  <2>1. PICK m \in 1 .. l : m > 1 /\ Right(st, q[m]) /\ Same(q[m], q[1])
    BY <1>1, <1>2, <1>3, <1>5
  <2>2. m - 1 \in 1 .. Len(s) /\ m - 1 \in 1 .. l - 1 /\ (m - 1) + 1 = m
    BY <1>1, <2>1
  <2>3. s[m - 1] = q[m]
    BY <1>1, <2>2
  <2>4. s[m - 1] \in Range(s)
    BY <1>1, <2>2, RangeOf
  <2> QED
    BY <1>1, <2>1, <2>3, <2>4
<1>6. Ordered(st, P, s)
  BY <1>4 DEF Ordered
<1> QED
  BY <1>5, <1>6 DEF s

-----------------------------------------------------------------------------
(***************************************************************************)
(* A task is created, a state changes                                      *)
(***************************************************************************)

(* A created task is ready and pending.                                    *)
LEMMA SpawnPend ==
  ASSUME NEW rd, NEW cur, NEW wt, Queues(rd, cur, wt), NEW t \in SoundTask
  PROVE  /\ Range(Append(rd, t)) = Range(rd) \cup {t}
         /\ Pend(Append(rd, t), cur, wt) = Pend(rd, cur, wt) \cup {t}
<1>1. Range(Append(rd, t)) = Range(rd) \cup {t}
  BY AppendRange DEF Queues
<1> QED
  BY <1>1 DEF Pend

(* A task that has not begun has no place yet.                             *)
LEMMA SpawnStructure ==
  ASSUME NEW rd, NEW cur, NEW wt, NEW con, Queues(rd, cur, wt),
         NEW t \in SoundTask, ~t.begun, Structure(con, rd, cur, wt)
  PROVE  Structure(con, Append(rd, t), cur, wt)
<1>1. /\ Range(Append(rd, t)) = Range(rd) \cup {t}
      /\ Pend(Append(rd, t), cur, wt) = Pend(rd, cur, wt) \cup {t}
  BY SpawnPend
<1>2. ~Walks(t) /\ \A u : ~Rivals(u, t) /\ ~Rivals(t, u)
  BY DEF Walks, Rivals
<1>3. InLine(con, Pend(rd, cur, wt) \cup {t})
  BY <1>2 DEF Structure, InLine
<1>4. Nested(Pend(rd, cur, wt) \cup {t})
  BY <1>2 DEF Structure, Nested
<1>5. Apart(wt, (Range(rd) \cup {t}) \cup Range(cur))
  BY <1>2 DEF Structure, Apart
<1>6. OldestRuns(Append(rd, t), cur)
  BY <1>1, <1>2 DEF Structure, OldestRuns
<1> QED
  BY <1>1, <1>3, <1>4, <1>5, <1>6 DEF Structure

(* A task that is no epStat outdates nothing.                              *)
LEMMA SpawnFresh ==
  ASSUME NEW rd, NEW cur, NEW wt, NEW st, Queues(rd, cur, wt),
         NEW t \in SoundTask, t.kind # "epStat", Fresh(st, rd, cur, wt)
  PROVE  Fresh(st, Append(rd, t), cur, wt)
<1> DEFINE P == Pend(rd, cur, wt)
           R == Pend(Append(rd, t), cur, wt)
<1>1. /\ Range(Append(rd, t)) = Range(rd) \cup {t}
      /\ R = P \cup {t}
  BY SpawnPend
<1>2. /\ Ordered(st, P, rd) /\ \A x \in Conns : Ordered(st, P, wt[x])
      /\ Heeded(st, P, rd, cur)
  BY DEF Fresh
<1> HIDE DEF P, R
<1>3. \A v : Bettered(st, P, v) => Bettered(st, R, v)
  BY <1>1, BetteredMore
<1>4. /\ Ordered(st, R, rd) /\ \A x \in Conns : Ordered(st, R, wt[x])
  BY <1>2, <1>3, OrderedStays
<1>5. Ordered(st, R, Append(rd, t))
  BY <1>4, OrderedAppend DEF Queues, Wrong
<1>6. Heeded(st, R, Append(rd, t), cur)
  BY <1>1, <1>2, <1>3 DEF Heeded
<1> QED
  BY <1>4, <1>5, <1>6 DEF Fresh, R

(* A change of state outdates tasks; the new epStat, not begun and last in *)
(* the queue, is the successor of all of them.                             *)
LEMMA ChangeFresh ==
  ASSUME NEW rd, NEW cur, NEW wt, NEW st, NEW now, Queues(rd, cur, wt),
         NEW t \in SoundTask, t.kind = "epStat", ~t.begun,
         t.state = now[t.ep],
         \A e \in Eps : e # t.ep => now[e] = st[e],
         Fresh(st, rd, cur, wt)
  PROVE  Fresh(now, Append(rd, t), cur, wt)
<1> DEFINE P == Pend(rd, cur, wt)
           s == Append(rd, t)
           R == Pend(s, cur, wt)
<1>1. Range(s) = Range(rd) \cup {t} /\ R = P \cup {t}
  BY SpawnPend
<1>2. /\ Ordered(st, P, rd) /\ \A x \in Conns : Ordered(st, P, wt[x])
      /\ Heeded(st, P, rd, cur)
  BY DEF Fresh
<1>3. /\ rd \in Seq(SoundTask) /\ Len(rd) \in Nat /\ Len(s) = Len(rd) + 1
      /\ \A n \in 1 .. Len(rd) : s[n] = rd[n] /\ rd[n] \in SoundTask
      /\ s[Len(rd) + 1] = t
  BY DEF Queues
<1>4. /\ P \subseteq SoundTask /\ Range(rd) \subseteq P
      /\ Range(cur) \subseteq BegunTask /\ Range(rd) \subseteq SoundTask
      /\ \A x \in Conns : \A n \in 1 .. Len(wt[x]) : wt[x][n] \in BegunTask
  <2>1. \A x \in Conns : wt[x] \in Seq(BegunTask)
    BY DEF Queues
  <2> QED
    BY <2>1, PendOf
<1>5. /\ t.ep \in Eps /\ Right(now, t) /\ ~Wrong(now, t) /\ t.todo = <<>>
      /\ t.begun = FALSE
  BY DEF SoundTask, Task, Right, Wrong
<1>6. \A v \in SoundTask :
        /\ v.kind = "epStat" => v.ep \in Eps
        /\ v.begun \in BOOLEAN
        /\ ~v.begun => v.todo = <<>>
  BY DEF SoundTask, Task
<1> HIDE DEF P, R, s
<1>7. \A v \in SoundTask : v.ep = t.ep /\ v.begun => Bettered(now, R, v)
  BY <1>1, <1>5 DEF Bettered
<1>8. \A v \in SoundTask : v.ep # t.ep =>
        /\ Wrong(now, v) <=> Wrong(st, v)
        /\ Right(now, v) <=> Right(st, v)
  BY <1>6 DEF Wrong, Right
<1>9. ASSUME NEW v \in SoundTask, v.ep # t.ep, Bettered(st, P, v)
      PROVE  Bettered(now, R, v)
  <2>1. PICK w \in P :
          /\ Right(st, w) /\ w.ep = v.ep
          /\ w.begun => Way(v) \subseteq Way(w) /\ Way(v) # Way(w)
    BY <1>9 DEF Bettered
  <2>2. Right(now, w) /\ w \in R /\ v.begun
    BY <1>1, <1>4, <1>8, <1>9, <2>1 DEF Bettered
  <2> QED
    BY <2>1, <2>2 DEF Bettered
<1>10. ASSUME NEW q \in Seq(SoundTask), NEW n \in 1 .. Len(q),
              q[n].ep # t.ep, Followed(st, q, n)
       PROVE  Followed(now, q, n)
  <2>1. PICK m \in 1 .. Len(q) : m > n /\ Right(st, q[m]) /\ Same(q[m], q[n])
    BY <1>10 DEF Followed
  <2>2. q[m] \in SoundTask /\ q[m].ep = q[n].ep
    BY <2>1 DEF Same
  <2>3. Right(now, q[m])
    BY <1>8, <1>10, <2>1, <2>2
  <2> QED
    BY <2>1, <2>3 DEF Followed
<1>11. ASSUME NEW n \in 1 .. Len(s), Wrong(now, s[n])
       PROVE  Bettered(now, R, s[n]) \/ Followed(now, s, n)
  <2>1. n \in 1 .. Len(rd) /\ s[n] = rd[n] /\ rd[n] \in SoundTask /\ n \in Int
    BY <1>3, <1>5, <1>11
  <2>2. CASE rd[n].ep = t.ep /\ rd[n].begun
    BY <1>7, <2>1, <2>2
  <2>3. CASE rd[n].ep = t.ep /\ ~rd[n].begun
    <3>1. Same(t, rd[n])
      BY <1>5, <1>6, <2>1, <2>3 DEF Same
    <3>2. Len(rd) + 1 \in 1 .. Len(s) /\ Len(rd) + 1 > n
      BY <1>3, <2>1
    <3> QED
      BY <1>3, <1>5, <2>1, <3>1, <3>2 DEF Followed
  <2>4. CASE rd[n].ep # t.ep
    <3>1. Bettered(st, P, rd[n]) \/ Followed(st, rd, n)
      BY <1>2, <1>8, <1>11, <2>1, <2>4 DEF Ordered
    <3>2. Bettered(now, R, rd[n]) \/ Followed(now, rd, n)
      BY <1>3, <1>9, <1>10, <2>1, <2>4, <3>1
    <3>3. ASSUME Followed(now, rd, n)
          PROVE  Followed(now, s, n)
      <4>1. PICK m \in 1 .. Len(rd) :
              m > n /\ Right(now, rd[m]) /\ Same(rd[m], rd[n])
        BY <3>3 DEF Followed
      <4>2. m \in 1 .. Len(s) /\ s[m] = rd[m]
        BY <1>3
      <4> QED
        BY <2>1, <4>1, <4>2 DEF Followed
    <3> QED
      BY <2>1, <3>2, <3>3
  <2> QED
    BY <2>2, <2>3, <2>4
<1>12. ASSUME NEW x \in Conns, NEW n \in 1 .. Len(wt[x]), Wrong(now, wt[x][n])
       PROVE  Bettered(now, R, wt[x][n]) \/ Followed(now, wt[x], n)
  <2>1. /\ wt[x][n] \in SoundTask /\ wt[x][n].begun
        /\ wt[x] \in Seq(SoundTask)
    BY <1>4 DEF BegunTask, Queues
  <2>2. CASE wt[x][n].ep = t.ep
    BY <1>7, <2>1, <2>2
  <2>3. CASE wt[x][n].ep # t.ep
    <3>1. Bettered(st, P, wt[x][n]) \/ Followed(st, wt[x], n)
      BY <1>2, <1>8, <1>12, <2>1, <2>3 DEF Ordered
    <3> QED
      BY <1>9, <1>10, <2>1, <2>3, <3>1
  <2> QED
    BY <2>2, <2>3
<1>13. ASSUME NEW v \in Range(cur), Wrong(now, v)
       PROVE  \/ Bettered(now, R, v)
              \/ \E r \in Range(s) : Right(now, r) /\ Same(r, v)
  <2>1. v \in SoundTask /\ v.begun
    BY <1>4 DEF BegunTask
  <2>2. CASE v.ep = t.ep
    BY <1>7, <2>1, <2>2
  <2>3. CASE v.ep # t.ep
    <3>1. \/ Bettered(st, P, v)
          \/ \E r \in Range(rd) : Right(st, r) /\ Same(r, v)
      BY <1>2, <1>8, <1>13, <2>1, <2>3 DEF Heeded
    <3>2. ASSUME NEW r \in Range(rd), Right(st, r), Same(r, v)
          PROVE  Right(now, r)
      BY <1>4, <1>8, <2>3, <3>2 DEF Same
    <3> QED
      BY <1>1, <1>9, <2>1, <2>3, <3>1, <3>2
  <2> QED
    BY <2>2, <2>3
<1> QED
  BY <1>11, <1>12, <1>13 DEF Fresh, Ordered, Heeded, R, s

(* A change of the state of a sensor no epStat is about.                   *)
LEMMA FreshSame ==
  ASSUME NEW rd, NEW cur, NEW wt, NEW st, NEW now, Queues(rd, cur, wt),
         \A t \in Pend(rd, cur, wt) :
           t.kind = "epStat" => now[t.ep] = st[t.ep],
         Fresh(st, rd, cur, wt)
  PROVE  Fresh(now, rd, cur, wt)
<1> DEFINE P == Pend(rd, cur, wt)
<1>1. \A t \in P : /\ Right(now, t) <=> Right(st, t)
                   /\ Wrong(now, t) <=> Wrong(st, t)
  BY DEF Right, Wrong
<1>2. /\ Range(rd) \subseteq P /\ Range(cur) \subseteq P
      /\ \A x \in Conns : Range(wt[x]) \subseteq P
  BY PendOf
<1>3. /\ \A n \in 1 .. Len(rd) : rd[n] \in P
      /\ \A x \in Conns : \A n \in 1 .. Len(wt[x]) : wt[x][n] \in P
  <2>1. \A n \in 1 .. Len(rd) : rd[n] \in P
    BY <1>2, RangeOf DEF Queues
  <2>2. ASSUME NEW x \in Conns
        PROVE  \A n \in 1 .. Len(wt[x]) : wt[x][n] \in P
    <3>1. wt[x] \in Seq(BegunTask)
      BY DEF Queues
    <3> QED
      BY <1>2, <3>1, RangeOf
  <2> QED
    BY <2>1, <2>2
<1>4. /\ Ordered(st, P, rd) /\ \A x \in Conns : Ordered(st, P, wt[x])
      /\ Heeded(st, P, rd, cur)
  BY DEF Fresh
<1> HIDE DEF P
<1>5. \A v : Bettered(st, P, v) => Bettered(now, P, v)
  BY <1>1 DEF Bettered
<1>6. Ordered(now, P, rd)
  BY <1>1, <1>3, <1>4, <1>5 DEF Ordered, Followed
<1>7. ASSUME NEW x \in Conns
      PROVE  Ordered(now, P, wt[x])
  <2>1. Ordered(st, P, wt[x]) /\ \A n \in 1 .. Len(wt[x]) : wt[x][n] \in P
    BY <1>3, <1>4
  <2> QED
    BY <1>1, <1>5, <2>1 DEF Ordered, Followed
<1>8. Heeded(now, P, rd, cur)
  BY <1>1, <1>2, <1>4, <1>5 DEF Heeded
<1> QED
  BY <1>6, <1>7, <1>8 DEF Fresh, P

-----------------------------------------------------------------------------
(***************************************************************************)
(* A connection resumes, comes or goes                                     *)
(***************************************************************************)

(* The tasks that waited are ready, and no task is lost.                   *)
LEMMA ResumePend ==
  ASSUME NEW rd, NEW wt, Queues(rd, <<>>, wt), NEW c \in Conns
  PROVE  LET r == rd \o wt[c]
             w == [wt EXCEPT ![c] = <<>>]
         IN  /\ Range(r) = Range(rd) \cup Range(wt[c])
             /\ Pend(r, <<>>, w) = Pend(rd, <<>>, wt)
             /\ \A x \in Conns : x # c => w[x] = wt[x]
             /\ w[c] = <<>> /\ Range(w[c]) = {}
<1> DEFINE r == rd \o wt[c]
           w == [wt EXCEPT ![c] = <<>>]
<1>1. wt[c] \in Seq(SoundTask) /\ rd \in Seq(SoundTask)
  <2>1. wt[c] \in Seq(BegunTask) /\ rd \in Seq(SoundTask)
    BY DEF Queues
  <2> QED
    BY <2>1, BegunAreSound
<1>2. Range(r) = Range(rd) \cup Range(wt[c])
  BY <1>1, ConcatRange
<1>3. /\ \A x \in Conns : x # c => w[x] = wt[x]
      /\ w[c] = <<>>
  BY DEF Queues
<1>4. Range(w[c]) = {}
  BY <1>3 DEF Range
<1> HIDE DEF r, w
<1>5. \A t : (\E x \in Conns : t \in Range(wt[x])) <=>
              t \in Range(wt[c]) \/ \E x \in Conns : t \in Range(w[x])
  <2>1. \A t, x : x \in Conns /\ t \in Range(wt[x]) =>
          x = c \/ t \in Range(w[x])
    BY <1>3
  <2>2. \A t, x : x \in Conns /\ t \in Range(w[x]) => t \in Range(wt[x])
    BY <1>3, <1>4
  <2> QED
    BY <2>1, <2>2
<1>6. Pend(r, <<>>, w) = Pend(rd, <<>>, wt)
  <2>1. \A t : t \in Pend(r, <<>>, w) <=> t \in Pend(rd, <<>>, wt)
    BY <1>2, <1>5 DEF Pend
  <2> QED
    BY <2>1
<1> QED
  BY <1>2, <1>3, <1>4, <1>6 DEF r, w

(* The drains of a connection end in order: those that waited go behind    *)
(* those that are ready.                                                   *)
LEMMA ResumeKeeps ==
  ASSUME NEW rd, NEW wt, NEW con \in Seq(Conns), Distinct(con), NEW st,
         Queues(rd, <<>>, wt), NEW c \in Conns,
         Structure(con, rd, <<>>, wt), Fresh(st, rd, <<>>, wt)
  PROVE  LET r == rd \o wt[c]
             w == [wt EXCEPT ![c] = <<>>]
         IN  Structure(con, r, <<>>, w) /\ Fresh(st, r, <<>>, w)
<1> DEFINE r == rd \o wt[c]
           w == [wt EXCEPT ![c] = <<>>]
           P == Pend(rd, <<>>, wt)
<1>1. /\ Range(r) = Range(rd) \cup Range(wt[c])
      /\ Pend(r, <<>>, w) = P
      /\ \A x \in Conns : x # c => w[x] = wt[x]
      /\ w[c] = <<>> /\ Range(w[c]) = {}
  BY ResumePend
<1>2. Range(<<>>) = {}
  BY DEF Range
<1>3. /\ InLine(con, P) /\ Nested(P) /\ WaitsBehind(con, wt)
      /\ Apart(wt, Range(rd))
  BY <1>2 DEF Structure
<1>4. /\ Ordered(st, P, rd) /\ \A x \in Conns : Ordered(st, P, wt[x])
  BY DEF Fresh
<1>5. Ordered(st, P, r)
  <2>1. wt[c] \in Seq(BegunTask) /\ rd \in Seq(SoundTask)
    BY DEF Queues
  <2>2. wt[c] \in Seq(SoundTask)
    BY <2>1, BegunAreSound
  <2> QED
    BY <1>4, <2>1, <2>2, OrderedConcat
<1> HIDE DEF r, w, P
<1>6. \A x \in Conns : Ordered(st, P, w[x])
  <2>1. Ordered(st, P, <<>>)
    BY DEF Ordered
  <2> QED
    BY <1>1, <1>4, <2>1
<1>7. WaitsBehind(con, w)
  BY <1>1, <1>3 DEF WaitsBehind
<1>8. Apart(w, Range(r))
  <2> SUFFICES ASSUME NEW x \in Conns, NEW u \in Range(w[x]),
                      NEW v \in Range(r), Rivals(u, v)
               PROVE  Head(u.todo) # Head(v.todo)
    BY DEF Apart
  <2>1. x # c /\ u \in Range(wt[x])
    BY <1>1
  <2>2. CASE v \in Range(rd)
    BY <1>3, <2>1, <2>2 DEF Apart
  <2>3. CASE v \in Range(wt[c])
    <3>1. Walks(u) /\ Walks(v) /\ u.ep = v.ep
      BY DEF Rivals
    <3>2. PICK n \in 1 .. Len(con) - 1 :
            con[n] = x /\ Head(u.todo) = <<con[n + 1], u.ep>>
      BY <1>3, <2>1, <3>1 DEF WaitsBehind
    <3>3. PICK m \in 1 .. Len(con) - 1 :
            con[m] = c /\ Head(v.todo) = <<con[m + 1], v.ep>>
      BY <1>3, <2>3, <3>1 DEF WaitsBehind
    <3>4. /\ n + 1 \in 1 .. Len(con) /\ m + 1 \in 1 .. Len(con)
          /\ n \in Int /\ m \in Int
      OBVIOUS
    <3>5. n + 1 = m + 1 => n = m
      BY <3>4
    <3>6. con[n + 1] # con[m + 1]
      BY <2>1, <3>2, <3>3, <3>4, <3>5 DEF Distinct
    <3> QED
      BY <3>2, <3>3, <3>6
  <2> QED
    BY <1>1, <2>2, <2>3
<1>9. Structure(con, r, <<>>, w)
  BY <1>1, <1>2, <1>3, <1>7, <1>8 DEF Structure, OldestRuns
<1>10. Fresh(st, r, <<>>, w)
  BY <1>1, <1>2, <1>5, <1>6 DEF Fresh, Heeded
<1> QED
  BY <1>9, <1>10 DEF r, w

(* A connection is listed last: nobody has to visit it, and the places do  *)
(* not change.                                                             *)
LEMMA ConStructure ==
  ASSUME NEW rd, NEW cur, NEW wt, Queues(rd, cur, wt),
         NEW con \in Seq(Conns), NEW c \in Conns,
         Structure(con, rd, cur, wt)
  PROVE  Structure(Append(con, c), rd, cur, wt)
<1> DEFINE l == Len(con)
           s == Append(con, c)
           P == Pend(rd, cur, wt)
<1>1. /\ l \in Nat /\ Len(s) = l + 1
      /\ \A n \in 1 .. l : s[n] = con[n] /\ n \in 1 .. Len(s)
  OBVIOUS
<1>2. \A t \in P : Walks(t) => t \in BegunTask
  BY PendOf DEF Walks
<1>3. InLine(con, P) /\ WaitsBehind(con, wt)
  BY DEF Structure
<1> HIDE DEF l, s, P
<1>4. ASSUME NEW t \in P, Walks(t)
      PROVE  Along(s, t)
  <2>1. PICK i \in 1 .. l : AlongAt(con, t, i)
    BY <1>3, <1>4 DEF InLine, Along, l
  <2> DEFINE k == Len(t.todo)
  <2>2. /\ k \in Nat /\ i + k - 1 <= l
        /\ \A n \in 1 .. k : t.todo[n] = <<con[i + n - 1], t.ep>>
    BY <1>2, <1>4, <2>1, TodoIs DEF AlongAt, l
  <2> HIDE DEF k
  <2>3. \A n \in 1 .. k : i + n - 1 \in 1 .. l
    BY <1>1, <2>2
  <2>4. \A n \in 1 .. k : t.todo[n] = <<s[i + n - 1], t.ep>>
    BY <1>1, <2>2, <2>3
  <2>5. i + k - 1 <= Len(s)
    BY <1>1, <2>2
  <2>6. AlongAt(s, t, i)
    BY <2>4, <2>5 DEF AlongAt, k
  <2> QED
    BY <1>1, <2>6 DEF Along
<1>5. ASSUME NEW x \in Conns, NEW u \in Range(wt[x]), Walks(u)
      PROVE  \E n \in 1 .. Len(s) - 1 :
               s[n] = x /\ Head(u.todo) = <<s[n + 1], u.ep>>
  <2>1. PICK n \in 1 .. l - 1 :
          con[n] = x /\ Head(u.todo) = <<con[n + 1], u.ep>>
    BY <1>3, <1>5 DEF WaitsBehind, l
  <2>2. n \in 1 .. l /\ n + 1 \in 1 .. l /\ n \in 1 .. Len(s) - 1
    BY <1>1
  <2> QED
    BY <1>1, <2>1, <2>2
<1>6. InLine(s, P) /\ WaitsBehind(s, wt)
  BY <1>4, <1>5 DEF InLine, WaitsBehind
<1> QED
  BY <1>6 DEF Structure, s, P

(* A connection nobody waits at or has still to visit leaves the list: the *)
(* places behind it move up by one.                                        *)
LEMMA CleanupStructure ==
  ASSUME NEW rd, NEW cur, NEW wt, Queues(rd, cur, wt),
         NEW con \in Seq(Conns), Distinct(con), NEW p \in 1 .. Len(con),
         \A t \in Range(wt[con[p]]) : t.kind # "epStat",
         \A t \in Pend(rd, cur, wt) :
           t.kind = "epStat" => <<con[p], t.ep>> \notin Way(t),
         Structure(con, rd, cur, wt)
  PROVE  Structure(RemoveAt(con, p), rd, cur, wt)
<1> DEFINE l == Len(con)
           s == RemoveAt(con, p)
           P == Pend(rd, cur, wt)
<1>1. /\ l \in Nat /\ Len(s) = l - 1 /\ p \in 1 .. l
      /\ \A n \in 1 .. l - 1 : s[n] = IF n < p THEN con[n] ELSE con[n + 1]
  BY RemoveIs
<1>2. /\ \A t \in P : Walks(t) => t \in BegunTask
      /\ \A x \in Conns : Range(wt[x]) \subseteq P
  BY PendOf DEF Walks
<1>3. /\ InLine(con, P) /\ WaitsBehind(con, wt)
      /\ \A t \in P : Walks(t) => <<con[p], t.ep>> \notin Way(t)
      /\ \A t \in Range(wt[con[p]]) : ~Walks(t)
  BY DEF Structure, Walks
<1> HIDE DEF s, P
<1>4. ASSUME NEW t \in P, Walks(t)
      PROVE  Along(s, t)
  <2>1. PICK i \in 1 .. l : AlongAt(con, t, i)
    BY <1>3, <1>4 DEF InLine, Along
  <2> DEFINE k == Len(t.todo)
  <2>2. /\ k \in Nat /\ k >= 1 /\ i + k - 1 <= l
        /\ \A n \in 1 .. k : t.todo[n] = <<con[i + n - 1], t.ep>>
    BY <1>2, <1>4, <2>1, TodoIs DEF AlongAt
  <2>3. ~(i <= p /\ p < i + k)
    BY <1>2, <1>3, <1>4, <2>1, WayIs
  <2> HIDE DEF k, l
  <2>4. CASE p < i
    <3> DEFINE j == i - 1
    <3>1. j \in 1 .. Len(s) /\ j + k - 1 <= Len(s)
      BY <1>1, <2>2, <2>4
    <3>2. ASSUME NEW n \in 1 .. k
          PROVE  t.todo[n] = <<s[j + n - 1], t.ep>>
      <4>1. /\ j + n - 1 \in 1 .. l - 1 /\ ~(j + n - 1 < p)
            /\ (j + n - 1) + 1 = i + n - 1
        BY <1>1, <2>2, <2>4
      <4> HIDE DEF j
      <4>2. s[j + n - 1] = con[i + n - 1]
        BY <1>1, <4>1
      <4> QED
        BY <2>2, <4>2
    <3> HIDE DEF j
    <3>3. AlongAt(s, t, j)
      BY <3>1, <3>2 DEF AlongAt, k
    <3> QED
      BY <3>1, <3>3 DEF Along
  <2>5. CASE p >= i + k
    <3>1. i \in 1 .. Len(s) /\ i + k - 1 <= Len(s)
      BY <1>1, <2>2, <2>5
    <3>2. ASSUME NEW n \in 1 .. k
          PROVE  t.todo[n] = <<s[i + n - 1], t.ep>>
      <4>1. i + n - 1 \in 1 .. l - 1 /\ i + n - 1 < p
        BY <1>1, <2>2, <2>5
      <4>2. s[i + n - 1] = con[i + n - 1]
        BY <1>1, <4>1
      <4> QED
        BY <2>2, <4>2
    <3>3. AlongAt(s, t, i)
      BY <3>1, <3>2 DEF AlongAt, k
    <3> QED
      BY <3>1, <3>3 DEF Along
  <2> QED
    BY <1>1, <2>2, <2>3, <2>4, <2>5
<1>5. ASSUME NEW x \in Conns, NEW u \in Range(wt[x]), Walks(u)
      PROVE  \E n \in 1 .. Len(s) - 1 :
               s[n] = x /\ Head(u.todo) = <<s[n + 1], u.ep>>
  <2>1. PICK n \in 1 .. l - 1 :
          con[n] = x /\ Head(u.todo) = <<con[n + 1], u.ep>>
    BY <1>3, <1>5 DEF WaitsBehind
  <2>2. u \in P /\ Head(u.todo) \in Way(u)
    BY <1>2, <1>5, TodoIs
  <2>3. n # p
    BY <1>3, <1>5, <2>1
  <2>4. n + 1 # p
    BY <1>3, <1>5, <2>1, <2>2
  <2> HIDE DEF l
  <2>5. CASE n < p
    <3>1. /\ n \in 1 .. Len(s) - 1 /\ n + 1 < p
          /\ n \in 1 .. l - 1 /\ n + 1 \in 1 .. l - 1
      BY <1>1, <2>4, <2>5
    <3>2. s[n] = con[n] /\ s[n + 1] = con[n + 1]
      BY <1>1, <2>5, <3>1
    <3> QED
      BY <2>1, <3>1, <3>2
  <2>6. CASE n > p
    <3> DEFINE m == n - 1
    <3>1. /\ m \in 1 .. Len(s) - 1 /\ ~(m < p) /\ ~(n < p)
          /\ m \in 1 .. l - 1 /\ n \in 1 .. l - 1 /\ m + 1 = n
      BY <1>1, <2>6
    <3> HIDE DEF m
    <3>2. s[m] = con[n] /\ s[n] = con[n + 1]
      BY <1>1, <3>1
    <3> QED
      BY <2>1, <3>1, <3>2
  <2> QED
    BY <1>1, <2>3, <2>5, <2>6
<1>6. InLine(s, P) /\ WaitsBehind(s, wt)
  BY <1>4, <1>5 DEF InLine, WaitsBehind
<1> QED
  BY <1>6 DEF Structure, s, P

-----------------------------------------------------------------------------
(***************************************************************************)
(* The event loop runs a task                                              *)
(***************************************************************************)

(* The head of the ready queue, and what is pending.                       *)
LEMMA RunPend ==
  ASSUME NEW rd, NEW wt, Queues(rd, <<>>, wt), rd # <<>>
  PROVE  /\ Head(rd) \in SoundTask /\ Tail(rd) \in Seq(SoundTask)
         /\ Range(rd) = {Head(rd)} \cup Range(Tail(rd))
         /\ \A u : u \in Pend(rd, <<>>, wt) <=>
              \/ u = Head(rd) \/ u \in Range(Tail(rd))
              \/ \E x \in Conns : u \in Range(wt[x])
<1>1. rd \in Seq(SoundTask)
  BY DEF Queues
<1>2. Head(rd) \in SoundTask /\ Tail(rd) \in Seq(SoundTask)
  BY <1>1
<1>3. Range(rd) = {Head(rd)} \cup Range(Tail(rd))
  BY <1>1, TailRange
<1>4. Range(<<>>) = {}
  BY DEF Range
<1> QED
  BY <1>2, <1>3, <1>4 DEF Pend

(* A begun task runs that overtakes no other.                              *)
LEMMA RunBegun ==
  ASSUME NEW rd, NEW wt, NEW con \in Seq(Conns), Distinct(con), NEW st,
         Queues(rd, <<>>, wt), rd # <<>>, Head(rd).begun,
         \A u \in Range(Tail(rd)) : ~Overtakes(Head(rd), u),
         Structure(con, rd, <<>>, wt), Fresh(st, rd, <<>>, wt)
  PROVE  /\ Structure(con, Tail(rd), <<Head(rd)>>, wt)
         /\ Fresh(st, Tail(rd), <<Head(rd)>>, wt)
         /\ Pend(Tail(rd), <<Head(rd)>>, wt) = Pend(rd, <<>>, wt)
<1> DEFINE t == Head(rd)
           s == Tail(rd)
           P == Pend(rd, <<>>, wt)
<1>1. /\ t \in SoundTask /\ s \in Seq(SoundTask)
      /\ Range(rd) = {t} \cup Range(s)
      /\ \A u : u \in P <=> \/ u = t \/ u \in Range(s)
                            \/ \E x \in Conns : u \in Range(wt[x])
  BY RunPend
<1>2. \A u : u \in Pend(s, <<t>>, wt) <=>
          \/ u \in Range(s) \/ u \in Range(<<t>>)
          \/ \E x \in Conns : u \in Range(wt[x])
  BY DEF Pend
<1>3. Range(<<t>>) = {t} /\ Range(<<>>) = {}
  BY DEF Range
<1>4. Pend(s, <<t>>, wt) = P
  <2>1. \A u : u \in Pend(s, <<t>>, wt) <=> u \in P
    BY <1>1, <1>3, <1>2
  <2> QED
    BY <2>1
<1>5. /\ InLine(con, P) /\ Nested(P) /\ WaitsBehind(con, wt)
      /\ Apart(wt, Range(rd))
  BY <1>3 DEF Structure
<1>6. /\ Ordered(st, P, rd) /\ \A x \in Conns : Ordered(st, P, wt[x])
  BY DEF Fresh
<1>7. /\ Ordered(st, P, s)
      /\ Wrong(st, t) => \/ Bettered(st, P, t)
                         \/ \E r \in Range(s) : Right(st, r) /\ Same(r, t)
  BY <1>6, OrderedTail DEF Queues
<1>8. t \in BegunTask
  BY <1>1 DEF BegunTask
<1>9. \A u \in P : u.begun => u \in BegunTask
  BY PendOf
<1> HIDE DEF t, s, P
<1>10. Apart(wt, Range(s) \cup Range(<<t>>))
  BY <1>1, <1>3, <1>5 DEF Apart
<1>11. OldestRuns(s, <<t>>)
  <2> SUFFICES ASSUME NEW u \in Range(s), Rivals(u, t)
               PROVE  Way(t) \subseteq Way(u)
    BY <1>3 DEF OldestRuns
  <2>1. /\ u \in P /\ t \in P /\ Walks(u) /\ Walks(t) /\ u.ep = t.ep
        /\ u \in BegunTask
    BY <1>1, <1>9 DEF Rivals, Walks
  <2>2. CASE Way(t) \subseteq Way(u)
    BY <2>2
  <2>3. CASE Way(u) \subseteq Way(t)
    <3>1. PICK i \in 1 .. Len(con) : AlongAt(con, u, i)
      BY <1>5, <2>1 DEF InLine, Along
    <3>2. PICK m \in 1 .. Len(con) : AlongAt(con, t, m)
      BY <1>5, <2>1 DEF InLine, Along
    <3>3. m <= i /\ i + Len(u.todo) <= m + Len(t.todo)
      BY <1>8, <2>1, <2>3, <3>1, <3>2, WaysAre
    <3>4. ~(Len(u.todo) < Len(t.todo))
      BY <2>1 DEF Overtakes, Walks, t, s
    <3>5. /\ Len(u.todo) \in Nat /\ Len(t.todo) \in Nat /\ Len(con) \in Nat
          /\ i \in Int /\ m \in Int
      BY <1>8, <2>1, TodoIs
    <3>6. i <= m /\ m + Len(t.todo) <= i + Len(u.todo)
      BY <3>3, <3>4, <3>5
    <3> QED
      BY <1>8, <2>1, <3>1, <3>2, <3>6, WaysAre
  <2> QED
    BY <1>5, <2>1, <2>2, <2>3 DEF Nested
<1>12. Heeded(st, P, s, <<t>>)
  BY <1>3, <1>7 DEF Heeded
<1> QED
  BY <1>4, <1>5, <1>6, <1>7, <1>10, <1>11, <1>12 DEF Structure, Fresh, t, s, P

(* A task runs that is no epStat.                                          *)
LEMMA RunOther ==
  ASSUME NEW rd, NEW wt, NEW con, NEW st,
         Queues(rd, <<>>, wt), rd # <<>>, Head(rd).kind # "epStat",
         NEW k, \A u \in Range(k) : u.kind # "epStat",
         Structure(con, rd, <<>>, wt), Fresh(st, rd, <<>>, wt)
  PROVE  Structure(con, Tail(rd), k, wt) /\ Fresh(st, Tail(rd), k, wt)
<1> DEFINE t == Head(rd)
           s == Tail(rd)
           P == Pend(rd, <<>>, wt)
           R == Pend(s, k, wt)
<1>1. /\ t \in SoundTask /\ s \in Seq(SoundTask)
      /\ Range(rd) = {t} \cup Range(s)
      /\ \A u : u \in P <=> \/ u = t \/ u \in Range(s)
                            \/ \E x \in Conns : u \in Range(wt[x])
  BY RunPend
<1>2. \A u : u \in R <=> \/ u \in Range(s) \/ u \in Range(k)
                          \/ \E x \in Conns : u \in Range(wt[x])
  BY DEF Pend
<1>3. Range(<<>>) = {}
  BY DEF Range
<1>4. \A u : u.kind = "epStat" => (u \in P <=> u \in R)
  BY <1>1, <1>2
<1>5. /\ InLine(con, P) /\ Nested(P) /\ WaitsBehind(con, wt)
      /\ Apart(wt, Range(rd))
  BY <1>3 DEF Structure
<1>6. /\ Ordered(st, P, rd) /\ \A x \in Conns : Ordered(st, P, wt[x])
  BY DEF Fresh
<1>7. Ordered(st, P, s)
  BY <1>6, OrderedTail DEF Queues
<1> HIDE DEF t, s, P, R
<1>8. \A v : Bettered(st, P, v) => Bettered(st, R, v)
  BY <1>4 DEF Bettered, Right
<1>9. Ordered(st, R, s) /\ \A x \in Conns : Ordered(st, R, wt[x])
  BY <1>6, <1>7, <1>8, OrderedStays
<1>10. Heeded(st, R, s, k)
  BY DEF Heeded, Wrong
<1>11. InLine(con, R)
  BY <1>4, <1>5 DEF InLine, Walks
<1>12. Nested(R)
  BY <1>4, <1>5 DEF Nested, Rivals, Walks
<1>13. Apart(wt, Range(s) \cup Range(k))
  BY <1>1, <1>5, <1>2 DEF Apart, Rivals, Walks
<1>14. OldestRuns(s, k)
  BY DEF OldestRuns, Rivals, Walks
<1> QED
  BY <1>5, <1>9, <1>10, <1>11, <1>12, <1>13, <1>14
     DEF Structure, Fresh, t, s, P, R

(* An epStat runs while nobody is connected, and is finished.              *)
LEMMA RunGone ==
  ASSUME NEW rd, NEW wt, NEW st, Queues(rd, <<>>, wt), rd # <<>>,
         Head(rd).kind = "epStat", ~Head(rd).begun,
         Structure(<<>>, rd, <<>>, wt), Fresh(st, rd, <<>>, wt)
  PROVE  Structure(<<>>, Tail(rd), <<>>, wt) /\ Fresh(st, Tail(rd), <<>>, wt)
<1> DEFINE t == Head(rd)
           s == Tail(rd)
           P == Pend(rd, <<>>, wt)
           R == Pend(s, <<>>, wt)
<1>1. /\ t \in SoundTask /\ s \in Seq(SoundTask)
      /\ Range(rd) = {t} \cup Range(s)
      /\ \A u : u \in P <=> \/ u = t \/ u \in Range(s)
                            \/ \E x \in Conns : u \in Range(wt[x])
  BY RunPend
<1>2. \A u : u \in R <=> \/ u \in Range(s) \/ u \in Range(<<>>)
                          \/ \E x \in Conns : u \in Range(wt[x])
  BY DEF Pend
<1>3. Range(<<>>) = {}
  BY DEF Range
<1>4. InLine(<<>>, P) /\ WaitsBehind(<<>>, wt)
  BY DEF Structure
<1>5. R \subseteq P
  BY <1>1, <1>3, <1>2
<1>6. \A u \in P : ~Walks(u)
  <2>1. 1 .. Len(<<>>) = {}
    OBVIOUS
  <2> QED
    BY <1>4, <2>1 DEF InLine, Along
<1>7. Ordered(st, P, rd) /\ \A x \in Conns : Ordered(st, P, wt[x])
  BY DEF Fresh
<1>8. Ordered(st, P, s)
  BY <1>7, OrderedTail DEF Queues
<1>9. /\ \A n \in 1 .. Len(s) : s[n] \in P
      /\ \A x \in Conns : \A n \in 1 .. Len(wt[x]) : wt[x][n] \in P
  <2>1. \A n \in 1 .. Len(s) : s[n] \in Range(s)
    BY <1>1, RangeOf
  <2>2. \A x \in Conns : wt[x] \in Seq(BegunTask)
    BY DEF Queues
  <2>3. \A x \in Conns : \A n \in 1 .. Len(wt[x]) : wt[x][n] \in Range(wt[x])
    BY <2>2, RangeOf
  <2> QED
    BY <1>1, <2>1, <2>3
<1> HIDE DEF t, s, P, R
<1>10. \A v \in P : Wrong(st, v) => ~Bettered(st, P, v)
  BY <1>6 DEF Wrong, Bettered, Walks
<1>11. Ordered(st, R, s) /\ \A x \in Conns : Ordered(st, R, wt[x])
  <2>1. Ordered(st, R, s)
    BY <1>8, <1>9, <1>10, OrderedStays
  <2>2. ASSUME NEW x \in Conns
        PROVE  Ordered(st, R, wt[x])
    BY <1>7, <1>9, <1>10, OrderedStays
  <2> QED
    BY <2>1, <2>2
<1>12. InLine(<<>>, R) /\ Nested(R)
  BY <1>5, <1>6 DEF InLine, Nested, Rivals
<1>13. Apart(wt, Range(s) \cup Range(<<>>))
  <2>1. \A v \in Range(s) : ~Walks(v)
    BY <1>1, <1>6
  <2> QED
    BY <1>3, <2>1 DEF Apart, Rivals
<1>14. OldestRuns(s, <<>>) /\ Heeded(st, R, s, <<>>)
  BY <1>3 DEF OldestRuns, Heeded
<1> QED
  BY <1>4, <1>11, <1>12, <1>13, <1>14 DEF Structure, Fresh, s, R

(* An epStat runs for the first time: it has to visit all connections, and *)
(* every rival that is ready has begun already, or it would be overtaken.  *)
LEMMA RunNew ==
  ASSUME NEW rd, NEW wt, NEW con \in Seq(Conns), Distinct(con), NEW st,
         con # <<>>, Queues(rd, <<>>, wt), rd # <<>>,
         Head(rd).kind = "epStat", ~Head(rd).begun,
         \A u \in Range(Tail(rd)) : ~Overtakes(Head(rd), u),
         NEW n \in BegunTask, n.kind = "epStat", n.ep = Head(rd).ep,
         n.state = Head(rd).state,
         n.todo = [i \in DOMAIN con |-> <<con[i], n.ep>>],
         Structure(con, rd, <<>>, wt), Fresh(st, rd, <<>>, wt)
  PROVE  /\ Structure(con, Tail(rd), <<n>>, wt)
         /\ Fresh(st, Tail(rd), <<n>>, wt)
<1> DEFINE t == Head(rd)
           s == Tail(rd)
           P == Pend(rd, <<>>, wt)
           R == Pend(s, <<n>>, wt)
<1>1. /\ t \in SoundTask /\ s \in Seq(SoundTask)
      /\ Range(rd) = {t} \cup Range(s)
      /\ \A u : u \in P <=> \/ u = t \/ u \in Range(s)
                            \/ \E x \in Conns : u \in Range(wt[x])
  BY RunPend
<1>2. Range(<<>>) = {} /\ Range(<<n>>) = {n}
  BY DEF Range
<1>3. \A u : u \in R <=> \/ u \in Range(s) \/ u = n
                         \/ \E x \in Conns : u \in Range(wt[x])
  BY <1>2 DEF Pend
<1>4. /\ InLine(con, P) /\ Nested(P) /\ WaitsBehind(con, wt)
      /\ Apart(wt, Range(rd))
  BY <1>2 DEF Structure
<1>5. /\ Ordered(st, P, rd) /\ \A x \in Conns : Ordered(st, P, wt[x])
  BY DEF Fresh
<1>6. /\ Ordered(st, P, s)
      /\ Wrong(st, t) => \/ Bettered(st, P, t)
                         \/ \E r \in Range(s) : Right(st, r) /\ Same(r, t)
  BY <1>5, OrderedTail DEF Queues
<1>7. /\ Len(con) \in Nat /\ Len(con) >= 1 /\ DOMAIN con = 1 .. Len(con)
      /\ 1 \in 1 .. Len(con)
  <2>1. Len(con) # 0 /\ Len(con) \in Nat
    BY EmptySeq
  <2> QED
    BY <2>1
<1>8. /\ AlongAt(con, n, 1) /\ Walks(n) /\ n.begun
      /\ Head(n.todo) = <<con[1], n.ep>>
      /\ \A i \in 1 .. Len(con) : <<con[i], n.ep>> \in Way(n)
  <2>1. Len(n.todo) = Len(con) /\ n.begun
    BY <1>7 DEF BegunTask
  <2>2. AlongAt(con, n, 1)
    <3>1. 1 + Len(n.todo) - 1 <= Len(con)
      BY <1>7, <2>1
    <3>2. ASSUME NEW m \in 1 .. Len(con)
          PROVE  n.todo[m] = <<con[1 + m - 1], n.ep>>
      <4>1. 1 + m - 1 = m
        OBVIOUS
      <4> QED
        BY <1>7, <4>1
    <3> QED
      BY <2>1, <3>1, <3>2 DEF AlongAt
  <2>3. /\ Head(n.todo) = <<con[1], n.ep>>
        /\ \A i \in 1 .. Len(con) :
             <<con[i], n.ep>> \in Way(n) <=> 1 <= i /\ i < 1 + Len(n.todo)
    BY <1>7, <2>2, WayIs
  <2>4. \A i \in 1 .. Len(con) : 1 <= i /\ i < 1 + Len(n.todo)
    BY <1>7, <2>1
  <2> QED
    BY <2>1, <2>2, <2>3, <2>4 DEF Walks
<1>9. \A u \in P : u.begun => u \in BegunTask
  BY PendOf
<1>10. \A x \in Conns : \A u \in Range(wt[x]) : u \in BegunTask /\ u \in P
  BY PendOf
<1>11. \A u \in Range(s) : u.kind = "epStat" /\ u.ep = n.ep => ~u.begun
  BY DEF Overtakes
<1>12. ~t.begun /\ t.kind = "epStat" /\ t.ep = n.ep /\ t.state = n.state
  OBVIOUS
<1> HIDE DEF t, s, P, R
<1>13. ASSUME NEW u \in BegunTask, Walks(u), u \in P, u.ep = n.ep
       PROVE  Way(u) \subseteq Way(n)
  <2>1. PICK i \in 1 .. Len(con) : AlongAt(con, u, i)
    BY <1>4, <1>13 DEF InLine, Along
  <2>2. \A x \in Way(u) : \E m \in 1 .. Len(con) : x = <<con[m], u.ep>>
    BY <2>1, WayIs
  <2> QED
    BY <1>8, <1>13, <2>2
<1>14. ASSUME NEW x \in Conns, NEW u \in Range(wt[x]), Walks(u), u.ep = n.ep
       PROVE  /\ Head(u.todo) # Head(n.todo) /\ Head(n.todo) \notin Way(u)
              /\ Way(u) \subseteq Way(n)
  <2>1. u \in BegunTask /\ u \in P
    BY <1>10
  <2>2. PICK m \in 1 .. Len(con) - 1 :
          con[m] = x /\ Head(u.todo) = <<con[m + 1], u.ep>>
    BY <1>4, <1>14 DEF WaitsBehind
  <2>3. m + 1 \in 1 .. Len(con) /\ m + 1 # 1 /\ m + 1 > 1
    BY <1>7
  <2>4. Head(u.todo) # Head(n.todo)
    BY <1>7, <1>8, <2>2, <2>3 DEF Distinct
  <2>5. PICK i \in 1 .. Len(con) : AlongAt(con, u, i)
    BY <1>4, <1>14, <2>1 DEF InLine, Along
  <2>6. /\ Head(u.todo) = <<con[i], u.ep>>
        /\ <<con[1], u.ep>> \in Way(u) => i <= 1
    BY <1>7, <2>1, <2>5, WayIs
  <2>7. i = 1 => Head(u.todo) = Head(n.todo)
    BY <1>8, <1>14, <2>6
  <2>8. Head(n.todo) \notin Way(u)
    BY <1>7, <1>8, <1>14, <2>4, <2>6, <2>7
  <2> QED
    BY <1>13, <1>14, <2>1, <2>4, <2>8
<1>15. InLine(con, R)
  BY <1>1, <1>3, <1>4, <1>7, <1>8 DEF InLine, Along
<1>16. Nested(R)
  <2>1. ASSUME NEW u \in R, Rivals(u, n)
        PROVE  Way(u) \subseteq Way(n)
    <3>1. Walks(u) /\ u.ep = n.ep
      BY <2>1 DEF Rivals
    <3>2. u = n \/ u \in P
      BY <1>1, <1>3
    <3> QED
      BY <1>9, <1>13, <3>1, <3>2 DEF Walks
  <2>2. \A u \in R : u = n \/ u \in P
    BY <1>1, <1>3
  <2>3. \A u \in R : Rivals(n, u) => Rivals(u, n)
    BY DEF Rivals
  <2> QED
    BY <1>4, <2>1, <2>2, <2>3 DEF Nested
<1>17. Apart(wt, Range(s) \cup Range(<<n>>))
  <2>1. \A x \in Conns : \A u \in Range(wt[x]) :
          Rivals(u, n) => Head(u.todo) # Head(n.todo)
    BY <1>14 DEF Rivals
  <2>2. Apart(wt, Range(s))
    BY <1>1, <1>4 DEF Apart
  <2> QED
    BY <1>2, <2>1, <2>2 DEF Apart
<1>18. OldestRuns(s, <<n>>)
  BY <1>2, <1>11 DEF OldestRuns, Rivals, Walks
<1>19. ASSUME NEW v, v.kind = "epStat", v.ep # n.ep, Bettered(st, P, v)
       PROVE  Bettered(st, R, v)
  BY <1>1, <1>3, <1>12, <1>19 DEF Bettered
<1>20. Ordered(st, R, s)
  <2>1. \A i \in 1 .. Len(s) : s[i] \in Range(s)
    BY <1>1, RangeOf
  <2>2. ASSUME NEW i \in 1 .. Len(s), Wrong(st, s[i]), Bettered(st, P, s[i])
        PROVE  Bettered(st, R, s[i])
    <3>1. s[i].begun /\ s[i].kind = "epStat"
      BY <2>2 DEF Bettered, Wrong
    <3>2. s[i].ep # n.ep
      BY <1>11, <2>1, <3>1
    <3> QED
      BY <1>19, <2>2, <3>1, <3>2
  <2> QED
    BY <1>6, <2>2, OrderedStays
<1>21. ASSUME NEW x \in Conns
       PROVE  Ordered(st, R, wt[x])
  <2>1. \A i \in 1 .. Len(wt[x]) : wt[x][i] \in Range(wt[x])
    <3>1. wt[x] \in Seq(BegunTask)
      BY DEF Queues
    <3> QED
      BY <3>1, RangeOf
  <2>2. ASSUME NEW v \in Range(wt[x]), Wrong(st, v), Bettered(st, P, v)
        PROVE  Bettered(st, R, v)
    <3>1. v.kind = "epStat" /\ v \in BegunTask /\ v.begun /\ Walks(v)
      BY <1>10, <2>2 DEF Wrong, BegunTask, Walks
    <3>2. CASE v.ep # n.ep
      BY <1>19, <2>2, <3>1, <3>2
    <3>3. CASE v.ep = n.ep
      <4>1. PICK w \in P :
              /\ Right(st, w) /\ w.ep = v.ep
              /\ w.begun => Way(v) \subseteq Way(w) /\ Way(v) # Way(w)
        BY <2>2 DEF Bettered
      <4>2. CASE w = t
        <5>1. Right(st, n) /\ n \in R
          BY <1>3, <1>12, <4>1, <4>2 DEF Right
        <5>2. Way(v) \subseteq Way(n) /\ Head(n.todo) \notin Way(v)
          BY <1>14, <3>1, <3>3
        <5>3. Head(n.todo) \in Way(n)
          BY TodoIs
        <5> QED
          BY <3>1, <3>3, <5>1, <5>2, <5>3 DEF Bettered
      <4>3. CASE w # t
        BY <1>1, <1>3, <3>1, <4>1, <4>3 DEF Bettered
      <4> QED
        BY <4>2, <4>3
    <3> QED
      BY <3>2, <3>3
  <2> QED
    BY <1>5, <2>1, <2>2, OrderedStays
<1>22. Heeded(st, R, s, <<n>>)
  <2>1. ASSUME Wrong(st, n)
        PROVE  Bettered(st, R, n)
    <3>1. Wrong(st, t) /\ ~Bettered(st, P, t)
      BY <1>12, <2>1 DEF Wrong, Bettered
    <3>2. PICK r \in Range(s) : Right(st, r) /\ Same(r, t)
      BY <1>6, <3>1
    <3>3. r \in R /\ ~r.begun /\ r.ep = n.ep
      BY <1>3, <1>12, <3>2 DEF Same
    <3> QED
      BY <1>8, <3>2, <3>3 DEF Bettered
  <2> QED
    BY <1>2, <2>1 DEF Heeded
<1> QED
  BY <1>4, <1>15, <1>16, <1>17, <1>18, <1>20, <1>21, <1>22
     DEF Structure, Fresh, s, R

-----------------------------------------------------------------------------
(***************************************************************************)
(* A task sends                                                            *)
(***************************************************************************)

(* How the running task sends: it waits for a turn, in the drain of the    *)
(* connection, or goes on.                                                 *)
Sends(rd, cur, wt, r, k, w) ==
  LET t == Head(cur)
      c == Head(t.todo)[1]
  IN  \/ r = rd \o Sent(t) /\ k = <<>> /\ w = wt /\ wt[c] = <<>>
      \/ r = rd /\ k = <<>> /\ w = [wt EXCEPT ![c] = @ \o Sent(t)]
      \/ r = rd /\ k = Sent(t) /\ w = wt /\ wt[c] = <<>>

(* What the queues hold when a task has sent: the same, with the rest of   *)
(* the task in one place.                                                  *)
SendSplits(rd, cur, wt, r, k, w) ==
  LET t == Head(cur)
      c == Head(t.todo)[1]
      S == Range(Sent(t))
      P == Pend(rd, cur, wt)
      R == Pend(r, k, w)
  IN  /\ t \in BegunTask /\ Range(cur) = {t} /\ c \in Conns /\ t \in P
      /\ \/ r = rd
         \/ /\ Range(r) = Range(rd) \cup S /\ r = rd \o Sent(t)
            /\ w = wt /\ wt[c] = <<>> /\ Range(k) = {}
      /\ \/ Range(k) = {}
         \/ Range(k) = S /\ r = rd /\ w = wt /\ wt[c] = <<>>
      /\ \A x \in Conns : x # c => w[x] = wt[x]
      /\ \/ w = wt /\ wt[c] = <<>>
         \/ /\ w[c] = wt[c] \o Sent(t) /\ r = rd /\ Range(k) = {}
            /\ Range(w[c]) = Range(wt[c]) \cup S
      /\ \A u \in P : u \in R \/ u = t
      /\ \A u \in R : u \in P \/ u \in S
      /\ S \subseteq R

(* A send takes the running task out and puts its rest back.               *)
LEMMA SendPend ==
  ASSUME NEW rd, NEW cur, NEW wt, Queues(rd, cur, wt), cur # <<>>,
         NEW r, NEW k, NEW w, Sends(rd, cur, wt, r, k, w)
  PROVE  SendSplits(rd, cur, wt, r, k, w)
<1> DEFINE t == Head(cur)
           c == Head(t.todo)[1]
           S == Range(Sent(t))
           P == Pend(rd, cur, wt)
           R == Pend(r, k, w)
<1>1. t \in BegunTask /\ Range(cur) = {t}
  BY ShortSeq DEF Queues
<1>2. c \in Conns /\ Sent(t) \in Seq(BegunTask) /\ Sent(t) \in Seq(SoundTask)
  <2>1. c \in Conns /\ Sent(t) \in Seq(BegunTask)
    BY <1>1, RestSound
  <2> QED
    BY <2>1, BegunAreSound
<1>3. /\ rd \in Seq(SoundTask) /\ wt[c] \in Seq(BegunTask)
      /\ wt \in [Conns -> Seq(BegunTask)]
  BY <1>2 DEF Queues
<1>4. /\ Range(rd \o Sent(t)) = Range(rd) \cup S
      /\ Range(wt[c] \o Sent(t)) = Range(wt[c]) \cup S
      /\ Range(<<>>) = {}
  <2>1. Range(rd \o Sent(t)) = Range(rd) \cup S
    BY <1>2, <1>3, ConcatRange
  <2>2. Range(wt[c] \o Sent(t)) = Range(wt[c]) \cup S
    BY <1>2, <1>3, ConcatRange
  <2> QED
    BY <2>1, <2>2, ShortRanges
<1>5. /\ \A u : u \in P <=> \/ u \in Range(rd) \/ u = t
                            \/ \E x \in Conns : u \in Range(wt[x])
  BY <1>1 DEF Pend
<1>6. t \in P
  BY <1>5
<1>7. /\ \A u : u \in R <=> \/ u \in Range(r) \/ u \in Range(k)
                            \/ \E x \in Conns : u \in Range(w[x])
  BY DEF Pend
<1>8. \/ r = rd \o Sent(t) /\ k = <<>> /\ w = wt /\ wt[c] = <<>>
      \/ r = rd /\ k = <<>> /\ w = [wt EXCEPT ![c] = @ \o Sent(t)]
      \/ r = rd /\ k = Sent(t) /\ w = wt /\ wt[c] = <<>>
  BY DEF Sends
<1>9. CASE r = rd \o Sent(t) /\ k = <<>> /\ w = wt /\ wt[c] = <<>>
  <2> HIDE DEF t, c, S, P, R, SendSplits
  <2>1. Range(r) = Range(rd) \cup S /\ Range(k) = {}
    BY <1>4, <1>9
  <2>2. /\ \A u \in P : u \in R \/ u = t
        /\ \A u \in R : u \in P \/ u \in S
        /\ S \subseteq R
    BY <1>5, <1>7, <1>9, <2>1
  <2> QED
    BY <1>1, <1>2, <1>9, <1>6, <2>1, <2>2 DEF t, c, S, P, R, SendSplits
<1>10. CASE r = rd /\ k = <<>> /\ w = [wt EXCEPT ![c] = @ \o Sent(t)]
  <2>1. /\ \A x \in Conns : x # c => w[x] = wt[x]
        /\ w[c] = wt[c] \o Sent(t)
    BY <1>2, <1>3, <1>10
  <2> HIDE DEF t, c, S, P, R, SendSplits
  <2>2. Range(w[c]) = Range(wt[c]) \cup S /\ Range(k) = {}
    BY <1>4, <1>10, <2>1
  <2>3. \A u : (\E x \in Conns : u \in Range(w[x])) <=>
               u \in S \/ \E x \in Conns : u \in Range(wt[x])
    <3>1. \A u, x : x \in Conns /\ u \in Range(w[x]) =>
            u \in S \/ u \in Range(wt[x])
      BY <2>1, <2>2
    <3>2. \A u, x : x \in Conns /\ u \in Range(wt[x]) => u \in Range(w[x])
      BY <2>1, <2>2
    <3>3. \A u \in S : u \in Range(w[c])
      BY <2>2
    <3> QED
      BY <1>2, <3>1, <3>2, <3>3
  <2>4. /\ \A u \in P : u \in R \/ u = t
        /\ \A u \in R : u \in P \/ u \in S
        /\ S \subseteq R
    BY <1>5, <1>7, <1>10, <2>2, <2>3
  <2> QED
    BY <1>1, <1>2, <1>10, <1>6, <2>1, <2>2, <2>4 DEF t, c, S, P, R, SendSplits
<1>11. CASE r = rd /\ k = Sent(t) /\ w = wt /\ wt[c] = <<>>
  <2>1. Range(k) = S
    BY <1>11
  <2> HIDE DEF t, c, S, P, R, SendSplits
  <2>2. /\ \A u \in P : u \in R \/ u = t
        /\ \A u \in R : u \in P \/ u \in S
        /\ S \subseteq R
    BY <1>5, <1>7, <1>11, <2>1
  <2> QED
    BY <1>1, <1>2, <1>11, <1>6, <2>1, <2>2 DEF t, c, S, P, R, SendSplits
<1> QED
  BY <1>8, <1>9, <1>10, <1>11

(* An epStat that waits with the next message of one that has sent waits   *)
(* at the connection that one has just sent to.                            *)
LEMMA HeadsMeet ==
  ASSUME NEW con \in Seq(Conns), Distinct(con), NEW wt, WaitsBehind(con, wt),
         NEW t \in BegunTask, NEW i \in 1 .. Len(con), AlongAt(con, t, i),
         NEW x \in Conns, NEW u \in Range(wt[x]), NEW v \in Range(Sent(t)),
         Rivals(u, v), Head(u.todo) = Head(v.todo)
  PROVE  x = Head(t.todo)[1]
<1>1. PICK m \in 1 .. Len(con) - 1 :
        con[m] = x /\ Head(u.todo) = <<con[m + 1], u.ep>>
  BY DEF WaitsBehind, Rivals
<1>2. /\ i + 1 \in 1 .. Len(con)
      /\ Head(v.todo) = <<con[i + 1], t.ep>>
      /\ Head(t.todo) = <<con[i], t.ep>>
  BY SentAlong
<1>3. Len(con) \in Nat /\ m + 1 \in 1 .. Len(con) /\ m \in Int /\ i \in Int
  BY <1>1
<1>4. con[m + 1] = con[i + 1]
  BY <1>1, <1>2
<1>5. m + 1 = i + 1
  BY <1>2, <1>3, <1>4 DEF Distinct
<1>6. m = i
  BY <1>3, <1>5
<1> QED
  BY <1>1, <1>2, <1>6

(* A send keeps the places in order: the task, when it waits, waits behind *)
(* those with no more to do than it.                                       *)
LEMMA SendStructure ==
  ASSUME NEW rd, NEW cur, NEW wt, Queues(rd, cur, wt), cur # <<>>,
         NEW con \in Seq(Conns), Distinct(con),
         NEW r, NEW k, NEW w, Sends(rd, cur, wt, r, k, w),
         Structure(con, rd, cur, wt)
  PROVE  Structure(con, r, k, w)
<1> DEFINE t == Head(cur)
           c == Head(t.todo)[1]
           S == Range(Sent(t))
           P == Pend(rd, cur, wt)
           R == Pend(r, k, w)
<1>1. t \in BegunTask
  BY ShortSeq DEF Queues
<1>2. SendSplits(rd, cur, wt, r, k, w)
  BY SendPend
<1>3. /\ t \in BegunTask /\ Range(cur) = {t} /\ c \in Conns /\ t \in P
      /\ \/ r = rd
         \/ /\ Range(r) = Range(rd) \cup S /\ r = rd \o Sent(t)
            /\ w = wt /\ wt[c] = <<>> /\ Range(k) = {}
      /\ \/ Range(k) = {}
         \/ Range(k) = S /\ r = rd /\ w = wt /\ wt[c] = <<>>
      /\ \A x \in Conns : x # c => w[x] = wt[x]
      /\ \/ w = wt /\ wt[c] = <<>>
         \/ /\ w[c] = wt[c] \o Sent(t) /\ r = rd /\ Range(k) = {}
            /\ Range(w[c]) = Range(wt[c]) \cup S
      /\ \A u \in R : u \in P \/ u \in S
  BY <1>2 DEF SendSplits
<1>4. /\ InLine(con, P) /\ Nested(P) /\ WaitsBehind(con, wt)
      /\ Apart(wt, Range(rd) \cup {t}) /\ OldestRuns(rd, cur)
  BY <1>3 DEF Structure
<1>5. \A u \in S : /\ u = [t EXCEPT !.todo = Tail(t.todo)]
                   /\ Tail(t.todo) # <<>>
                   /\ u \in BegunTask /\ u.begun /\ u.kind = t.kind
                   /\ u.ep = t.ep /\ Way(t) = {Head(t.todo)} \cup Way(u)
  BY <1>3, SentIs
<1>6. /\ \A u \in P : u.begun => u \in BegunTask
      /\ Range(rd) \subseteq P /\ \A x \in Conns : Range(wt[x]) \subseteq P
  BY PendOf
<1>7. Range(wt[c]) = {} \/ wt[c] # <<>>
  BY ShortRanges
<1>8. Len(con) \in Nat
  OBVIOUS
<1>9. t.begun
  BY <1>3 DEF BegunTask
<1> HIDE DEF S, P, R
<1>10. \A u \in S : Walks(u) => Walks(t)
  BY <1>5, <1>9 DEF Walks
<1>11. CASE ~Walks(t)
  <2>1. \A u \in S : ~Walks(u)
    BY <1>10, <1>11
  <2>2. InLine(con, R)
    BY <1>3, <1>4, <2>1 DEF InLine
  <2>3. Nested(R)
    BY <1>3, <1>4, <2>1 DEF Nested, Rivals
  <2>4. \A x \in Conns : \A u \in Range(w[x]) :
          Walks(u) => u \in Range(wt[x])
    BY <1>3, <2>1
  <2>5. WaitsBehind(con, w)
    BY <1>4, <2>4 DEF WaitsBehind
  <2>6. \A u \in Range(r) \cup Range(k) : Walks(u) => u \in Range(rd)
    BY <1>3, <2>1
  <2>7. Apart(w, Range(r) \cup Range(k))
    BY <1>4, <2>4, <2>6 DEF Apart, Rivals
  <2>8. OldestRuns(r, k)
    BY <1>3, <2>1 DEF OldestRuns, Rivals
  <2> QED
    BY <2>2, <2>3, <2>5, <2>7, <2>8 DEF Structure, R
<1>12. CASE Walks(t)
  <2>1. PICK i \in 1 .. Len(con) : AlongAt(con, t, i)
    BY <1>3, <1>4, <1>12 DEF InLine, Along
  <2>2. ASSUME NEW u \in S
        PROVE  /\ i + 1 \in 1 .. Len(con) /\ AlongAt(con, u, i + 1)
               /\ Head(u.todo) = <<con[i + 1], t.ep>>
               /\ Head(t.todo) \notin Way(u)
    BY <1>1, <2>1, SentAlong DEF S
  <2>3. Head(t.todo) = <<con[i], t.ep>> /\ c = con[i] /\ i \in Int
    <3>1. Head(t.todo) = <<con[i], t.ep>>
      BY <1>3, <2>1, WayIs
    <3> QED
      BY <3>1
  <2> HIDE DEF c
  <2>4. \A x \in Conns : \A u \in Range(wt[x]), v \in S :
          Rivals(u, v) /\ Head(u.todo) = Head(v.todo) => x = c
    BY <1>1, <1>4, <2>1, HeadsMeet DEF S, c
  <2>5. InLine(con, R)
    <3>1. \A u \in S : Along(con, u)
      BY <2>2 DEF Along
    <3> QED
      BY <1>3, <1>4, <3>1 DEF InLine
  <2>6. ASSUME NEW u \in P, Rivals(u, t)
        PROVE  \/ Way(t) \subseteq Way(u)
               \/ Way(u) \subseteq Way(t) /\ Head(t.todo) \notin Way(u)
    <3>1. Way(t) \subseteq Way(u) \/ Way(u) \subseteq Way(t)
      BY <1>3, <1>4, <2>6 DEF Nested
    <3>2. ASSUME Way(u) \subseteq Way(t), Head(t.todo) \in Way(u)
          PROVE  Way(t) \subseteq Way(u)
      <4>1. /\ u \in BegunTask /\ Walks(u) /\ u.ep = t.ep
        BY <1>6, <2>6 DEF Rivals, Walks
      <4>2. PICK m \in 1 .. Len(con) : AlongAt(con, u, m)
        BY <1>4, <2>6, <4>1 DEF InLine, Along
      <4>3. /\ \A n \in 1 .. Len(con) :
                 <<con[n], u.ep>> \in Way(u) <=>
                   m <= n /\ n < m + Len(u.todo)
            /\ Head(u.todo) = <<con[m], u.ep>>
        BY <4>1, <4>2, WayIs
      <4>4. /\ \A n \in 1 .. Len(con) :
                 <<con[n], t.ep>> \in Way(t) <=>
                   i <= n /\ n < i + Len(t.todo)
        BY <1>3, <2>1, WayIs
      <4>5. m <= i
        BY <2>3, <3>2, <4>1, <4>3
      <4>6. Head(u.todo) \in Way(t)
        BY <3>2, <4>1, TodoIs
      <4>7. i <= m
        BY <4>1, <4>3, <4>4, <4>6
      <4>8. i = m
        BY <2>3, <4>5, <4>7
      <4>9. Head(u.todo) = Head(t.todo)
        BY <2>3, <4>1, <4>3, <4>8
      <4>10. u \notin UNION {Range(wt[x]) : x \in Conns}
        BY <1>4, <2>6, <4>9 DEF Apart
      <4>11. u \in Range(rd) \/ u = t
        BY <1>3, <2>6, <4>10 DEF P, Pend
      <4> QED
        BY <1>3, <1>4, <2>6, <4>11 DEF OldestRuns
    <3> QED
      BY <3>1, <3>2
  <2>7. ASSUME NEW u \in P, NEW s \in S, Rivals(u, s)
        PROVE  Way(s) \subseteq Way(u) \/ Way(u) \subseteq Way(s)
    <3>1. Rivals(u, t)
      BY <1>5, <1>12, <2>7 DEF Rivals
    <3> QED
      BY <1>5, <2>6, <2>7, <3>1
  <2>8. Nested(R)
    <3>1. \A u, v \in S : u = v
      BY <1>5
    <3>2. \A u, v : Rivals(u, v) => Rivals(v, u)
      BY DEF Rivals
    <3> SUFFICES ASSUME NEW u \in R, NEW v \in R, Rivals(u, v)
                 PROVE  Way(u) \subseteq Way(v) \/ Way(v) \subseteq Way(u)
      BY DEF Nested
    <3>3. CASE u \in P /\ v \in P
      BY <1>4, <3>3 DEF Nested
    <3>4. CASE u \in P /\ v \in S
      BY <2>7, <3>4
    <3>5. CASE u \in S /\ v \in P
      BY <2>7, <3>2, <3>5
    <3>6. CASE u \in S /\ v \in S
      BY <3>1, <3>6
    <3> QED
      BY <1>3, <3>3, <3>4, <3>5, <3>6
  <2>9. WaitsBehind(con, w)
    <3>1. ASSUME NEW u \in S
          PROVE  \E n \in 1 .. Len(con) - 1 :
                   con[n] = c /\ Head(u.todo) = <<con[n + 1], u.ep>>
      <4>1. i \in 1 .. Len(con) - 1
        BY <1>8, <2>2
      <4> QED
        BY <1>5, <2>2, <2>3, <4>1
    <3>2. \A x \in Conns : \A u \in Range(w[x]) :
            u \in Range(wt[x]) \/ (u \in S /\ x = c)
      BY <1>3
    <3> QED
      BY <1>4, <3>1, <3>2 DEF WaitsBehind
  <2>10. Apart(w, Range(r) \cup Range(k))
    <3> SUFFICES ASSUME NEW x \in Conns, NEW u \in Range(w[x]),
                        NEW v \in Range(r) \cup Range(k), Rivals(u, v),
                        Head(u.todo) = Head(v.todo)
                 PROVE  FALSE
      BY DEF Apart
    <3>1. CASE u \in Range(wt[x]) /\ v \in Range(rd)
      BY <1>4, <3>1 DEF Apart
    <3>2. CASE u \in Range(wt[x]) /\ v \in S /\ wt[c] = <<>>
      <4>1. x = c
        BY <2>4, <3>2
      <4> QED
        BY <3>2, <4>1, ShortRanges
    <3>3. CASE u \in S /\ v \in Range(rd)
      <4>1. Walks(v) /\ v.ep = t.ep /\ v \in P /\ Rivals(v, t)
        BY <1>5, <1>6, <1>12, <3>3 DEF Rivals
      <4>2. Way(t) \subseteq Way(v)
        BY <1>3, <1>4, <3>3, <4>1 DEF OldestRuns
      <4>3. v \in BegunTask
        BY <1>6, <4>1 DEF Walks
      <4>4. PICK m \in 1 .. Len(con) : AlongAt(con, v, m)
        BY <1>4, <4>1 DEF InLine, Along
      <4>5. /\ \A n \in 1 .. Len(con) :
                 <<con[n], v.ep>> \in Way(v) <=>
                   m <= n /\ n < m + Len(v.todo)
            /\ Head(v.todo) = <<con[m], v.ep>>
        BY <4>3, <4>4, WayIs
      <4>6. Head(t.todo) \in Way(v)
        BY <1>3, <4>2, TodoIs
      <4>7. m <= i
        BY <2>3, <4>1, <4>5, <4>6
      <4>8. con[m] = con[i + 1] /\ i + 1 \in 1 .. Len(con)
        BY <2>2, <3>3, <4>5
      <4>9. m = i + 1
        BY <4>8 DEF Distinct
      <4> QED
        BY <2>3, <4>7, <4>9
    <3>4. \/ u \in Range(wt[x]) /\ v \in Range(rd)
          \/ u \in Range(wt[x]) /\ v \in S /\ wt[c] = <<>>
          \/ u \in S /\ v \in Range(rd)
      BY <1>3
    <3> QED
      BY <3>1, <3>2, <3>3, <3>4
  <2>11. OldestRuns(r, k)
    <3> SUFFICES ASSUME NEW v \in Range(k), NEW u \in Range(r), Rivals(u, v)
                 PROVE  Way(v) \subseteq Way(u)
      BY DEF OldestRuns
    <3>1. v \in S /\ u \in Range(rd)
      BY <1>3
    <3>2. Rivals(u, t) /\ Way(v) \subseteq Way(t)
      BY <1>5, <1>12, <3>1 DEF Rivals
    <3> QED
      BY <1>3, <1>4, <3>1, <3>2 DEF OldestRuns
  <2> QED
    BY <2>5, <2>8, <2>9, <2>10, <2>11 DEF Structure, R
<1> QED
  BY <1>11, <1>12

(* A send leaves every outdated task a successor: a task whose only        *)
(* successor with more to do was the sender now has it right behind, in    *)
(* the same drain, or it still has more to do.                             *)
LEMMA SendFresh ==
  ASSUME NEW rd, NEW cur, NEW wt, Queues(rd, cur, wt), cur # <<>>,
         NEW con \in Seq(Conns), Distinct(con), NEW st,
         NEW r, NEW k, NEW w, Sends(rd, cur, wt, r, k, w),
         Structure(con, rd, cur, wt), Fresh(st, rd, cur, wt)
  PROVE  Fresh(st, r, k, w)
<1> DEFINE t == Head(cur)
           c == Head(t.todo)[1]
           S == Range(Sent(t))
           P == Pend(rd, cur, wt)
           R == Pend(r, k, w)
<1>1. SendSplits(rd, cur, wt, r, k, w)
  BY SendPend
<1>2. /\ t \in BegunTask /\ Range(cur) = {t} /\ c \in Conns /\ t \in P
      /\ \/ r = rd
         \/ /\ Range(r) = Range(rd) \cup S /\ r = rd \o Sent(t)
            /\ w = wt /\ wt[c] = <<>> /\ Range(k) = {}
      /\ \/ Range(k) = {}
         \/ Range(k) = S /\ r = rd /\ w = wt /\ wt[c] = <<>>
      /\ \A x \in Conns : x # c => w[x] = wt[x]
      /\ \/ w = wt /\ wt[c] = <<>>
         \/ /\ w[c] = wt[c] \o Sent(t) /\ r = rd /\ Range(k) = {}
            /\ Range(w[c]) = Range(wt[c]) \cup S
      /\ \A u \in P : u \in R \/ u = t
      /\ S \subseteq R
  BY <1>1 DEF SendSplits
<1>3. /\ InLine(con, P) /\ Nested(P) /\ WaitsBehind(con, wt)
      /\ Apart(wt, Range(rd) \cup {t}) /\ OldestRuns(rd, cur)
  BY <1>2 DEF Structure
<1>4. /\ Ordered(st, P, rd) /\ \A x \in Conns : Ordered(st, P, wt[x])
      /\ Heeded(st, P, rd, cur)
  BY DEF Fresh
<1>5. \A u \in S : /\ u \in BegunTask /\ u.begun /\ u.kind = t.kind
                   /\ u.ep = t.ep /\ u.state = t.state
                   /\ Way(t) = {Head(t.todo)} \cup Way(u)
  BY <1>2, SentIs
<1>6. /\ \A u \in P : u.begun => u \in BegunTask
      /\ Range(rd) \subseteq P /\ \A x \in Conns : Range(wt[x]) \subseteq P
  BY PendOf
<1>7. /\ rd \in Seq(SoundTask) /\ Sent(t) \in Seq(SoundTask)
      /\ Sent(t) \in Seq(BegunTask)
      /\ \A x \in Conns : wt[x] \in Seq(SoundTask)
  <2>1. \A x \in Conns : wt[x] \in Seq(BegunTask)
    BY DEF Queues
  <2>2. Sent(t) \in Seq(BegunTask)
    BY <1>2, RestSound
  <2> QED
    BY <2>1, <2>2, BegunAreSound DEF Queues
<1>8. /\ \A n \in 1 .. Len(rd) : rd[n] \in Range(rd)
      /\ \A n \in 1 .. Len(Sent(t)) : Sent(t)[n] \in S
      /\ \A x \in Conns : \A n \in 1 .. Len(wt[x]) : wt[x][n] \in Range(wt[x])
  BY <1>7, RangeOf
<1>9. \A x \in Conns : wt[x] = <<>> => Range(wt[x]) = {}
  BY ShortRanges
<1>10. t.begun
  BY <1>2 DEF BegunTask
<1>11. \A u \in S : Right(st, u) <=> Right(st, t)
  BY <1>5 DEF Right
<1>12. \A u \in S : Wrong(st, u) <=> Wrong(st, t)
  BY <1>5 DEF Wrong
<1> HIDE DEF t, c, S, P, R
<1>13. ASSUME NEW v \in Range(rd), Wrong(st, v), Bettered(st, P, v)
       PROVE  Bettered(st, R, v)
  <2>1. PICK b \in P : /\ v.begun /\ Right(st, b) /\ b.ep = v.ep
                       /\ b.begun => Way(v) \subseteq Way(b)
                                     /\ Way(v) # Way(b)
    BY <1>13 DEF Bettered
  <2>2. b # t
    <3> SUFFICES ASSUME b = t PROVE FALSE
      OBVIOUS
    <3>1. Rivals(v, t)
      BY <1>10, <1>13, <2>1 DEF Rivals, Walks, Wrong, Right
    <3>2. Way(t) \subseteq Way(v)
      BY <1>2, <1>3, <1>13, <3>1 DEF OldestRuns, Rivals
    <3> QED
      BY <1>10, <2>1, <3>2
  <2> QED
    BY <1>2, <2>1, <2>2 DEF Bettered
<1>14. ASSUME NEW x \in Conns, NEW v \in Range(wt[x]), Wrong(st, v),
              Bettered(st, P, v)
       PROVE  \/ Bettered(st, R, v)
              \/ x = c /\ \E u \in S : Right(st, u) /\ Same(u, v)
  <2>1. PICK b \in P : /\ v.begun /\ Right(st, b) /\ b.ep = v.ep
                       /\ b.begun => Way(v) \subseteq Way(b)
                                     /\ Way(v) # Way(b)
    BY <1>14 DEF Bettered
  <2>2. CASE b # t
    BY <1>2, <2>1, <2>2 DEF Bettered
  <2>3. CASE b = t
    <3>1. Rivals(v, t) /\ Walks(v) /\ Walks(t) /\ v.ep = t.ep
      BY <1>10, <1>14, <2>1, <2>3 DEF Rivals, Walks, Wrong, Right
    <3>2. v \in P /\ v \in BegunTask
      BY <1>6, <1>14, <2>1
    <3>3. PICK i \in 1 .. Len(con) : AlongAt(con, t, i)
      BY <1>2, <1>3, <3>1 DEF InLine, Along
    <3>4. PICK m \in 1 .. Len(con) : AlongAt(con, v, m)
      BY <1>3, <3>1, <3>2 DEF InLine, Along
    <3>5. Head(v.todo) # Head(t.todo)
      BY <1>3, <1>14, <3>1 DEF Apart
    <3>6. Way(v) \subseteq Way(t) /\ Way(v) # Way(t)
      BY <1>10, <2>1, <2>3
    <3>7. Head(t.todo) \notin Way(v)
      BY <1>2, <3>1, <3>2, <3>3, <3>4, <3>5, <3>6, HeadApart
    <3>8. Head(v.todo) \in Way(v)
      BY <3>2, TodoIs
    <3>9. PICK u \in S : Head(v.todo) \in Way(u)
      BY <1>2, <3>6, <3>7, <3>8, SentWay DEF S
    <3>10. Way(v) \subseteq Way(u) /\ u.ep = v.ep /\ u.begun /\ u \in R
      BY <1>2, <1>5, <3>1, <3>6, <3>7
    <3>11. Right(st, u)
      BY <1>11, <2>1, <2>3
    <3>12. CASE Way(v) # Way(u)
      BY <2>1, <3>10, <3>11, <3>12 DEF Bettered
    <3>13. CASE Way(v) = Way(u)
      <4>1. i + 1 \in 1 .. Len(con) /\ AlongAt(con, u, i + 1)
        BY <1>2, <3>3, SentAlong DEF S
      <4>2. v.todo = u.todo
        BY <1>5, <3>2, <3>4, <3>10, <3>13, <4>1, WaysAre
      <4>3. Same(u, v)
        BY <2>1, <3>10, <4>2 DEF Same
      <4>4. Rivals(v, u)
        BY <1>5, <3>1, <3>10 DEF Rivals, Walks
      <4>5. x = c
        BY <1>2, <1>3, <1>14, <3>3, <4>2, <4>4, HeadsMeet DEF S, c
      <4> QED
        BY <3>11, <4>3, <4>5
    <3> QED
      BY <3>12, <3>13
  <2> QED
    BY <2>2, <2>3
<1>15. ASSUME NEW u \in S, Wrong(st, u)
       PROVE  Bettered(st, R, u)
  <2>1. Wrong(st, t)
    BY <1>12, <1>15
  <2>2. \A b : Right(st, b) => b # t
    BY <2>1 DEF Right, Wrong
  <2>3. t.kind = "epStat" /\ Walks(t)
    BY <1>10, <2>1 DEF Wrong, Walks
  <2>4. PICK i \in 1 .. Len(con) : AlongAt(con, t, i)
    BY <1>2, <1>3, <2>3 DEF InLine, Along
  <2>5. Head(t.todo) \notin Way(u)
    BY <1>2, <1>15, <2>4, SentAlong DEF S
  <2>6. Way(t) = {Head(t.todo)} \cup Way(u) /\ u.begun /\ u.ep = t.ep
    BY <1>5, <1>15
  <2>7. CASE Bettered(st, P, t)
    <3>1. PICK b \in P : /\ Right(st, b) /\ b.ep = t.ep
                         /\ b.begun => Way(t) \subseteq Way(b)
                                       /\ Way(t) # Way(b)
      BY <2>7 DEF Bettered
    <3>2. b \in R
      BY <1>2, <2>2, <3>1
    <3>3. b.begun => Way(u) \subseteq Way(b) /\ Way(u) # Way(b)
      BY <2>6, <3>1
    <3> QED
      BY <2>6, <3>1, <3>2, <3>3 DEF Bettered
  <2>8. ASSUME NEW b \in Range(rd), Right(st, b), Same(b, t)
        PROVE  Bettered(st, R, u)
    <3>1. b \in R
      BY <1>2, <1>6, <2>2, <2>8
    <3>2. b.ep = t.ep /\ Way(b) = Way(t)
      BY <2>8 DEF Same, Way
    <3>3. Way(u) \subseteq Way(b) /\ Way(u) # Way(b)
      BY <2>5, <2>6, <3>2
    <3> QED
      BY <2>6, <2>8, <3>1, <3>2, <3>3 DEF Bettered
  <2> QED
    BY <1>2, <1>4, <2>1, <2>7, <2>8 DEF Heeded
<1>16. Ordered(st, R, rd)
  BY <1>4, <1>8, <1>13, OrderedStays
<1>17. Ordered(st, R, Sent(t))
  BY <1>8, <1>15 DEF Ordered
<1>18. Ordered(st, R, r)
  <2>1. Ordered(st, R, rd \o Sent(t))
    BY <1>7, <1>16, <1>17, OrderedConcat
  <2> QED
    BY <1>2, <1>16, <2>1
<1>19. ASSUME NEW x \in Conns
       PROVE  Ordered(st, R, w[x])
  <2>1. CASE x # c \/ (wt[c] = <<>> /\ w = wt)
    <3>1. w[x] = wt[x]
      BY <1>2, <2>1
    <3>2. \A n \in 1 .. Len(wt[x]) :
            Wrong(st, wt[x][n]) /\ Bettered(st, P, wt[x][n]) =>
              Bettered(st, R, wt[x][n])
      BY <1>8, <1>9, <1>14, <2>1
    <3> QED
      BY <1>4, <3>1, <3>2, OrderedStays
  <2>2. CASE x = c /\ w[c] = wt[c] \o Sent(t)
    <3>1. \A n \in 1 .. Len(wt[x]) : Wrong(st, wt[x][n]) =>
            \/ Bettered(st, R, wt[x][n]) \/ Followed(st, wt[x], n)
            \/ \E u \in S : Right(st, u) /\ Same(u, wt[x][n])
      BY <1>4, <1>8, <1>14 DEF Ordered
    <3>2. wt[x] \in Seq(SoundTask) /\ Sent(t) \in Seq(SoundTask)
      BY <1>7
    <3>3. Ordered(st, R, wt[x] \o Sent(t))
      BY <1>17, <3>1, <3>2, OrderedJoin DEF S
    <3> QED
      BY <2>2, <3>3
  <2>3. (w = wt /\ wt[c] = <<>>) \/ w[c] = wt[c] \o Sent(t)
    BY <1>2
  <2> QED
    BY <2>1, <2>2, <2>3
<1>20. Heeded(st, R, r, k)
  BY <1>2, <1>15 DEF Heeded
<1> QED
  BY <1>18, <1>19, <1>20 DEF Fresh, R

-----------------------------------------------------------------------------
(***************************************************************************)
(* What each action keeps                                                  *)
(***************************************************************************)

(* More tasks tell no less.                                                *)
LEMMA WillMore ==
  ASSUME NEW st, NEW P, NEW R, P \subseteq R, NEW c, NEW e, Will(st, P, c, e)
  PROVE  Will(st, R, c, e)
  BY DEF Will

(* con lists a connection last; its burst is still to come.                *)
LEMMA ConKeeps ==
  ASSUME TypeInv, Now, NEW c \in Conns, Con(c)
  PROVE  Now'
<1>1. /\ connected \in Seq(Conns) /\ Queues(ready, current, waiting)
      /\ handler \in [Conns -> {"open", "answering", "gone"}]
  BY StateIs
<1>2. /\ handler' = [handler EXCEPT ![c] = "answering"]
      /\ connected' = Append(connected, c)
      /\ closing' = closing /\ state' = state /\ told' = told
      /\ ready' = ready /\ current' = current /\ waiting' = waiting
  BY DEF Con, taskVars, sensorVars
<1>3. /\ Structure(connected, ready, current, waiting)
      /\ Fresh(state, ready, current, waiting)
      /\ Unseen(state, told, Pend(ready, current, waiting))
      /\ Telling(Range(connected) \ closing, handler, state, told,
                 Pend(ready, current, waiting))
  BY DEF Now, Orderly
<1>4. Structure(connected', ready, current, waiting)
  BY <1>1, <1>2, <1>3, ConStructure
<1>5. Range(connected') = Range(connected) \cup {c}
  BY <1>1, <1>2, AppendRange
<1>6. /\ \A x \in Conns : x # c => handler'[x] = handler[x]
      /\ handler'[c] = "answering"
  BY <1>1, <1>2
<1>7. Range(connected) \subseteq Conns
  BY StateIs
<1>8. Telling(Range(connected') \ closing, handler', state, told,
              Pend(ready, current, waiting))
  BY <1>3, <1>5, <1>6, <1>7 DEF Telling
<1> QED
  BY <1>2, <1>3, <1>4, <1>8 DEF Now, Orderly

(* A task is created that is no epStat.                                    *)
LEMMA SpawnKeeps ==
  ASSUME TypeInv, Now, NEW t \in SoundTask, ~t.begun, t.kind # "epStat",
         Spawn(t), connected' = connected, closing' = closing,
         state' = state, told' = told, waiting' = waiting,
         \A x \in Conns : handler[x] = "answering" =>
           handler'[x] = "answering" \/ (t.kind = "burst" /\ t.conn = x)
  PROVE  Now'
<1> DEFINE P == Pend(ready, current, waiting)
           R == Pend(ready', current', waiting')
<1>1. Queues(ready, current, waiting) /\ Range(connected) \subseteq Conns
  BY StateIs
<1>2. ready' = Append(ready, t) /\ current' = current
  BY DEF Spawn
<1>3. /\ Structure(connected, ready, current, waiting)
      /\ Fresh(state, ready, current, waiting)
      /\ Unseen(state, told, P)
      /\ Telling(Range(connected) \ closing, handler, state, told, P)
  BY DEF Now, Orderly
<1>4. R = P \cup {t}
  BY <1>1, <1>2, SpawnPend
<1>5. Structure(connected, ready', current', waiting')
  BY <1>1, <1>2, <1>3, SpawnStructure
<1>6. Fresh(state, ready', current', waiting')
  BY <1>1, <1>2, <1>3, SpawnFresh
<1> HIDE DEF P, R
<1>7. Unseen(state, told, R)
  BY <1>3, <1>4 DEF Unseen
<1>8. \A x \in Conns, e \in Eps : Will(state, P, x, e) => Will(state, R, x, e)
  BY <1>4, WillMore
<1>9. \A x \in Conns, e \in Eps :
        t.kind = "burst" /\ t.conn = x => Will(state, R, x, e)
  BY <1>4 DEF Will, Covers
<1>10. Telling(Range(connected) \ closing, handler', state, told, R)
  BY <1>1, <1>3, <1>8, <1>9 DEF Telling
<1> QED
  BY <1>5, <1>6, <1>7, <1>10 DEF Now, Orderly, R

(* The answer to con creates the burst.                                    *)
LEMMA AnsweredKeeps ==
  ASSUME TypeInv, Now, NEW c \in Conns, Answered(c)
  PROVE  Now'
<1> DEFINE t == [NewTask EXCEPT !.conn = c]
<1>1. t \in SoundTask /\ ~t.begun /\ t.kind = "burst" /\ t.conn = c
  BY NewTasksSound
<1> HIDE DEF t
<1>2. /\ handler' = [handler EXCEPT ![c] = "open"] /\ Spawn(t)
      /\ connected' = connected /\ closing' = closing
      /\ state' = state /\ told' = told /\ waiting' = waiting
  BY DEF Answered, t, sensorVars
<1>3. handler \in [Conns -> {"open", "answering", "gone"}]
  BY StateIs
<1>4. \A x \in Conns : handler[x] = "answering" =>
        handler'[x] = "answering" \/ (t.kind = "burst" /\ t.conn = x)
  BY <1>1, <1>2, <1>3
<1> QED
  BY <1>1, <1>2, <1>4, SpawnKeeps

(* An uplink creates a task that tells nothing of states.                  *)
LEMMA PublishKeeps ==
  ASSUME TypeInv, Now, NEW e \in Eps, Publish(e)
  PROVE  Now'
<1>1. uplinks' \in 1 .. MaxUplinks
  <2>1. uplinks \in 0 .. MaxUplinks /\ MaxUplinks \in Nat
    BY SessionAssumption DEF TypeInv, TypeOK
  <2>2. uplinks < MaxUplinks /\ uplinks' = uplinks + 1
    BY DEF Publish
  <2> QED
    BY <2>1, <2>2
<1>2. PICK n \in 1 .. MaxUplinks : n = uplinks'
  BY <1>1
<1> DEFINE t == [NewTask EXCEPT !.kind = "ulData", !.ep = e, !.uplink = n]
<1>3. t \in SoundTask /\ ~t.begun /\ t.kind = "ulData"
  <2>1. t \in SoundTask
    BY NewTasksSound
  <2>2. ~t.begun /\ t.kind = "ulData"
    BY DEF NewTask
  <2> QED
    BY <2>1, <2>2
<1>4. Spawn(t)
  BY <1>2 DEF Publish
<1> HIDE DEF t
<1>5. /\ handler' = handler /\ connected' = connected
      /\ closing' = closing /\ state' = state /\ told' = told
      /\ waiting' = waiting
  BY DEF Publish, connVars
<1> QED
  BY <1>3, <1>4, <1>5, SpawnKeeps

(* reg and dereg touch nothing the invariant is about.                     *)
LEMMA RegistrationKeeps ==
  ASSUME Now, handler' = handler, connected' = connected, closing' = closing,
         state' = state, told' = told, ready' = ready, current' = current,
         waiting' = waiting
  PROVE  Now'
  BY DEF Now

(* A connection that is closing is owed nothing.                           *)
LEMMA ForgetKeeps ==
  ASSUME TypeInv, NEW c \in Conns, Forget(c),
         NEW P, Unseen(state, told, P), NEW S, S \subseteq Conns,
         Telling(S \ closing, handler, state, told, P), NEW hd,
         \A x \in Conns : x # c => hd[x] = handler[x]
  PROVE  /\ Unseen(state, told', P)
         /\ Telling(S \ closing', hd, state, told', P)
<1>1. /\ closing' = closing \cup {c}
      /\ told' = [told EXCEPT ![c] = [e \in Eps |-> None]]
  BY DEF Forget
<1>2. told \in [Conns -> [Eps -> States \cup {None}]]
  BY StateIs
<1>3. /\ \A x \in Conns : x # c => told'[x] = told[x]
      /\ \A e \in Eps : told'[c][e] = None
  BY <1>1, <1>2
<1>4. Unseen(state, told', P)
  BY <1>3 DEF Unseen
<1>5. Telling(S \ closing', hd, state, told', P)
  BY <1>1, <1>3 DEF Telling
<1> QED
  BY <1>4, <1>5

(* A connection is closed.                                                 *)
LEMMA ClosesKeeps ==
  ASSUME TypeInv, Now, NEW c \in Conns, Closes(c)
  PROVE  Now'
<1>1. /\ Forget(c) /\ connected' = connected /\ handler' = handler
      /\ state' = state /\ ready' = ready /\ current' = current
      /\ waiting' = waiting
  BY DEF Closes, connVars, taskVars, sensorVars
<1>2. /\ Structure(connected, ready, current, waiting)
      /\ Fresh(state, ready, current, waiting)
      /\ Unseen(state, told, Pend(ready, current, waiting))
      /\ Telling(Range(connected) \ closing, handler, state, told,
                 Pend(ready, current, waiting))
  BY DEF Now, Orderly
<1>3. Range(connected) \subseteq Conns
  BY StateIs
<1>4. /\ Unseen(state, told', Pend(ready, current, waiting))
      /\ Telling(Range(connected) \ closing', handler, state, told',
                 Pend(ready, current, waiting))
  BY <1>1, <1>2, <1>3, ForgetKeeps
<1> QED
  BY <1>1, <1>2, <1>4 DEF Now, Orderly

(* A handler forgets a connection nobody has to visit any more.            *)
LEMMA CleanupKeeps ==
  ASSUME TypeInv, Now, NEW c \in Conns, Cleanup(c), ~overtaken'
  PROVE  Now'
<1> DEFINE P == Pend(ready, current, waiting)
<1>1. /\ handler' = [handler EXCEPT ![c] = "gone"]
      /\ connected' = IF c \in Range(connected)
                      THEN RemoveAt(connected, Place(c)) ELSE connected
      /\ Forget(c)
      /\ overtaken' = (overtaken \/ \E t \in Unfinished :
                         /\ t.kind = "epStat"
                         /\ \/ t \in Range(waiting[c])
                            \/ <<c, t.ep>> \in Range(t.todo))
      /\ state' = state /\ ready' = ready /\ current' = current
      /\ waiting' = waiting
  BY DEF Cleanup, taskVars, sensorVars
<1>2. /\ Structure(connected, ready, current, waiting)
      /\ Fresh(state, ready, current, waiting)
      /\ Unseen(state, told, P)
      /\ Telling(Range(connected) \ closing, handler, state, told, P)
  BY DEF Now, Orderly
<1>3. /\ connected \in Seq(Conns) /\ Range(connected) \subseteq Conns
      /\ Distinct(connected) /\ Queues(ready, current, waiting)
      /\ handler \in [Conns -> {"open", "answering", "gone"}]
  BY StateIs
<1>4. Unfinished = P
  BY UnfinishedIs
<1>5. Range(waiting[c]) \subseteq P
  BY <1>3, PendOf
<1> HIDE DEF P
<1>6. \A t \in P : t.kind = "epStat" =>
        t \notin Range(waiting[c]) /\ <<c, t.ep>> \notin Way(t)
  BY <1>1, <1>4 DEF Way
<1>7. Structure(connected', ready, current, waiting)
  <2>1. CASE c \in Range(connected)
    <3> DEFINE p == Place(c)
    <3>1. p \in 1 .. Len(connected) /\ connected[p] = c
      BY <1>3, <2>1, ConnectedIs DEF TypeInv
    <3> HIDE DEF p
    <3>2. /\ \A t \in Range(waiting[connected[p]]) : t.kind # "epStat"
          /\ \A t \in Pend(ready, current, waiting) :
               t.kind = "epStat" => <<connected[p], t.ep>> \notin Way(t)
      BY <1>5, <1>6, <3>1 DEF P
    <3>3. Structure(RemoveAt(connected, p), ready, current, waiting)
      BY <1>2, <1>3, <3>1, <3>2, CleanupStructure
    <3> QED
      BY <1>1, <2>1, <3>3 DEF p
  <2> QED
    BY <1>1, <1>2, <2>1
<1>8. Range(connected') \subseteq Range(connected)
  <2>1. CASE c \in Range(connected)
    <3> DEFINE p == Place(c)
               s == RemoveAt(connected, p)
    <3>1. p \in 1 .. Len(connected)
      BY <1>3, <2>1, ConnectedIs DEF TypeInv
    <3> HIDE DEF p
    <3>2. /\ s \in Seq(Conns) /\ Len(s) = Len(connected) - 1
          /\ \A n \in 1 .. Len(connected) - 1 :
               s[n] = IF n < p THEN connected[n] ELSE connected[n + 1]
      BY <1>3, <3>1, RemoveIs
    <3> HIDE DEF s
    <3>3. /\ Len(connected) \in Nat
          /\ \A n \in 1 .. Len(connected) : connected[n] \in Range(connected)
          /\ \A x \in Range(s) : \E n \in 1 .. Len(s) : s[n] = x
      BY <1>3, <3>2, RangeOf
    <3>4. \A n \in 1 .. Len(s) : s[n] \in Range(connected)
      BY <3>2, <3>3
    <3>5. connected' = s
      BY <1>1, <2>1 DEF s, p
    <3> QED
      BY <3>3, <3>4, <3>5
  <2> QED
    BY <1>1, <2>1
<1>9. \A x \in Conns : x # c => handler'[x] = handler[x]
  BY <1>1, <1>3
<1>10. /\ Unseen(state, told', P)
       /\ Telling(Range(connected) \ closing', handler', state, told', P)
  BY <1>1, <1>2, <1>3, <1>9, ForgetKeeps
<1>11. Telling(Range(connected') \ closing', handler', state, told', P)
  BY <1>8, <1>10 DEF Telling
<1> QED
  BY <1>1, <1>2, <1>7, <1>10, <1>11 DEF Now, Orderly, P

(* Writing resumes on a connection.                                        *)
LEMMA ResumesKeeps ==
  ASSUME TypeInv, Now, NEW c \in Conns, Resumes(c)
  PROVE  Now'
<1>1. /\ current = <<>> /\ ready' = ready \o waiting[c]
      /\ waiting' = [waiting EXCEPT ![c] = <<>>]
      /\ connected' = connected /\ handler' = handler
      /\ closing' = closing /\ current' = current /\ state' = state
      /\ told' = told
  BY DEF Resumes, LoopFree, connVars, sensorVars
<1>2. /\ Structure(connected, ready, <<>>, waiting)
      /\ Fresh(state, ready, <<>>, waiting)
      /\ Unseen(state, told, Pend(ready, <<>>, waiting))
      /\ Telling(Range(connected) \ closing, handler, state, told,
                 Pend(ready, <<>>, waiting))
  BY <1>1 DEF Now, Orderly
<1>3. /\ connected \in Seq(Conns) /\ Distinct(connected)
      /\ Queues(ready, <<>>, waiting)
  BY <1>1, StateIs
<1>4. /\ Structure(connected, ready', <<>>, waiting')
      /\ Fresh(state, ready', <<>>, waiting')
  BY <1>1, <1>2, <1>3, ResumeKeeps
<1>5. Pend(ready', <<>>, waiting') = Pend(ready, <<>>, waiting)
  BY <1>1, <1>3, ResumePend
<1>6. /\ Unseen(state, told, Pend(ready', <<>>, waiting'))
      /\ Telling(Range(connected) \ closing, handler, state, told,
                 Pend(ready', <<>>, waiting'))
  BY <1>2, <1>5
<1> QED
  BY <1>1, <1>4, <1>6 DEF Now, Orderly

(* The first uplink of a sensor, of which nobody is told: no epStat is     *)
(* about it.                                                               *)
LEMMA AppearKeeps ==
  ASSUME TypeInv, Now, NEW e \in Eps, Appear(e)
  PROVE  Now'
<1> DEFINE P == Pend(ready, current, waiting)
<1>1. /\ state[e] = None /\ state' = [state EXCEPT ![e] = "online"]
      /\ connected' = connected /\ handler' = handler
      /\ closing' = closing /\ told' = told
      /\ ready' = ready /\ current' = current /\ waiting' = waiting
  BY DEF Appear, connVars, taskVars
<1>2. /\ Structure(connected, ready, current, waiting)
      /\ Fresh(state, ready, current, waiting)
      /\ Unseen(state, told, P)
      /\ Telling(Range(connected) \ closing, handler, state, told, P)
  BY DEF Now, Orderly
<1>3. /\ Queues(ready, current, waiting) /\ Range(connected) \subseteq Conns
      /\ state \in [Eps -> States \cup {None}]
  BY StateIs
<1>4. /\ state'[e] = "online" /\ "online" # None
      /\ \A f \in Eps : f # e => state'[f] = state[f]
  BY <1>1, <1>3, SessionAssumption
<1>5. \A t \in P : t.kind = "epStat" => t.ep # e /\ t.ep \in Eps
  <2>1. P \subseteq SoundTask
    BY <1>3, PendOf
  <2> QED
    BY <1>1, <1>2, <2>1 DEF Unseen, SoundTask
<1>6. Fresh(state', ready, current, waiting)
  BY <1>2, <1>3, <1>4, <1>5, FreshSame
<1> HIDE DEF P
<1>7. Unseen(state', told, P)
  BY <1>2, <1>4 DEF Unseen
<1>8. \A x, f : f \in Eps /\ f # e /\ Will(state, P, x, f) =>
        Will(state', P, x, f)
  BY <1>4 DEF Will, Right
<1>9. Telling(Range(connected) \ closing, handler, state', told, P)
  <2> SUFFICES ASSUME NEW x \in Range(connected) \ closing, NEW f \in Eps,
                      told[x][f] # state'[f]
               PROVE  \/ told[x][f] = None /\ state'[f] = "online"
                      \/ handler[x] = "answering"
                      \/ Will(state', P, x, f)
    BY DEF Telling
  <2>1. CASE f = e
    BY <1>1, <1>2, <1>3, <1>4, <2>1 DEF Unseen
  <2>2. CASE f # e
    BY <1>2, <1>4, <1>8, <2>2 DEF Telling
  <2> QED
    BY <2>1, <2>2
<1> QED
  BY <1>1, <1>2, <1>6, <1>7, <1>9 DEF Now, Orderly, P

(* A change of state creates the epStat that tells it.                     *)
LEMMA ChangeKeeps ==
  ASSUME TypeInv, Now, NEW e \in Eps, Change(e)
  PROVE  Now'
<1> DEFINE P == Pend(ready, current, waiting)
           R == Pend(ready', current', waiting')
<1>1. PICK s \in States \ {state[e]} :
        /\ state' = [state EXCEPT ![e] = s]
        /\ Spawn([NewTask EXCEPT !.kind = "epStat", !.ep = e, !.state = s])
  BY DEF Change
<1> DEFINE t == [NewTask EXCEPT !.kind = "epStat", !.ep = e, !.state = s]
<1>2. /\ t \in SoundTask /\ t.kind = "epStat" /\ t.ep = e
      /\ t.state = s /\ ~t.begun
  <2>1. t \in SoundTask
    BY NewTasksSound
  <2>2. t.kind = "epStat" /\ t.ep = e /\ t.state = s /\ ~t.begun
    BY DEF NewTask
  <2> QED
    BY <2>1, <2>2
<1>3. ready' = Append(ready, t) /\ current' = current
  BY <1>1 DEF Spawn
<1> HIDE DEF t
<1>4. /\ state[e] # None
      /\ connected' = connected /\ handler' = handler
      /\ closing' = closing /\ told' = told /\ waiting' = waiting
  BY DEF Change, connVars
<1>5. /\ Structure(connected, ready, current, waiting)
      /\ Fresh(state, ready, current, waiting)
      /\ Unseen(state, told, P)
      /\ Telling(Range(connected) \ closing, handler, state, told, P)
  BY DEF Now, Orderly
<1>6. /\ Queues(ready, current, waiting) /\ Range(connected) \subseteq Conns
      /\ state \in [Eps -> States \cup {None}]
  BY StateIs
<1>7. /\ state'[e] = s /\ s # None
      /\ \A f \in Eps : f # e => state'[f] = state[f]
  BY <1>1, <1>6, SessionAssumption DEF States
<1>8. Structure(connected, ready', current', waiting)
  BY <1>2, <1>3, <1>5, <1>6, SpawnStructure
<1>9. Fresh(state', ready', current', waiting)
  <2>1. /\ t.state = state'[t.ep]
        /\ \A f \in Eps : f # t.ep => state'[f] = state[f]
    BY <1>2, <1>7
  <2> QED
    BY <1>2, <1>3, <1>5, <1>6, <2>1, ChangeFresh
<1>10. R = P \cup {t}
  BY <1>2, <1>3, <1>4, <1>6, SpawnPend
<1> HIDE DEF P, R
<1>11. Unseen(state', told, R)
  BY <1>2, <1>5, <1>7, <1>10 DEF Unseen
<1>12. \A x, f : f \in Eps /\ f # e /\ Will(state, P, x, f) =>
         Will(state', R, x, f)
  BY <1>7, <1>10 DEF Will, Right
<1>13. \A x : Will(state', R, x, e)
  BY <1>2, <1>7, <1>10 DEF Will, Right, Covers
<1>14. Telling(Range(connected) \ closing, handler, state', told, R)
  <2> SUFFICES ASSUME NEW x \in Range(connected) \ closing, NEW f \in Eps,
                      told[x][f] # state'[f]
               PROVE  \/ told[x][f] = None /\ state'[f] = "online"
                      \/ handler[x] = "answering"
                      \/ Will(state', R, x, f)
    BY DEF Telling
  <2>1. CASE f = e
    BY <1>13, <2>1
  <2>2. CASE f # e
    BY <1>5, <1>7, <1>12, <2>2 DEF Telling
  <2> QED
    BY <2>1, <2>2
<1> QED
  BY <1>4, <1>8, <1>9, <1>11, <1>14 DEF Now, Orderly, R

(* A burst sets out to tell of every sensor seen: an injective sequence as *)
(* long as a finite set holds all of it.                                   *)
LEMMA BurstCovers ==
  ASSUME TypeInv, NEW t \in SoundTask, t.kind = "burst", NEW q \in Todo(t),
         NEW e \in Eps, state[e] # None
  PROVE  <<t.conn, e>> \in Range(q) /\ q # <<>>
<1> DEFINE S == {d \in Eps : state[d] # None}
           D == 1 .. Cardinality(S)
<1>1. PICK f \in SetToSeqs(S) : q = [n \in DOMAIN f |-> <<t.conn, f[n]>>]
  BY DEF Todo
<1>2. IsFiniteSet(S) /\ Cardinality(S) \in Nat /\ e \in S
  BY SessionAssumption, FS_Subset, FS_CardinalityType
<1>3. IsFiniteSet(D) /\ Cardinality(D) = Cardinality(S)
  <2>1. 1 \in Int /\ Cardinality(S) \in Int
    BY <1>2
  <2>2. /\ IsFiniteSet(D)
        /\ Cardinality(D) = IF 1 > Cardinality(S) THEN 0
                            ELSE Cardinality(S) - 1 + 1
    BY <2>1, FS_Interval
  <2> HIDE DEF D
  <2> QED
    BY <1>2, <2>2
<1>4. f \in [D -> S] /\ \A i, j \in D : i # j => f[i] # f[j]
  BY <1>1 DEF SetToSeqs
<1> HIDE DEF S, D
<1>5. f \in Injection(D, S)
  BY <1>4 DEF Injection, IsInjective
<1>6. f \in Surjection(D, S)
  BY <1>2, <1>3, <1>5, FS_Injection
<1>7. PICK n \in D : f[n] = e
  BY <1>2, <1>6 DEF Surjection
<1>8. DOMAIN q = D /\ q[n] = <<t.conn, e>>
  BY <1>1, <1>4, <1>7
<1>9. <<t.conn, e>> \in Range(q)
  BY <1>7, <1>8 DEF Range
<1>10. q # <<>>
  BY <1>9, ShortRanges
<1> QED
  BY <1>9, <1>10

(* A task that runs for the first time sets out to tell all it was to      *)
(* tell.                                                                   *)
LEMMA RunTelling ==
  ASSUME TypeInv, current = <<>>, ready # <<>>, ~Head(ready).begun,
         NEW q \in Todo(Head(ready)), NEW n, NEW k,
         n.kind = Head(ready).kind, n.ep = Head(ready).ep,
         n.state = Head(ready).state, n.conn = Head(ready).conn,
         n.begun, n.todo = q,
         q # <<>> => Range(k) = {n}, q = <<>> => Range(k) = {},
         Unseen(state, told, Pend(ready, <<>>, waiting)),
         Telling(Range(connected) \ closing, handler, state, told,
                 Pend(ready, <<>>, waiting))
  PROVE  /\ Unseen(state, told, Pend(Tail(ready), k, waiting))
         /\ Telling(Range(connected) \ closing, handler, state, told,
                    Pend(Tail(ready), k, waiting))
<1> DEFINE t == Head(ready)
           P == Pend(ready, <<>>, waiting)
           R == Pend(Tail(ready), k, waiting)
<1>1. Queues(ready, <<>>, waiting) /\ Range(connected) \subseteq Conns
  BY StateIs
<1>2. /\ t \in SoundTask
      /\ \A u : u \in P <=> \/ u = t \/ u \in Range(Tail(ready))
                            \/ \E x \in Conns : u \in Range(waiting[x])
  BY <1>1, RunPend
<1>3. \A u : u \in R <=> \/ u \in Range(Tail(ready)) \/ u \in Range(k)
                         \/ \E x \in Conns : u \in Range(waiting[x])
  BY DEF Pend
<1>4. \A u \in R : u \in P \/ u = n
  BY <1>2, <1>3
<1>5. \A u \in P : u \in R \/ u = t
  BY <1>2, <1>3
<1>6. q # <<>> => n \in R
  BY <1>3
<1>7. t \in P
  BY <1>2
<1> HIDE DEF P, R
<1>8. Unseen(state, told, R)
  <2> SUFFICES ASSUME NEW e \in Eps, state[e] = None
               PROVE  /\ \A c \in Conns : told[c][e] = None
                      /\ \A u \in R : u.kind = "epStat" => u.ep # e
    BY DEF Unseen
  <2>1. /\ \A c \in Conns : told[c][e] = None
        /\ \A u \in P : u.kind = "epStat" => u.ep # e
    BY DEF Unseen, P
  <2>2. n.kind = "epStat" => n.ep # e
    BY <1>7, <2>1
  <2> QED
    BY <1>4, <2>1, <2>2
<1>9. ASSUME NEW x \in Range(connected), NEW e \in Eps, told[x][e] # state[e],
             Will(state, P, x, e)
      PROVE  Will(state, R, x, e)
  <2>1. PICK u \in P : /\ Covers(u, x, e)
                       /\ \/ u.kind = "burst" /\ u.conn = x
                          \/ Right(state, u) /\ u.ep = e
    BY <1>9 DEF Will
  <2>2. CASE u # t
    BY <1>5, <2>1, <2>2 DEF Will
  <2>3. CASE t.kind = "burst" /\ t.conn = x
    <3>1. state[e] # None
      BY <1>1, <1>9 DEF Unseen
    <3>2. <<t.conn, e>> \in Range(q) /\ q # <<>>
      BY <1>2, <2>3, <3>1, BurstCovers
    <3>3. n \in R /\ <<x, e>> \in Way(n)
      BY <1>6, <2>3, <3>2 DEF Way
    <3> QED
      BY <2>3, <3>3 DEF Will, Covers
  <2>4. CASE Right(state, t) /\ t.ep = e
    <3>1. t.kind = "epStat"
      BY <2>4 DEF Right
    <3>2. q = [m \in DOMAIN connected |-> <<connected[m], t.ep>>]
      BY <3>1 DEF Todo
    <3>3. PICK m \in DOMAIN connected : connected[m] = x
      BY <1>9 DEF Range
    <3>4. <<x, e>> \in Range(q)
      BY <2>4, <3>2, <3>3 DEF Range
    <3>5. q # <<>>
      BY <3>4, ShortRanges
    <3>6. n \in R /\ <<x, e>> \in Way(n) /\ Right(state, n) /\ n.ep = e
      BY <1>6, <2>4, <3>4, <3>5 DEF Way, Right
    <3> QED
      BY <3>6 DEF Will, Covers
  <2> QED
    BY <2>1, <2>2, <2>3, <2>4
<1>10. Telling(Range(connected) \ closing, handler, state, told, R)
  BY <1>9 DEF Telling, P
<1> QED
  BY <1>8, <1>10 DEF R

(* The event loop takes the next task, and it overtakes none.              *)
LEMMA RunKeeps ==
  ASSUME TypeInv, Now, RunNext, ~overtaken'
  PROVE  Now'
<1> DEFINE t == Head(ready)
<1>1. /\ current = <<>> /\ ready # <<>> /\ ready' = Tail(ready)
      /\ IF t.begun THEN current' = <<t>>
         ELSE \E q \in Todo(t) :
                current' = Left([t EXCEPT !.begun = TRUE, !.todo = q])
      /\ overtaken' =
           (overtaken \/ \E u \in Range(ready') : Overtakes(t, u))
      /\ connected' = connected /\ handler' = handler
      /\ closing' = closing /\ state' = state /\ told' = told
      /\ waiting' = waiting
  BY DEF RunNext, LoopFree, connVars, sensorVars
<1>2. /\ Structure(connected, ready, <<>>, waiting)
      /\ Fresh(state, ready, <<>>, waiting)
      /\ Unseen(state, told, Pend(ready, <<>>, waiting))
      /\ Telling(Range(connected) \ closing, handler, state, told,
                 Pend(ready, <<>>, waiting))
  BY <1>1 DEF Now, Orderly
<1>3. /\ connected \in Seq(Conns) /\ Distinct(connected)
      /\ Queues(ready, <<>>, waiting)
  BY <1>1, StateIs
<1>4. \A u \in Range(Tail(ready)) : ~Overtakes(Head(ready), u)
  BY <1>1
<1>5. CASE t.begun
  <2>1. /\ Structure(connected, Tail(ready), <<Head(ready)>>, waiting)
        /\ Fresh(state, Tail(ready), <<Head(ready)>>, waiting)
        /\ Pend(Tail(ready), <<Head(ready)>>, waiting)
             = Pend(ready, <<>>, waiting)
    BY <1>2, <1>3, <1>4, <1>5, <1>1, RunBegun
  <2>2. current' = <<Head(ready)>>
    BY <1>1, <1>5
  <2>3. /\ Unseen(state, told, Pend(Tail(ready), <<Head(ready)>>, waiting))
        /\ Telling(Range(connected) \ closing, handler, state, told,
                   Pend(Tail(ready), <<Head(ready)>>, waiting))
    BY <1>2, <2>1
  <2> QED
    BY <1>1, <2>1, <2>2, <2>3 DEF Now, Orderly
<1>6. CASE ~t.begun
  <2>1. PICK q \in Todo(t) :
          current' = Left([t EXCEPT !.begun = TRUE, !.todo = q])
    BY <1>1, <1>6
  <2> DEFINE n == [t EXCEPT !.begun = TRUE, !.todo = q]
  <2>2. t \in SoundTask /\ t \in Task
    BY <1>1, <1>3, RunPend, BegunAreSound
  <2>3. q \in Seq(Conns \X Eps)
    BY <2>2, TodoTyped
  <2>4. /\ n \in Task /\ n.begun = TRUE /\ n.todo = q /\ n.kind = t.kind
        /\ n.ep = t.ep /\ n.uplink = t.uplink /\ n.state = t.state
        /\ n.conn = t.conn
    BY <2>2, <2>3 DEF Task
  <2>5. n.todo # <<>> => n \in BegunTask
    BY <2>2, <2>4 DEF SoundTask, BegunTask
  <2> HIDE DEF n
  <2>6. current' = IF q = <<>> THEN <<>> ELSE <<n>>
    BY <2>1, <2>4 DEF Left, n
  <2>7. /\ q = <<>> => Range(current') = {}
        /\ q # <<>> => Range(current') = {n}
    BY <2>6, ShortRanges
  <2>8. /\ Unseen(state, told, Pend(Tail(ready), current', waiting))
        /\ Telling(Range(connected) \ closing, handler, state, told,
                   Pend(Tail(ready), current', waiting))
    BY <1>1, <1>2, <1>6, <2>4, <2>7, RunTelling
  <2>9. /\ Structure(connected, Tail(ready), current', waiting)
        /\ Fresh(state, Tail(ready), current', waiting)
    <3>1. CASE t.kind # "epStat"
      <4>1. \A u \in Range(current') : u.kind # "epStat"
        BY <2>4, <2>7, <3>1
      <4> QED
        BY <1>1, <1>2, <1>3, <3>1, <4>1, RunOther
    <3>2. CASE t.kind = "epStat"
      <4>1. q = [m \in DOMAIN connected |-> <<connected[m], t.ep>>]
        BY <3>2 DEF Todo
      <4>2. CASE connected = <<>>
        <5>1. q = <<>>
          BY <4>1, <4>2
        <5>2. current' = <<>>
          BY <2>6, <5>1
        <5> QED
          BY <1>1, <1>2, <1>3, <1>6, <3>2, <4>2, <5>2, RunGone
      <4>3. CASE connected # <<>>
        <5>1. q # <<>>
          <6>1. 1 \in DOMAIN connected
            BY <1>3, <4>3
          <6> QED
            BY <4>1, <6>1
        <5>2. current' = <<n>> /\ n \in BegunTask
          BY <2>4, <2>5, <2>6, <5>1
        <5>3. n.todo = [m \in DOMAIN connected |-> <<connected[m], n.ep>>]
          BY <2>4, <4>1
        <5>4. /\ n.kind = "epStat" /\ n.ep = Head(ready).ep
              /\ n.state = Head(ready).state
          BY <2>4, <3>2
        <5>5. /\ Structure(connected, Tail(ready), <<n>>, waiting)
              /\ Fresh(state, Tail(ready), <<n>>, waiting)
          BY <1>1, <1>2, <1>3, <1>4, <1>6, <3>2, <4>3, <5>2, <5>3, <5>4,
             RunNew
        <5> QED
          BY <5>2, <5>5
      <4> QED
        BY <4>2, <4>3
    <3> QED
      BY <3>1, <3>2
  <2> QED
    BY <1>1, <2>8, <2>9 DEF Now, Orderly
<1> QED
  BY <1>5, <1>6

(* What the three ways to send have in common, and what is told.           *)
LEMMA SendIs ==
  ASSUME TypeInv, Send
  PROVE  LET t == Head(current)
             c == Head(t.todo)[1]
             e == Head(t.todo)[2]
         IN  /\ Sends(ready, current, waiting, ready', current', waiting')
             /\ \/ c \in closing /\ told' = told
                \/ /\ t.kind = "ulData"
                   /\ told' = told
                \/ /\ t.kind # "ulData"
                   /\ told' = [told EXCEPT ![c][e] =
                                 IF t.kind = "burst" THEN state[e]
                                 ELSE t.state]
<1> DEFINE t == Head(current)
           c == Head(t.todo)[1]
           e == Head(t.todo)[2]
<1>1. t \in BegunTask /\ c \in Conns
  <2>1. t \in BegunTask
    BY ShortSeq DEF Send, TypeInv, TypeOK
  <2> QED
    BY <2>1, RestSound
<1>2. SendClosed(t, c) \/ SendWaits(t, c) \/ SendOn(t, c)
  BY DEF Send
<1>3. c \notin paused => waiting[c] = <<>>
  BY <1>1 DEF TypeInv, TypeOK
<1> HIDE DEF t, c, e
<1>4. CASE SendClosed(t, c)
  <2>1. Sends(ready, current, waiting, ready', current', waiting')
    BY <1>3, <1>4 DEF SendClosed, Sends, t, c
  <2>2. c \in closing /\ told' = told
    BY <1>4 DEF SendClosed
  <2> QED
    BY <2>1, <2>2 DEF t, c, e
<1>5. ASSUME Written(t, c, e)
      PROVE  \/ t.kind = "ulData" /\ told' = told
             \/ /\ t.kind # "ulData"
                /\ told' = [told EXCEPT ![c][e] =
                              IF t.kind = "burst" THEN state[e]
                              ELSE t.state]
  BY <1>5 DEF Written
<1>6. CASE SendWaits(t, c)
  <2>1. Sends(ready, current, waiting, ready', current', waiting')
    BY <1>6 DEF SendWaits, Sends, t, c
  <2>2. Written(t, c, e)
    BY <1>6 DEF SendWaits, e
  <2> QED
    BY <1>5, <2>1, <2>2 DEF t, c, e
<1>7. CASE SendOn(t, c)
  <2>1. Sends(ready, current, waiting, ready', current', waiting')
    BY <1>3, <1>7 DEF SendOn, Sends, t, c
  <2>2. Written(t, c, e)
    BY <1>7 DEF SendOn, e
  <2> QED
    BY <1>5, <2>1, <2>2 DEF t, c, e
<1> QED
  BY <1>2, <1>4, <1>6, <1>7

(* The running task sends: what it told is right, or somebody will tell it *)
(* again.                                                                  *)
LEMMA SendKeeps ==
  ASSUME TypeInv, Now, Send
  PROVE  Now'
<1> DEFINE t == Head(current)
           c == Head(t.todo)[1]
           d == Head(t.todo)[2]
           S == Range(Sent(t))
           P == Pend(ready, current, waiting)
           R == Pend(ready', current', waiting')
           T == Range(connected) \ closing
<1>1. /\ Sends(ready, current, waiting, ready', current', waiting')
      /\ \/ c \in closing /\ told' = told
         \/ t.kind = "ulData" /\ told' = told
         \/ /\ t.kind # "ulData"
            /\ told' = [told EXCEPT ![c][d] =
                          IF t.kind = "burst" THEN state[d] ELSE t.state]
  BY SendIs
<1>2. /\ current # <<>> /\ connected' = connected /\ handler' = handler
      /\ closing' = closing /\ state' = state
  BY DEF Send, connVars, sensorVars
<1>3. /\ connected \in Seq(Conns) /\ Range(connected) \subseteq Conns
      /\ Distinct(connected) /\ Queues(ready, current, waiting)
      /\ told \in [Conns -> [Eps -> States \cup {None}]]
  BY StateIs
<1>4. /\ Structure(connected, ready, current, waiting)
      /\ Fresh(state, ready, current, waiting)
      /\ Unseen(state, told, P)
      /\ Telling(T, handler, state, told, P)
  BY DEF Now, Orderly
<1>5. SendSplits(ready, current, waiting, ready', current', waiting')
  BY <1>1, <1>2, <1>3, SendPend
<1>6. /\ t \in BegunTask /\ Range(current) = {t} /\ c \in Conns /\ t \in P
      /\ Range(ready) \subseteq Range(ready')
      /\ \A u \in P : u \in R \/ u = t
      /\ \A u \in R : u \in P \/ u \in S
      /\ S \subseteq R
  BY <1>5 DEF SendSplits
<1>7. Structure(connected, ready', current', waiting')
  BY <1>1, <1>2, <1>3, <1>4, SendStructure
<1>8. Fresh(state, ready', current', waiting')
  BY <1>1, <1>2, <1>3, <1>4, SendFresh
<1>9. /\ \A u \in S : /\ u.begun /\ u.kind = t.kind /\ u.ep = t.ep
                      /\ u.state = t.state /\ u.conn = t.conn
      /\ \A x \in Way(t) : x = Head(t.todo) \/ \E u \in S : x \in Way(u)
      /\ d \in Eps /\ Head(t.todo) = <<c, d>> /\ Head(t.todo) \in Way(t)
  BY <1>6, SentIs, SentWay, TodoIs, RestSound
<1>10. t.begun /\ t \in SoundTask
  BY <1>6 DEF BegunTask
<1>11. Range(ready') \subseteq R
  BY DEF Pend
<1>12. Heeded(state, P, ready, current) /\ InLine(connected, P)
  BY <1>4 DEF Fresh, Structure
<1>13. t.kind = "epStat" => t.ep = d
  <2> SUFFICES ASSUME t.kind = "epStat" PROVE t.ep = d
    OBVIOUS
  <2>1. PICK i \in 1 .. Len(connected) : AlongAt(connected, t, i)
    BY <1>6, <1>10, <1>12 DEF InLine, Along, Walks
  <2>2. Head(t.todo) = <<connected[i], t.ep>>
    BY <1>3, <1>6, <2>1, WayIs
  <2> QED
    BY <2>2
<1> HIDE DEF t, c, d, S, P, R, T
<1>14. \A e \in Eps : state[e] = None =>
         /\ \A x \in Conns : told[x][e] = None
         /\ \A u \in P : u.kind = "epStat" => u.ep # e
  BY <1>4 DEF Unseen
<1>15. \A x \in Conns, e \in Eps :
         \/ told'[x][e] = told[x][e]
         \/ /\ x = c /\ e = d /\ t.kind # "ulData"
            /\ told'[x][e] = IF t.kind = "burst" THEN state[d] ELSE t.state
  BY <1>1, <1>3, <1>6, <1>9
<1>16. t.kind = "burst" \/ t.kind = "epStat" \/ t.kind = "ulData"
  BY <1>10 DEF SoundTask, Task
<1>17. Unseen(state, told', R)
  <2> SUFFICES ASSUME NEW e \in Eps, state[e] = None
               PROVE  /\ \A x \in Conns : told'[x][e] = None
                      /\ \A u \in R : u.kind = "epStat" => u.ep # e
    BY DEF Unseen
  <2>1. \A x \in Conns : told'[x][e] = None
    BY <1>6, <1>13, <1>14, <1>15, <1>16
  <2>2. \A u \in R : u.kind = "epStat" => u.ep # e
    BY <1>6, <1>9, <1>14
  <2> QED
    BY <2>1, <2>2
<1>18. ASSUME NEW x, NEW e \in Eps, Will(state, P, x, e),
              <<x, e>> # Head(t.todo) \/ t.kind = "ulData"
       PROVE  Will(state, R, x, e)
  <2>1. PICK u \in P : /\ Covers(u, x, e)
                       /\ \/ u.kind = "burst" /\ u.conn = x
                          \/ Right(state, u) /\ u.ep = e
    BY <1>18 DEF Will
  <2>2. CASE u # t
    BY <1>6, <2>1, <2>2 DEF Will
  <2>3. CASE u = t
    <3>1. <<x, e>> \in Way(t) /\ t.kind # "ulData"
      BY <1>10, <2>1, <2>3 DEF Covers, Right
    <3>2. PICK v \in S : <<x, e>> \in Way(v)
      BY <1>9, <1>18, <3>1
    <3>3. \/ v.kind = "burst" /\ v.conn = x
          \/ Right(state, v) /\ v.ep = e
      BY <1>9, <2>1, <2>3 DEF Right
    <3> QED
      BY <1>6, <3>2, <3>3 DEF Will, Covers
  <2> QED
    BY <2>2, <2>3
<1>19. ASSUME Wrong(state, t)
       PROVE  Will(state, R, c, d)
  <2>1. t.ep = d /\ \A u : Right(state, u) => u # t
    BY <1>13, <1>19 DEF Wrong, Right
  <2>2. <<c, d>> \in Way(t)
    BY <1>9
  <2>3. CASE Bettered(state, P, t)
    <3>1. PICK b \in P : /\ Right(state, b) /\ b.ep = t.ep
                         /\ b.begun => Way(t) \subseteq Way(b)
      BY <2>3 DEF Bettered
    <3>2. b \in R
      BY <1>6, <2>1, <3>1
    <3>3. Covers(b, c, d)
      BY <2>2, <3>1 DEF Covers
    <3> QED
      BY <2>1, <3>1, <3>2, <3>3 DEF Will
  <2>4. ASSUME NEW b \in Range(ready), Right(state, b), Same(b, t)
        PROVE  Will(state, R, c, d)
    <3>1. b \in R
      BY <1>6, <1>11, <2>4
    <3>2. b.ep = d /\ <<c, d>> \in Way(b)
      BY <2>1, <2>2, <2>4 DEF Same, Way
    <3> QED
      BY <2>4, <3>1, <3>2 DEF Will, Covers
  <2> QED
    BY <1>6, <1>12, <1>19, <2>3, <2>4 DEF Heeded
<1>20. Telling(T, handler, state, told', R)
  <2> SUFFICES ASSUME NEW x \in T, NEW e \in Eps, told'[x][e] # state[e]
               PROVE  \/ told'[x][e] = None /\ state[e] = "online"
                      \/ handler[x] = "answering"
                      \/ Will(state, R, x, e)
    BY DEF Telling
  <2>1. x \in Conns /\ x \notin closing
    BY <1>3 DEF T
  <2>2. CASE told'[x][e] = told[x][e] /\ ~(x = c /\ e = d)
    <3>1. <<x, e>> # Head(t.todo)
      BY <1>9, <2>2
    <3> QED
      BY <1>4, <1>18, <2>2, <3>1 DEF Telling
  <2>3. CASE x = c /\ e = d /\ t.kind = "ulData"
    <3>1. told'[x][e] = told[x][e]
      BY <1>15, <2>1, <2>3
    <3> QED
      BY <1>4, <1>18, <2>3, <3>1 DEF Telling
  <2>4. CASE x = c /\ e = d /\ t.kind # "ulData"
    <3>1. told'[c][d] = IF t.kind = "burst" THEN state[d] ELSE t.state
      BY <1>1, <1>3, <1>6, <1>9, <2>1, <2>4
    <3>2. t.kind = "epStat" /\ t.state # state[d]
      BY <1>16, <2>4, <3>1
    <3>3. Wrong(state, t)
      BY <1>13, <3>2 DEF Wrong
    <3> QED
      BY <1>19, <2>4, <3>3
  <2> QED
    BY <1>15, <2>1, <2>2, <2>3, <2>4
<1>21. Telling(Range(connected) \ closing, handler, state, told', R)
  BY <1>20 DEF T
<1> QED
  BY <1>2, <1>7, <1>8, <1>17, <1>21 DEF Now, Orderly, R

-----------------------------------------------------------------------------
(***************************************************************************)
(* The theorems                                                            *)
(***************************************************************************)

(* At the start nobody is connected and nothing is pending.                *)
LEMMA InitOrderly == Init => SessionInv
<1> SUFFICES ASSUME Init PROVE SessionInv
  OBVIOUS
<1>1. TypeInv
  BY InitTyped
<1>2. /\ ready = <<>> /\ current = <<>> /\ connected = <<>>
      /\ waiting = [x \in Conns |-> <<>>] /\ closing = {}
      /\ told = [x \in Conns |-> [e \in Eps |-> None]]
  BY DEF Init
<1>3. Range(<<>>) = {} /\ Len(<<>>) = 0
  BY ShortRanges
<1>4. Pend(ready, current, waiting) = {}
  BY <1>2, <1>3 DEF Pend
<1>5. Structure(connected, ready, current, waiting)
  BY <1>2, <1>3, <1>4
     DEF Structure, InLine, Nested, WaitsBehind, Apart, OldestRuns
<1>6. Fresh(state, ready, current, waiting)
  BY <1>2, <1>3, <1>4 DEF Fresh, Ordered, Heeded
<1>7. Unseen(state, told, Pend(ready, current, waiting))
  BY <1>2, <1>4 DEF Unseen
<1>8. Telling(Range(connected) \ closing, handler, state, told,
              Pend(ready, current, waiting))
  BY <1>2, <1>3 DEF Telling
<1> QED
  BY <1>1, <1>5, <1>6, <1>7, <1>8 DEF SessionInv, Orderly

(* Every step keeps the invariant.                                         *)
LEMMA StepOrderly == SessionInv /\ [Next]_sessionVars => SessionInv'
<1> SUFFICES ASSUME SessionInv, [Next]_sessionVars PROVE SessionInv'
  OBVIOUS
<1>1. TypeInv /\ TypeInv'
  BY StepTyped DEF SessionInv
<1> SUFFICES ASSUME ~overtaken' PROVE Now'
  BY <1>1 DEF SessionInv, Now
<1> USE DEF connVars, taskVars, sensorVars
<1>2. ~overtaken
  <2>1. CASE Next
    BY <2>1 DEF Next, RunTasks, ApplicationCenter, RunNext, Send, Con,
                Answered, Closes, Cleanup, Resumes, Reg, Dereg, Publish,
                Appear, Change
  <2>2. CASE UNCHANGED sessionVars
    BY <2>2 DEF sessionVars
  <2> QED
    BY <2>1, <2>2
<1>3. Now
  BY <1>2 DEF SessionInv, Now
<1>4. CASE UNCHANGED sessionVars
  BY <1>3, <1>4, RegistrationKeeps DEF sessionVars
<1>5. ASSUME NEW c \in Conns, NEW e \in Eps, Reg(c, e) \/ Dereg(c, e)
      PROVE  Now'
  BY <1>3, <1>5, RegistrationKeeps DEF Reg, Dereg
<1> QED
  BY <1>1, <1>3, <1>4, <1>5, RunKeeps, SendKeeps, ConKeeps, AnsweredKeeps,
     ClosesKeeps, CleanupKeeps, ResumesKeeps, PublishKeeps, AppearKeeps,
     ChangeKeeps
     DEF Next, RunTasks, ApplicationCenter

(* The invariant holds in every behaviour.                                 *)
THEOREM OrderInvariance == Spec => []SessionInv
  BY InitOrderly, StepOrderly, PTL DEF Spec

(* When nothing is under way, the last epStat an Application Center has    *)
(* read of a sensor is the sensor's state, for any number of connections,  *)
(* sensors and changes, as long as no epStat can have passed an older one. *)
THEOREM LastToldIsCurrent == Spec => []ToldIsCurrent
<1>1. SessionInv => ToldIsCurrent
  <2> SUFFICES ASSUME SessionInv, Quiet, ~overtaken,
                      NEW c \in Range(connected) \ closing, NEW e \in Eps,
                      told[c][e] # state[e]
               PROVE  told[c][e] = None /\ state[e] = "online"
    BY DEF ToldIsCurrent
  <2>1. TypeInv /\ Now
    BY DEF SessionInv, Now
  <2>2. Pend(ready, current, waiting) = {}
    BY <2>1, UnfinishedIs DEF Quiet
  <2>3. \/ told[c][e] = None /\ state[e] = "online"
        \/ handler[c] = "answering"
        \/ Will(state, Pend(ready, current, waiting), c, e)
    BY <2>1 DEF Now, Orderly, Telling
  <2>4. ~Will(state, Pend(ready, current, waiting), c, e)
    BY <2>2 DEF Will
  <2>5. handler[c] # "answering"
    BY <2>1, StateIs DEF Quiet
  <2> QED
    BY <2>3, <2>4, <2>5
<1> QED
  BY <1>1, OrderInvariance, PTL

=============================================================================
