-------------------------- MODULE PerfectLinkProofs --------------------------
(***************************************************************************)
(* The perfect link implements a reliable channel, for any number of       *)
(* messages, any length of the queue and any number of duplicates.          *)
(***************************************************************************)
EXTENDS PerfectLink, TLAPS

\* What Append and Tail do to the elements of a sequence.
LEMMA ElementsOfAppend ==
  ASSUME NEW S, NEW s \in Seq(S), NEW x \in S
  PROVE  Elements(Append(s, x)) = Elements(s) \cup {x}
<1>1. /\ DOMAIN Append(s, x) = 1 .. Len(s) + 1
      /\ DOMAIN s = 1 .. Len(s)
      /\ Len(s) \in Nat
      /\ \A i \in 1 .. Len(s) : Append(s, x)[i] = s[i]
      /\ Append(s, x)[Len(s) + 1] = x
  OBVIOUS
<1>2. Elements(Append(s, x)) \subseteq Elements(s) \cup {x}
  BY <1>1 DEF Elements
<1>3. \A i \in 1 .. Len(s) : i \in 1 .. Len(s) + 1
  BY <1>1
<1>4. x \in Elements(Append(s, x))
  <2>1. Len(s) + 1 \in 1 .. Len(s) + 1
    BY <1>1
  <2>2. QED
    BY <1>1, <2>1 DEF Elements
<1>5. Elements(s) \subseteq Elements(Append(s, x))
  BY <1>1, <1>3 DEF Elements
<1>6. QED
  BY <1>2, <1>4, <1>5

LEMMA ElementsOfTail ==
  ASSUME NEW S, NEW s \in Seq(S), s # << >>
  PROVE  /\ Head(s) \in S
         /\ Tail(s) \in Seq(S)
         /\ Elements(s) = Elements(Tail(s)) \cup {Head(s)}
<1>1. /\ Head(s) \in S
      /\ Tail(s) \in Seq(S)
      /\ Head(s) = s[1]
      /\ Len(s) \in Nat /\ Len(s) > 0
      /\ DOMAIN s = 1 .. Len(s)
      /\ DOMAIN Tail(s) = 1 .. Len(s) - 1
      /\ \A i \in 1 .. Len(s) - 1 : Tail(s)[i] = s[i + 1]
  OBVIOUS
<1>2. Elements(Tail(s)) \cup {Head(s)} \subseteq Elements(s)
  BY <1>1 DEF Elements
<1>3. ASSUME NEW i \in 1 .. Len(s)
      PROVE  s[i] \in Elements(Tail(s)) \cup {Head(s)}
  <2>1. CASE i = 1
    BY <1>1, <2>1
  <2>2. CASE i # 1
    <3>1. i - 1 \in 1 .. Len(s) - 1 /\ (i - 1) + 1 = i
      BY <1>1, <2>2
    <3>2. Tail(s)[i - 1] = s[i]
      BY <1>1, <3>1
    <3>3. QED
      BY <1>1, <3>1, <3>2 DEF Elements
  <2>3. QED
    BY <2>1, <2>2
<1>4. QED
  BY <1>1, <1>2, <1>3 DEF Elements

\* Numbers of messages and acknowledgements, and what tells them apart.
LEMMA Numbers ==
  /\ \A n \in Num : Syn(n) \in Packet /\ Ack(n) \in Packet
  /\ \A pkt \in Packet : pkt.num \in Num /\ pkt = IF pkt.is_syn THEN Syn(pkt.num) ELSE Ack(pkt.num)
  /\ \A n, k \in Num : Syn(n) # Ack(k)
  /\ \A n, k \in Num : Syn(n) = Syn(k) => n = k
  /\ \A n, k \in Num : Ack(n) = Ack(k) => n = k
  /\ \A n : Syn(n).is_syn /\ ~ Ack(n).is_syn /\ Syn(n).num = n /\ Ack(n).num = n
BY DEF Syn, Ack, Packet


LEMMA InitIInv == Init => IInv
<1> SUFFICES ASSUME Init PROVE IInv
  OBVIOUS
<1>1. /\ << >> \in Seq(Packet) /\ << >> \in Seq({})
      /\ [n \in Num |-> 0] \in [Num -> Nat]
      /\ 0 \in 0 .. MaxDuplicates /\ 0 \in 0 .. MaxSends
  BY BoundsAssumption
<1>2. TypeOK
  <2>1. /\ next_seq_num \in 0 .. MaxSends
        /\ duplicates \in 0 .. MaxDuplicates
    BY <1>1 DEF Init
  <2>2. incoming \in Seq(Packet) /\ upcalls \in [Num -> Nat]
    BY <1>1 DEF Init
  <2>3. due \in Seq(scheduled)
    <3>1. scheduled = {} /\ due = << >>
      BY DEF Init
    <3>2. QED
      BY <1>1, <3>1
  <2>4. QED
    BY <2>1, <2>2, <2>3 DEF Init, TypeOK
<1>3. DueOnce
  BY DEF Init, DueOnce
<1>4. NotForgotten /\ AckedWasDelivered /\ OnlySent /\ UpcallOncePerDelivery
  BY DEF Init, NotForgotten, AckedWasDelivered, OnlySent, UpcallOncePerDelivery, Elements
<1>5. QED
  BY <1>2, <1>3, <1>4 DEF IInv

LEMMA SendPushPreserves == IInv /\ SendPush => IInv'
<1> SUFFICES ASSUME IInv, SendPush PROVE IInv'
  OBVIOUS
<1> DEFINE n == next_seq_num
<1>1. /\ n \in Num
      /\ next_seq_num' = n + 1
      /\ incoming' = Append(incoming, Syn(n))
      /\ unsent' = {n}
      /\ UNCHANGED << threadVars, netVars, recvVars, stopVars >>
  BY BoundsAssumption DEF SendPush, NextNumber, IInv, TypeOK, Num
<1>2. incoming \in Seq(Packet) /\ Syn(n) \in Packet
  BY <1>1, Numbers DEF IInv, TypeOK
<1>3. incoming' \in Seq(Packet) /\ Elements(incoming') = Elements(incoming) \cup {Syn(n)}
  BY <1>1, <1>2, ElementsOfAppend
<1>4. TypeOK'
  BY <1>1, <1>3, BoundsAssumption DEF IInv, TypeOK, Num, threadVars, netVars, recvVars, stopVars
<1>5. 0 .. next_seq_num' - 1 = (0 .. n - 1) \cup {n}
  BY <1>1 DEF Num
<1>6. NotForgotten'
  BY <1>1, <1>3, <1>5 DEF IInv, NotForgotten, Elements, threadVars, netVars, recvVars, stopVars
<1>7. AckedWasDelivered'
  BY <1>1, <1>3, Numbers DEF IInv, AckedWasDelivered, Elements, threadVars, netVars, recvVars, stopVars
<1>8. OnlySent'
  <2>1. (unsent \cup scheduled \cup delivered)' \subseteq 0 .. next_seq_num' - 1
    BY <1>1, <1>5 DEF IInv, OnlySent, threadVars, netVars, recvVars, stopVars
  <2>2. ASSUME NEW k \in Num, Syn(k) \in network' \cup Elements(incoming')
        PROVE  k < next_seq_num'
    <3>1. Syn(k) \in network \cup Elements(incoming) \/ k = n
      BY <1>1, <1>3, <2>2, Numbers DEF netVars
    <3>2. Syn(k) \in network \cup Elements(incoming) => k < n
      BY DEF IInv, OnlySent
    <3>3. QED
      BY <1>1, <3>1, <3>2 DEF Num
  <2>3. QED
    BY <2>1, <2>2 DEF OnlySent, Elements
<1>9. DueOnce' /\ UpcallOncePerDelivery'
  BY <1>1 DEF IInv, DueOnce, UpcallOncePerDelivery, threadVars, netVars, recvVars, stopVars
<1>10. QED
  BY <1>4, <1>6, <1>7, <1>8, <1>9 DEF IInv

\* What changes the network only and puts nothing unheard of there.
LEMMA NetworkPreserves ==
  ASSUME IInv,
         UNCHANGED << next_seq_num, incoming, scheduled, due, acknowledged, recvVars >>,
         thread' \in {"polling", "waiting"},
         unsent' \subseteq unsent, duplicates' \in 0 .. MaxDuplicates,
         crashed' \subseteq {"sender", "receiver"}, exited' \in BOOLEAN,
         network' \subseteq network \cup { Syn(n) : n \in unsent }
  PROVE  IInv'
<1>1. unsent \subseteq Num /\ unsent \subseteq 0 .. next_seq_num - 1
  BY DEF IInv, TypeOK, OnlySent
<1>2. \A n \in Num : Syn(n) \in network' => Syn(n) \in network \/ n \in unsent
  BY <1>1, Numbers
<1>3. \A n \in Num : Ack(n) \in network' => Ack(n) \in network
  BY <1>1, Numbers
<1>4. TypeOK'
  BY <1>1, Numbers DEF IInv, TypeOK, threadVars, recvVars
<1>5. NotForgotten' /\ DueOnce' /\ UpcallOncePerDelivery'
  BY DEF IInv, NotForgotten, DueOnce, UpcallOncePerDelivery, Elements, threadVars, recvVars
<1>6. AckedWasDelivered'
  BY <1>3 DEF IInv, AckedWasDelivered, Elements, threadVars, recvVars
<1>7. OnlySent'
  <2>1. (unsent \cup scheduled \cup delivered)' \subseteq 0 .. next_seq_num' - 1
    BY DEF IInv, OnlySent, threadVars, recvVars
  <2>2. ASSUME NEW n \in Num, Syn(n) \in network' \cup Elements(incoming)
        PROVE  n < next_seq_num
    <3>1. CASE n \in unsent
      BY <1>1, <3>1 DEF IInv, TypeOK
    <3>2. CASE n \notin unsent
      BY <1>2, <2>2, <3>2 DEF IInv, OnlySent
    <3>3. QED
      BY <3>1, <3>2
  <2>3. QED
    BY <2>1, <2>2 DEF OnlySent, Elements
<1>8. QED
  BY <1>4, <1>5, <1>6, <1>7 DEF IInv

LEMMA ReceiveAckPreserves ==
  ASSUME IInv, NEW n \in Num, ReceiveAck(n)
  PROVE  IInv'
<1>1. /\ Ack(n) \in network
      /\ network' \subseteq network
      /\ incoming' = Append(incoming, Ack(n))
      /\ duplicates' \in 0 .. MaxDuplicates
      /\ UNCHANGED << mainVars, threadVars, recvVars, stopVars >>
  BY BoundsAssumption DEF ReceiveAck, Take, IInv, TypeOK
<1>2. incoming \in Seq(Packet) /\ Ack(n) \in Packet
  BY Numbers DEF IInv, TypeOK
<1>3. incoming' \in Seq(Packet) /\ Elements(incoming') = Elements(incoming) \cup {Ack(n)}
  BY <1>1, <1>2, ElementsOfAppend
<1>4. TypeOK'
  BY <1>1, <1>3 DEF IInv, TypeOK, mainVars, threadVars, recvVars, stopVars
<1>5. NotForgotten' /\ DueOnce' /\ UpcallOncePerDelivery'
  BY <1>1, <1>3 DEF IInv, NotForgotten, DueOnce, UpcallOncePerDelivery, Elements,
     mainVars, threadVars, recvVars
<1>6. n \in delivered
  BY <1>1 DEF IInv, AckedWasDelivered
<1>7. AckedWasDelivered'
  <2> SUFFICES ASSUME NEW k \in Num,
                      Ack(k) \in network' \cup Elements(incoming') \/ k \in acknowledged
               PROVE  k \in delivered
    BY <1>1 DEF AckedWasDelivered, Elements, threadVars, recvVars
  <2>1. Ack(k) \in network \cup Elements(incoming) \/ k \in acknowledged \/ k = n
    BY <1>1, <1>3, Numbers
  <2>2. QED
    BY <1>6, <2>1 DEF IInv, AckedWasDelivered
<1>8. OnlySent'
  <2>1. \A k \in Num : Syn(k) \in network' \cup Elements(incoming')
                         => Syn(k) \in network \cup Elements(incoming)
    BY <1>1, <1>3, Numbers
  <2>2. QED
    BY <1>1, <2>1 DEF IInv, OnlySent, Elements, mainVars, threadVars, recvVars
<1>9. QED
  BY <1>4, <1>5, <1>7, <1>8 DEF IInv

LEMMA TimeoutPreserves ==
  ASSUME IInv, due # << >>, handle_timeout,
         thread' \in {"polling", "waiting"},
         UNCHANGED << mainVars, incoming, duplicates, recvVars, stopVars >>
  PROVE  IInv'
<1> DEFINE n == Head(due)
           rest == Tail(due)
<1>1. /\ n \in scheduled
      /\ rest \in Seq(scheduled)
      /\ due' = rest
      /\ Len(due) \in Nat /\ Len(due) > 0 /\ n = due[1]
      /\ DOMAIN due = 1 .. Len(due)
      /\ DOMAIN rest = 1 .. Len(due) - 1
      /\ \A i \in 1 .. Len(due) - 1 : rest[i] = due[i + 1] /\ i + 1 \in 1 .. Len(due)
  BY DEF IInv, TypeOK, handle_timeout
<1>2. \A i \in DOMAIN rest : rest[i] # n
  BY <1>1 DEF IInv, DueOnce
<1>3. \A i, j \in DOMAIN rest : rest[i] = rest[j] => i = j
  BY <1>1 DEF IInv, DueOnce
<1> HIDE DEF n, rest
<1>4. CASE n \in acknowledged
  <2>1. /\ acknowledged' = acknowledged \ {n}
        /\ scheduled' = scheduled \ {n}
        /\ network' = network
    BY <1>4 DEF handle_timeout, n
  <2>2. n \in delivered
    BY <1>1, <1>4 DEF IInv, TypeOK, AckedWasDelivered
  <2>3. rest \in Seq(scheduled \ {n})
    <3>1. \A i \in 1 .. Len(due) - 1 : rest[i] \in scheduled \ {n}
      BY <1>1, <1>2
    <3>2. Len(due) - 1 \in Nat /\ rest = [i \in 1 .. Len(due) - 1 |-> rest[i]]
      BY <1>1
    <3>3. QED
      BY <3>1, <3>2
  <2>4. TypeOK'
    BY <1>1, <2>1, <2>3 DEF IInv, TypeOK, mainVars, recvVars, stopVars
  <2>5. NotForgotten'
    BY <2>1, <2>2 DEF IInv, NotForgotten, Elements, mainVars, recvVars
  <2>6. AckedWasDelivered' /\ UpcallOncePerDelivery'
    BY <2>1 DEF IInv, AckedWasDelivered, UpcallOncePerDelivery, Elements, mainVars, recvVars
  <2>7. OnlySent'
    BY <2>1 DEF IInv, OnlySent, Elements, mainVars, recvVars
  <2>8. DueOnce'
    BY <1>1, <1>3 DEF DueOnce
  <2>9. QED
    BY <2>4, <2>5, <2>6, <2>7, <2>8 DEF IInv
<1>5. CASE n \notin acknowledged
  <2>1. /\ network' = network \cup {Syn(n)}
        /\ UNCHANGED << acknowledged, scheduled >>
    BY <1>1, <1>5 DEF handle_timeout, PushBack, n
  <2>2. n \in Num /\ n < next_seq_num /\ Syn(n) \in Packet
    BY <1>1, Numbers DEF IInv, TypeOK, OnlySent
  <2>3. TypeOK'
    BY <1>1, <2>1, <2>2 DEF IInv, TypeOK, mainVars, recvVars, stopVars
  <2>4. NotForgotten' /\ UpcallOncePerDelivery'
    BY <2>1 DEF IInv, NotForgotten, UpcallOncePerDelivery, Elements, mainVars, recvVars
  <2>5. AckedWasDelivered'
    BY <2>1, <2>2, Numbers DEF IInv, AckedWasDelivered, Elements, mainVars, recvVars
  <2>6. OnlySent'
    <3>1. \A k \in Num : Syn(k) \in network' => Syn(k) \in network \/ k = n
      BY <2>1, <2>2, Numbers
    <3>2. QED
      BY <2>1, <2>2, <3>1 DEF IInv, OnlySent, Elements, mainVars, recvVars
  <2>7. DueOnce'
    BY <1>1, <1>3 DEF DueOnce
  <2>8. QED
    BY <2>3, <2>4, <2>5, <2>6, <2>7 DEF IInv
<1>6. QED
  BY <1>4, <1>5

LEMMA PopPreserves == IInv /\ Pop => IInv'
<1> SUFFICES ASSUME IInv, Pop PROVE IInv'
  OBVIOUS
<1> DEFINE pkt == Head(incoming)
<1>1. /\ incoming # << >>
      /\ incoming' = Tail(incoming)
      /\ thread' = "polling"
      /\ scheduled' = IF pkt.is_syn THEN scheduled \cup {pkt.num} ELSE scheduled
      /\ acknowledged' = IF pkt.is_syn THEN acknowledged ELSE acknowledged \cup {pkt.num}
      /\ UNCHANGED << mainVars, due, netVars, recvVars, stopVars >>
  BY DEF Pop
<1>2. incoming \in Seq(Packet)
  BY DEF IInv, TypeOK
<1>3. /\ pkt \in Packet
      /\ incoming' \in Seq(Packet)
      /\ Elements(incoming) = Elements(incoming') \cup {pkt}
  BY <1>1, <1>2, ElementsOfTail
<1> HIDE DEF pkt
<1>4. pkt.num \in Num /\ pkt = IF pkt.is_syn THEN Syn(pkt.num) ELSE Ack(pkt.num)
  BY <1>3, Numbers
<1>5. scheduled \subseteq scheduled' /\ scheduled' \subseteq Num /\ acknowledged' \subseteq Num
  BY <1>1, <1>4 DEF IInv, TypeOK
<1>6. due \in Seq(scheduled')
  BY <1>5 DEF IInv, TypeOK
<1>7. TypeOK'
  BY <1>1, <1>3, <1>5, <1>6 DEF IInv, TypeOK, mainVars, netVars, recvVars, stopVars
<1>8. NotForgotten'
  <2> SUFFICES ASSUME NEW n \in 0 .. next_seq_num - 1
               PROVE  n \in delivered \cup scheduled' \/ Syn(n) \in Elements(incoming')
    BY <1>1 DEF NotForgotten, Elements, mainVars, netVars, recvVars, stopVars
  <2>1. n \in delivered \cup scheduled \/ Syn(n) \in Elements(incoming') \/ Syn(n) = pkt
    BY <1>3 DEF IInv, NotForgotten
  <2>2. CASE Syn(n) = pkt
    BY <1>1, <2>2, Numbers
  <2>3. QED
    BY <1>5, <2>1, <2>2
<1>9. AckedWasDelivered'
  <2> SUFFICES ASSUME NEW n \in Num,
                      Ack(n) \in network \cup Elements(incoming') \/ n \in acknowledged'
               PROVE  n \in delivered
    BY <1>1 DEF AckedWasDelivered, Elements, netVars, recvVars
  <2>1. Ack(n) \in network \cup Elements(incoming) \/ n \in acknowledged
    BY <1>1, <1>3, <1>4
  <2>2. QED
    BY <2>1 DEF IInv, AckedWasDelivered
<1>10. OnlySent'
  <2>1. pkt.is_syn => pkt.num \in 0 .. next_seq_num - 1
    BY <1>3, <1>4 DEF IInv, OnlySent, TypeOK, Num
  <2>2. QED
    BY <1>1, <1>3, <2>1 DEF IInv, OnlySent, Elements, mainVars, netVars, recvVars, stopVars
<1>11. DueOnce' /\ UpcallOncePerDelivery'
  BY <1>1 DEF IInv, DueOnce, UpcallOncePerDelivery, netVars, recvVars
<1>12. QED
  BY <1>7, <1>8, <1>9, <1>10, <1>11 DEF IInv

LEMMA ExpirePreserves ==
  ASSUME IInv, NEW n \in Num, Expire(n)
  PROVE  IInv'
<1>1. /\ n \in scheduled
      /\ due' = Append(due, n)
      /\ \A i \in DOMAIN due : due[i] # n
      /\ UNCHANGED << mainVars, incoming, thread, scheduled, acknowledged, netVars,
                      recvVars, stopVars >>
  BY DEF Expire
<1>2. due \in Seq(scheduled)
  BY DEF IInv, TypeOK
<1>3. /\ due' \in Seq(scheduled)
      /\ Len(due) \in Nat
      /\ DOMAIN due = 1 .. Len(due)
      /\ DOMAIN due' = 1 .. Len(due) + 1
      /\ \A i \in 1 .. Len(due) : due'[i] = due[i]
      /\ due'[Len(due) + 1] = n
  BY <1>1, <1>2
<1>4. DueOnce'
  <2>1. \A i \in 1 .. Len(due) + 1 : i \in 1 .. Len(due) \/ i = Len(due) + 1
    BY <1>3
  <2>2. QED
    BY <1>1, <1>3, <2>1 DEF IInv, DueOnce
<1>5. TypeOK'
  BY <1>1, <1>3 DEF IInv, TypeOK, mainVars, netVars, recvVars, stopVars
<1>6. QED
  BY <1>1, <1>4, <1>5 DEF IInv, NotForgotten, AckedWasDelivered, OnlySent,
     UpcallOncePerDelivery, Elements, mainVars, netVars, recvVars, stopVars

LEMMA ReceiveSynPreserves ==
  ASSUME IInv, NEW n \in Num, ReceiveSyn(n)
  PROVE  IInv'
<1>1. /\ Syn(n) \in network
      /\ network' \subseteq network \cup {Ack(n)}
      /\ delivered' = delivered \cup {n}
      /\ upcalls' = IF n \in delivered THEN upcalls ELSE [upcalls EXCEPT ![n] = @ + 1]
      /\ duplicates' \in 0 .. MaxDuplicates
      /\ UNCHANGED << mainVars, incoming, threadVars, stopVars >>
  BY BoundsAssumption
  DEF ReceiveSyn, Take, AckAlways, Recorded, recvVars, IInv, TypeOK
<1>2. n < next_seq_num /\ Ack(n) \in Packet
  BY <1>1, Numbers DEF IInv, OnlySent
<1>3. \A k \in Num : upcalls'[k] = IF k \in delivered' THEN 1 ELSE 0
  <2> TAKE k \in Num
  <2>1. upcalls[k] = IF k \in delivered THEN 1 ELSE 0
    BY DEF IInv, UpcallOncePerDelivery
  <2>2. QED
    BY <1>1, <2>1 DEF IInv, TypeOK
<1>4. TypeOK'
  BY <1>1, <1>2 DEF IInv, TypeOK, mainVars, threadVars, stopVars
<1>5. NotForgotten' /\ DueOnce'
  BY <1>1 DEF IInv, NotForgotten, DueOnce, Elements, mainVars, threadVars
<1>6. AckedWasDelivered'
  <2>1. \A k \in Num : Ack(k) \in network' => Ack(k) \in network \/ k = n
    BY <1>1, Numbers
  <2>2. QED
    BY <1>1, <2>1 DEF IInv, AckedWasDelivered, Elements, mainVars, threadVars
<1>7. OnlySent'
  <2>1. \A k \in Num : Syn(k) \in network' => Syn(k) \in network
    BY <1>1, Numbers
  <2>2. n \in 0 .. next_seq_num - 1
    BY <1>2 DEF IInv, TypeOK, Num
  <2>3. QED
    BY <1>1, <2>1, <2>2 DEF IInv, OnlySent, Elements, mainVars, threadVars
<1>8. QED
  BY <1>3, <1>4, <1>5, <1>6, <1>7 DEF IInv, UpcallOncePerDelivery

LEMMA StepPreserves == IInv /\ [Next]_vars => IInv'
<1> SUFFICES ASSUME IInv, [Next]_vars PROVE IInv'
  OBVIOUS
<1>1. CASE SendPush
  BY <1>1, SendPushPreserves
<1>2. CASE SendFirst
  BY <1>2, NetworkPreserves
  DEF SendFirst, IInv, TypeOK, threadVars, stopVars
<1>3. CASE Retry
  BY <1>3, TimeoutPreserves DEF Retry
<1>4. CASE Wait
  BY <1>4, NetworkPreserves
  DEF Wait, IInv, TypeOK, mainVars, netVars, stopVars
<1>5. CASE Pop
  BY <1>5, PopPreserves
<1>6. CASE WaitTimesOut
  <2>1. CASE due # << >> /\ handle_timeout
    BY <1>6, <2>1, TimeoutPreserves DEF WaitTimesOut
  <2>2. CASE UNCHANGED << scheduled, due, acknowledged, network >>
    BY <1>6, <2>2, NetworkPreserves DEF WaitTimesOut, IInv, TypeOK, mainVars, stopVars
  <2>3. QED
    BY <1>6, <2>1, <2>2 DEF WaitTimesOut
<1>7. ASSUME NEW n \in Num, ReceiveAck(n) \/ Expire(n) \/ ReceiveSyn(n)
      PROVE  IInv'
  BY <1>7, ReceiveAckPreserves, ExpirePreserves, ReceiveSynPreserves
<1>8. ASSUME NEW pkt \in network, Lose(pkt)
      PROVE  IInv'
  BY <1>8, NetworkPreserves
  DEF Lose, IInv, TypeOK, mainVars, threadVars, stopVars
<1>9. ASSUME NEW end \in {"sender", "receiver"}, Crash(end)
      PROVE  IInv'
  BY <1>9, NetworkPreserves
  DEF Crash, IInv, TypeOK, mainVars, threadVars, netVars
<1>10. CASE Exit
  BY <1>10, NetworkPreserves
  DEF Exit, IInv, TypeOK, mainVars, threadVars, netVars
<1>11. CASE UNCHANGED vars
  BY <1>11, NetworkPreserves
  DEF vars, IInv, TypeOK, mainVars, threadVars, netVars, stopVars
<1>12. QED
  BY <1>1, <1>2, <1>3, <1>4, <1>5, <1>6, <1>7, <1>8, <1>9, <1>10,
     <1>11 DEF Next, PeerThread

\* The inductive invariant holds in every reachable state.
THEOREM InductiveInvariant == Spec => []IInv
<1>1. QED
  BY InitIInv, StepPreserves, PTL DEF Spec

\* Every variable keeps its type.
THEOREM TypeCorrect == Spec => []TypeOK
<1>1. IInv => TypeOK
  BY DEF IInv
<1>2. QED
  BY <1>1, InductiveInvariant, PTL

\* A message that was sent has been delivered, or the peer's thread has it or
\* will find it in its queue.
THEOREM NothingForgotten == Spec => []NotForgotten
<1>1. IInv => NotForgotten
  BY DEF IInv
<1>2. QED
  BY <1>1, InductiveInvariant, PTL

\* An acknowledgement, under way, queued or recorded, is of a message that was
\* delivered.
THEOREM AcksMeanDelivery == Spec => []AckedWasDelivered
<1>1. IInv => AckedWasDelivered
  BY DEF IInv
<1>2. QED
  BY <1>1, InductiveInvariant, PTL

LEMMA StepSimulates == IInv /\ [Next]_vars => [Abstract!Next]_(Abstract!vars)
<1> SUFFICES ASSUME IInv, [Next]_vars PROVE [Abstract!Next]_(Abstract!vars)
  OBVIOUS
<1>1. CASE SendPush
  <2> DEFINE n == next_seq_num
  <2>1. /\ n \in Num
        /\ next_seq_num' = n + 1
        /\ "sender" \notin crashed
        /\ UNCHANGED << upcalls, crashed >>
    BY <1>1, BoundsAssumption DEF SendPush, NextNumber, SenderUp, IInv, TypeOK, Num, recvVars, stopVars
  <2>2. 0 .. next_seq_num' - 1 = (0 .. n - 1) \cup {n} /\ n \notin 0 .. n - 1
    BY <2>1 DEF Num
  <2>3. Abstract!Send(n)
    BY <2>1, <2>2 DEF Abstract!Send
  <2>4. QED
    BY <2>1, <2>3 DEF Abstract!Next
<1>2. ASSUME NEW n \in Num, ReceiveSyn(n)
      PROVE  [Abstract!Next]_(Abstract!vars)
  <2>1. /\ Syn(n) \in network
        /\ "receiver" \notin crashed
        /\ UNCHANGED << next_seq_num, crashed >>
    BY <1>2 DEF ReceiveSyn, Take, ReceiverUp, mainVars, stopVars
  <2>2. CASE n \in delivered
    BY <1>2, <2>1, <2>2 DEF ReceiveSyn, recvVars, Abstract!vars
  <2>3. CASE n \notin delivered
    <3>1. n \in 0 .. next_seq_num - 1
      BY <2>1 DEF IInv, TypeOK, OnlySent, Num
    <3>2. upcalls[n] = 0 /\ upcalls' = [upcalls EXCEPT ![n] = @ + 1]
      BY <1>2, <2>3 DEF ReceiveSyn, IInv, UpcallOncePerDelivery
    <3>3. Abstract!Deliver(n)
      BY <2>1, <3>1, <3>2 DEF Abstract!Deliver
    <3>4. QED
      BY <3>3 DEF Abstract!Next
  <2>4. QED
    BY <2>2, <2>3
<1>3. ASSUME NEW end \in {"sender", "receiver"}, Crash(end)
      PROVE  [Abstract!Next]_(Abstract!vars)
  <2>1. Abstract!Crash(end)
    BY <1>3 DEF Crash, mainVars, recvVars, Abstract!Crash
  <2>2. QED
    BY <2>1 DEF Abstract!Next
<1>4. CASE UNCHANGED << next_seq_num, upcalls, crashed >>
  BY <1>4 DEF Abstract!vars
<1>5. CASE SendFirst \/ PeerThread \/ Exit
  BY <1>4, <1>5
  DEF SendFirst, PeerThread, Retry, Wait, Pop, WaitTimesOut, Exit, mainVars, recvVars, stopVars
<1>6. ASSUME NEW n \in Num, ReceiveAck(n) \/ Expire(n)
      PROVE  [Abstract!Next]_(Abstract!vars)
  BY <1>4, <1>6 DEF ReceiveAck, Expire, mainVars, recvVars, stopVars
<1>7. ASSUME NEW pkt \in network, Lose(pkt)
      PROVE  [Abstract!Next]_(Abstract!vars)
  BY <1>4, <1>7 DEF Lose, mainVars, recvVars, stopVars
<1>8. CASE UNCHANGED vars
  BY <1>4, <1>8 DEF vars, mainVars, recvVars, stopVars
<1>9. QED
  BY <1>1, <1>2, <1>3, <1>5, <1>6, <1>7, <1>8 DEF Next

\* Sequence numbers, the delivered set and the two threads' retransmission hand
\* over what was sent, each message at most once.
THEOREM Refinement == Spec => ImplementsReliableChannel
<1>1. Init => Abstract!Init
  BY DEF Init, Abstract!Init
<1>2. QED
  BY <1>1, StepSimulates, InductiveInvariant, PTL
  DEF Spec, ImplementsReliableChannel, Abstract!Spec

=============================================================================
