---------------------------- MODULE PeersProofs ----------------------------
(***************************************************************************)
(* Five parts of how a node deals with its peers.  Sealed calls run at     *)
(* most once, and those that return have run, for any number of calls and  *)
(* sessions, of frames lost, replayed, late or out of order, sessions      *)
(* evicted and expired, and restarts of the peer.  Pins follow what an     *)
(* operator approved, for any number of endpoints and identities, of       *)
(* failing writes and restarts.  The anchors of a node stay among its      *)
(* candidates, whatever it hears of and whoever fails.  Bans are the last  *)
(* thing its guard forgets, whatever addresses come.  And its directory    *)
(* keeps every ceiling, and what is proven in it, whatever is gossiped.    *)
(***************************************************************************)
EXTENDS SecureChannel, SumsProofs, SequenceTheorems, TLAPS

(* What the state is made of.                                               *)
Session == [sid : Nat, next : Nat]
Own == [next : Nat, closed : BOOLEAN]
States == {"idle", "refused", "asked", "done", "failed"}
Frame == [kind : {"request", "answer", "error"}, sid : Nat, seq : Nat, c : Calls]
Requests == {f \in Frame : f.kind = "request"}
Types ==
  /\ hub \in Seq(Session) /\ opened \in Nat /\ mine \in Seq(Own) /\ Len(mine) = opened
  /\ calls \in [Calls -> [st : States, sid : Nat, seq : Nat]]
  /\ net \subseteq Frame /\ seen \subseteq Requests /\ handling \subseteq Requests
  /\ ran \in [Calls -> {0, 1}] /\ faults \in Nat

(* The peer's map: a session of it is one of the caller's, entered once,    *)
(* and not ahead of it.                                                     *)
HubBounded == Len(hub) <= MaxSessions
HubKnown ==
  \A i \in DOMAIN hub : hub[i].sid \in 1..opened /\ hub[i].next <= mine[hub[i].sid].next
HubUnique == \A i, j \in DOMAIN hub : hub[i].sid = hub[j].sid => i = j

(* A call has one number in one session, and every frame is about it.       *)
Asked(c) == calls[c].st \notin {"idle", "refused"}
Numbered ==
  \A c \in Calls : Asked(c) => /\ calls[c].sid \in 1..opened
                               /\ calls[c].seq < mine[calls[c].sid].next
About(f) == Asked(f.c) /\ f.sid = calls[f.c].sid /\ f.seq = calls[f.c].seq
FramesAbout == \A f \in net \cup seen \cup handling : About(f)

(* What was taken by the peer is not taken again: its session is past it,   *)
(* or is gone and does not come back.                                       *)
Taken(c) == Asked(c) /\ \A i \in DOMAIN hub : hub[i].sid = calls[c].sid => hub[i].next > calls[c].seq
Once ==
  /\ \A f \in handling : Taken(f.c) /\ ran[f.c] = 0
  /\ \A c \in Calls : ran[c] = 1 => Taken(c)
  /\ \A f \in net : f.kind = "answer" => ran[f.c] = 1
Inv == Types /\ HubBounded /\ HubKnown /\ HubUnique /\ Numbered /\ FramesAbout /\ Once

(* It implies the type invariant.                                           *)
LEMMA InvTypes == Inv => TypeOK
<1> SUFFICES ASSUME Inv PROVE TypeOK
  OBVIOUS
<1>1. \A f \in net \cup handling : f.seq < mine[f.sid].next
  BY DEF Inv, FramesAbout, About, Numbered, Types, Frame, Requests
<1> QED BY <1>1 DEF Inv, TypeOK, HubBounded, HubKnown

(* The map of the peer without its oldest session, with a new one, without  *)
(* one that expired, and with one advanced.                                 *)
LEMMA Pruned ==
  ASSUME ChannelAssumption, Types, HubBounded
  PROVE  /\ Prune(hub) \in Seq(Session) /\ Len(Prune(hub)) < MaxSessions
         /\ \E k \in {0, 1} : \A i \in 1..Len(Prune(hub)) :
               i + k \in DOMAIN hub /\ Prune(hub)[i] = hub[i + k]
<1>1. hub \in Seq(Session) /\ Len(hub) \in Nat /\ Len(hub) <= MaxSessions
      /\ MaxSessions \in Nat /\ MaxSessions >= 1 /\ DOMAIN hub = 1..Len(hub)
  BY LenProperties DEF Types, HubBounded, ChannelAssumption
<1>2. CASE Len(hub) + 1 > MaxSessions
  <2>1. hub # <<>>
    BY <1>1, <1>2
  <2> DEFINE t == Tail(hub)
  <2>2. /\ t \in Seq(Session) /\ Len(t) = Len(hub) - 1
        /\ \A i \in 1..Len(t) : t[i] = hub[i + 1]
    BY <1>1, <2>1, HeadTailProperties
  <2>3. Prune(hub) = t
    BY <1>2 DEF Prune
  <2> HIDE DEF t
  <2>4. \A i \in 1..Len(t) : i + 1 \in DOMAIN hub /\ t[i] = hub[i + 1]
    BY <1>1, <2>2
  <2> QED BY <1>1, <1>2, <2>2, <2>3, <2>4
<1>3. CASE ~(Len(hub) + 1 > MaxSessions)
  <2>1. Prune(hub) = hub
    BY <1>3 DEF Prune
  <2>2. \A i \in 1..Len(hub) : i + 0 \in DOMAIN hub /\ hub[i] = hub[i + 0]
    BY <1>1
  <2> QED BY <1>1, <1>3, <2>1, <2>2
<1> QED BY <1>2, <1>3

LEMMA HubAccepted ==
  ASSUME ChannelAssumption, Types, HubBounded, NEW sid \in Nat, hub' = Accepted(sid)
  PROVE  /\ hub' \in Seq(Session) /\ HubBounded'
         /\ hub'[Len(hub')] = [sid |-> sid, next |-> 0]
         /\ \E k \in {0, 1} : \A i \in DOMAIN hub' :
              i # Len(hub') => i + k \in DOMAIN hub /\ hub'[i] = hub[i + k]
<1> DEFINE h == Prune(hub)
           s == [sid |-> sid, next |-> 0]
           w == Append(h, s)
<1>1. h \in Seq(Session) /\ Len(h) < MaxSessions /\ s \in Session /\ MaxSessions \in Nat
  BY Pruned DEF Session, ChannelAssumption
<1>2. PICK k \in {0, 1} : \A i \in 1..Len(h) : i + k \in DOMAIN hub /\ h[i] = hub[i + k]
  BY Pruned
<1>3. hub' = w
  BY DEF Accepted
<1> HIDE DEF h, s
<1>4. /\ w \in Seq(Session) /\ Len(w) = Len(h) + 1 /\ w[Len(h) + 1] = s /\ Len(h) \in Nat
      /\ \A i \in 1..Len(h) : w[i] = h[i]
      /\ DOMAIN w = 1..Len(w)
  BY <1>1, AppendProperties, LenProperties
<1> HIDE DEF w
<1>5. \A i \in DOMAIN hub' : i # Len(hub') => i + k \in DOMAIN hub /\ hub'[i] = hub[i + k]
  BY <1>2, <1>3, <1>4
<1>6. HubBounded'
  BY <1>1, <1>3, <1>4 DEF HubBounded
<1> QED BY <1>3, <1>4, <1>5, <1>6 DEF s

LEMMA HubForgot ==
  ASSUME ChannelAssumption, Types, HubBounded, NEW n \in DOMAIN hub, hub' = Forget(n)
  PROVE  /\ hub' \in Seq(Session) /\ HubBounded'
         /\ \A i \in DOMAIN hub' : \E k \in {0, 1} :
              i + k \in DOMAIN hub /\ hub'[i] = hub[i + k] /\ (k = 0 <=> i < n)
<1>1. hub \in Seq(Session) /\ Len(hub) \in Nat /\ n \in 1..Len(hub) /\ DOMAIN hub = 1..Len(hub)
      /\ \A i \in 1..Len(hub) : hub[i] \in Session
  BY LenProperties, ElementOfSeq DEF Types
<1> DEFINE a == SubSeq(hub, 1, n - 1)
           b == SubSeq(hub, n + 1, Len(hub))
           w == a \o b
<1>2. /\ a \in Seq(Session) /\ Len(a) = n - 1
      /\ \A i \in 1..(n - 1) : a[i] = hub[i]
  <2>1. \A i \in 1..(n - 1) : hub[i] \in Session
    BY <1>1
  <2> QED BY <1>1, <2>1, SubSeqProperties
<1>3. /\ b \in Seq(Session) /\ Len(b) = Len(hub) - n
      /\ \A i \in 1..(Len(hub) - n) : b[i] = hub[n + i]
  <2>1. \A i \in (n + 1)..Len(hub) : hub[i] \in Session
    BY <1>1
  <2>2. n + 1 \in Int /\ Len(hub) \in Int /\ (n + 1) + 0 = n + 1
    BY <1>1
  <2>3. /\ b \in Seq(Session)
        /\ Len(b) = IF n + 1 <= Len(hub) THEN Len(hub) - (n + 1) + 1 ELSE 0
        /\ \A i \in 1..(Len(hub) - (n + 1) + 1) : b[i] = hub[n + 1 + i - 1]
    BY <2>1, <2>2, SubSeqProperties
  <2> HIDE DEF b
  <2>4. Len(b) = Len(hub) - n /\ Len(hub) - (n + 1) + 1 = Len(hub) - n
    BY <1>1, <2>3
  <2>5. \A i \in 1..(Len(hub) - n) : n + 1 + i - 1 = n + i
    BY <1>1
  <2> QED BY <2>3, <2>4, <2>5
<1> HIDE DEF a, b
<1>4. /\ w \in Seq(Session) /\ Len(w) = Len(a) + Len(b)
      /\ \A i \in 1..(Len(a) + Len(b)) : w[i] = IF i <= Len(a) THEN a[i] ELSE b[i - Len(a)]
  BY <1>2, <1>3, ConcatProperties
<1>5. hub' = w
  BY DEF Forget, RemoveAt, a, b
<1>6. DOMAIN w = 1..Len(w)
  BY <1>4, LenProperties
<1> HIDE DEF w
<1> DEFINE m == Len(hub)
           la == Len(a)
<1>7. m \in Nat /\ n \in 1..m /\ la = n - 1 /\ Len(b) = m - n
  BY <1>1, <1>2, <1>3
<1>8. DOMAIN w = 1..(la + (m - n))
  BY <1>4, <1>6, <1>7
<1>9. \A i \in 1..(la + (m - n)) : w[i] = IF i <= la THEN a[i] ELSE b[i - la]
  BY <1>4, <1>7
<1>10. \A i \in 1..(n - 1) : a[i] = hub[i]
  BY <1>2
<1>11. \A i \in 1..(m - n) : b[i] = hub[n + i]
  BY <1>3
<1>12. DOMAIN hub = 1..m
  BY <1>1
<1> HIDE DEF m, la
<1>13. ASSUME NEW i \in DOMAIN w
       PROVE  /\ i \in 1..(m - 1)
              /\ i < n => w[i] = hub[i]
              /\ ~(i < n) => w[i] = hub[i + 1]
  <2>1. i \in 1..(m - 1) /\ i \in 1..(la + (m - n)) /\ i \in Int
    BY <1>7, <1>8
  <2>2. CASE i < n
    <3>1. i <= la /\ i \in 1..(n - 1)
      BY <1>7, <2>1, <2>2
    <3> QED BY <1>9, <1>10, <2>1, <2>2, <3>1
  <2>3. CASE ~(i < n)
    <3>1. ~(i <= la) /\ i - la \in 1..(m - n) /\ n + (i - la) = i + 1
      BY <1>7, <2>1, <2>3
    <3>2. w[i] = b[i - la]
      BY <1>9, <2>1, <3>1
    <3>3. b[i - la] = hub[n + (i - la)]
      BY <1>11, <3>1
    <3> QED BY <2>1, <2>3, <3>1, <3>2, <3>3
  <2> QED BY <2>2, <2>3
<1>14. ASSUME NEW i \in DOMAIN w
       PROVE  \E k \in {0, 1} : i + k \in DOMAIN hub /\ w[i] = hub[i + k] /\ (k = 0 <=> i < n)
  <2>1. CASE i < n
    <3>1. i + 0 \in DOMAIN hub /\ w[i] = hub[i + 0]
      BY <1>7, <1>12, <1>13, <2>1
    <3> QED BY <2>1, <3>1
  <2>2. CASE ~(i < n)
    <3>1. i + 1 \in DOMAIN hub /\ w[i] = hub[i + 1]
      BY <1>7, <1>12, <1>13, <2>2
    <3> QED BY <2>2, <3>1
  <2> QED BY <2>1, <2>2
<1>15. Len(w) <= MaxSessions
  <2>1. Len(w) = la + (m - n)
    BY <1>4, <1>7 DEF la
  <2>2. m <= MaxSessions /\ MaxSessions \in Nat
    BY DEF HubBounded, ChannelAssumption, m
  <2> QED BY <1>7, <2>1, <2>2
<1> QED BY <1>4, <1>5, <1>14, <1>15 DEF HubBounded

(* Accepting one more session, forgetting or advancing one: the map stays   *)
(* known and unique, and what was taken stays taken.                        *)
LEMMA EstablishHub ==
  ASSUME ChannelAssumption, Inv, hub' = Accepted(opened + 1), opened' = opened + 1,
         \A n \in 1..opened : mine'[n] = mine[n], mine'[opened + 1].next = 0, calls' = calls
  PROVE  /\ hub' \in Seq(Session) /\ HubBounded' /\ HubKnown' /\ HubUnique'
         /\ \A c \in Calls : Taken(c) => Taken(c)'
<1>1. Types /\ HubBounded /\ HubKnown /\ HubUnique /\ Numbered /\ opened \in Nat /\ opened + 1 \in Nat
  BY DEF Inv, Types
<1>2. /\ hub' \in Seq(Session) /\ HubBounded'
      /\ hub'[Len(hub')] = [sid |-> opened + 1, next |-> 0]
  BY <1>1, HubAccepted
<1>3. PICK k \in {0, 1} : \A i \in DOMAIN hub' :
        i # Len(hub') => i + k \in DOMAIN hub /\ hub'[i] = hub[i + k]
  BY <1>1, HubAccepted
<1>4. hub \in Seq(Session) /\ DOMAIN hub' = 1..Len(hub') /\ DOMAIN hub = 1..Len(hub) /\ Len(hub') \in Nat
  BY <1>1, <1>2, LenProperties DEF Types
<1>5. \A i \in DOMAIN hub : hub[i].sid \in 1..opened /\ hub[i].next <= mine[hub[i].sid].next
  BY <1>1 DEF HubKnown
<1>6. ASSUME NEW i \in DOMAIN hub'
      PROVE  hub'[i].sid \in 1..(opened + 1) /\ hub'[i].next <= mine'[hub'[i].sid].next
  <2>1. CASE i = Len(hub')
    <3>1. hub'[i].sid = opened + 1 /\ hub'[i].next = 0
      BY <1>2, <2>1
    <3> QED BY <1>1, <3>1
  <2>2. CASE i # Len(hub')
    <3>1. i + k \in DOMAIN hub /\ hub'[i] = hub[i + k]
      BY <1>3, <2>2
    <3>2. hub[i + k].sid \in 1..opened /\ hub[i + k].next <= mine[hub[i + k].sid].next
      BY <1>5, <3>1
    <3> QED BY <1>1, <3>1, <3>2
  <2> QED BY <2>1, <2>2
<1>7. HubKnown'
  BY <1>6 DEF HubKnown
<1>8. ASSUME NEW i \in DOMAIN hub', NEW j \in DOMAIN hub', hub'[i].sid = hub'[j].sid
      PROVE  i = j
  <2>1. \A n \in DOMAIN hub' : n = Len(hub') \/ (n + k \in DOMAIN hub /\ hub'[n] = hub[n + k] /\ hub'[n].sid # opened + 1)
    <3> SUFFICES ASSUME NEW n \in DOMAIN hub', n # Len(hub')
                 PROVE  n + k \in DOMAIN hub /\ hub'[n] = hub[n + k] /\ hub'[n].sid # opened + 1
      OBVIOUS
    <3>1. n + k \in DOMAIN hub /\ hub'[n] = hub[n + k]
      BY <1>3
    <3>2. hub[n + k].sid \in 1..opened
      BY <1>5, <3>1
    <3> QED BY <1>1, <3>1, <3>2
  <2>2. hub'[Len(hub')].sid = opened + 1
    BY <1>2
  <2>3. CASE i = Len(hub') \/ j = Len(hub')
    BY <1>8, <2>1, <2>2, <2>3
  <2>4. CASE i # Len(hub') /\ j # Len(hub')
    <3>1. i + k \in DOMAIN hub /\ j + k \in DOMAIN hub /\ hub[i + k].sid = hub[j + k].sid
      BY <1>8, <2>1, <2>4
    <3>2. i + k = j + k
      BY <1>1, <3>1 DEF HubUnique
    <3> QED BY <1>4, <3>2
  <2> QED BY <2>3, <2>4
<1>9. HubUnique'
  BY <1>8 DEF HubUnique
<1>10. ASSUME NEW c \in Calls, Taken(c)
       PROVE  Taken(c)'
  <2>1. /\ Asked(c) /\ Asked(c)' /\ calls'[c] = calls[c]
        /\ \A i \in DOMAIN hub : hub[i].sid = calls[c].sid => hub[i].next > calls[c].seq
    BY <1>10 DEF Taken, Asked
  <2>2. calls[c].sid \in 1..opened
    BY <1>1, <2>1 DEF Numbered
  <2>3. ASSUME NEW i \in DOMAIN hub', hub'[i].sid = calls[c].sid
        PROVE  hub'[i].next > calls[c].seq
    <3>1. i # Len(hub')
      BY <1>1, <1>2, <2>2, <2>3
    <3>2. i + k \in DOMAIN hub /\ hub'[i] = hub[i + k]
      BY <1>3, <3>1
    <3> QED BY <2>1, <2>3, <3>2
  <2> QED BY <2>1, <2>3 DEF Taken
<1> QED BY <1>2, <1>7, <1>9, <1>10

LEMMA ExpireHub ==
  ASSUME ChannelAssumption, Inv, NEW n \in DOMAIN hub, hub' = Forget(n),
         UNCHANGED <<opened, mine, calls>>
  PROVE  /\ hub' \in Seq(Session) /\ HubBounded' /\ HubKnown' /\ HubUnique'
         /\ \A c \in Calls : Taken(c) => Taken(c)'
<1>1. Types /\ HubBounded /\ HubKnown /\ HubUnique
  BY DEF Inv
<1>2. /\ hub' \in Seq(Session) /\ HubBounded'
      /\ \A i \in DOMAIN hub' : \E k \in {0, 1} :
              i + k \in DOMAIN hub /\ hub'[i] = hub[i + k] /\ (k = 0 <=> i < n)
  BY <1>1, HubForgot
<1>3. HubKnown'
  BY <1>1, <1>2 DEF HubKnown
<1>4. DOMAIN hub' = 1..Len(hub') /\ DOMAIN hub = 1..Len(hub) /\ Len(hub') \in Nat /\ Len(hub) \in Nat
  BY <1>1, <1>2, LenProperties DEF Types
<1>5. ASSUME NEW i \in DOMAIN hub', NEW j \in DOMAIN hub', hub'[i].sid = hub'[j].sid
      PROVE  i = j
  <2>1. PICK k \in {0, 1} : i + k \in DOMAIN hub /\ hub'[i] = hub[i + k] /\ (k = 0 <=> i < n)
    BY <1>2
  <2>2. PICK l \in {0, 1} : j + l \in DOMAIN hub /\ hub'[j] = hub[j + l] /\ (l = 0 <=> j < n)
    BY <1>2
  <2>3. i + k = j + l
    BY <1>1, <1>5, <2>1, <2>2 DEF HubUnique
  <2>4. i \in Int /\ j \in Int /\ n \in Int
    BY <1>4
  <2> QED BY <2>1, <2>2, <2>3, <2>4
<1>6. HubUnique'
  BY <1>5 DEF HubUnique
<1>7. \A c \in Calls : Taken(c) => Taken(c)'
  BY <1>2 DEF Taken, Asked
<1> QED BY <1>2, <1>3, <1>6, <1>7

LEMMA AdvanceHub ==
  ASSUME Inv, NEW n \in DOMAIN hub, NEW f \in Requests, About(f),
         hub[n].sid = f.sid, hub[n].next = f.seq, hub' = Advanced(n),
         UNCHANGED <<opened, mine, calls>>
  PROVE  /\ hub' \in Seq(Session) /\ HubBounded' /\ HubKnown' /\ HubUnique'
         /\ \A c \in Calls : Taken(c) => Taken(c)'
         /\ ~Taken(f.c) /\ Taken(f.c)'
<1>1. Types /\ HubBounded /\ HubKnown /\ HubUnique /\ Numbered /\ hub \in Seq(Session)
  BY DEF Inv, Types
<1>2. DOMAIN hub = 1..Len(hub) /\ Len(hub) \in Nat /\ \A i \in DOMAIN hub : hub[i] \in Session
  BY <1>1, LenProperties, ElementOfSeq
<1>3. hub' = [hub EXCEPT ![n] = [hub[n] EXCEPT !.next = hub[n].next + 1]]
  BY DEF Advanced
<1>4. /\ [hub[n] EXCEPT !.next = hub[n].next + 1] \in Session
      /\ [hub[n] EXCEPT !.next = hub[n].next + 1].sid = hub[n].sid
      /\ [hub[n] EXCEPT !.next = hub[n].next + 1].next = hub[n].next + 1
  BY <1>2 DEF Session
<1>5. hub' \in Seq(Session) /\ Len(hub') = Len(hub)
  BY <1>1, <1>2, <1>3, <1>4, ExceptSeq
<1>6. DOMAIN hub' = DOMAIN hub
  BY <1>2, <1>5, LenProperties
<1>7. \A i \in DOMAIN hub : i # n => hub'[i] = hub[i]
  BY <1>3, <1>2
<1>8. hub'[n].sid = hub[n].sid /\ hub'[n].next = hub[n].next + 1
  BY <1>2, <1>3, <1>4
<1>9. \A i \in DOMAIN hub : hub'[i].sid = hub[i].sid
  BY <1>7, <1>8
<1>10. f.c \in Calls /\ Asked(f.c) /\ f.sid = calls[f.c].sid /\ f.seq = calls[f.c].seq
       /\ f.sid \in 1..opened /\ f.seq < mine[f.sid].next /\ f.seq \in Nat /\ mine[f.sid].next \in Nat
  <2>1. f \in Frame /\ f.c \in Calls /\ f.seq \in Nat
    BY DEF Requests, Frame
  <2>2. f.sid \in 1..opened /\ f.seq < mine[f.sid].next
    BY <1>1, <2>1 DEF About, Numbered
  <2>3. mine \in Seq(Own) /\ Len(mine) = opened
    BY <1>1 DEF Types
  <2>4. mine[f.sid] \in Own
    BY <2>2, <2>3, ElementOfSeq
  <2> QED BY <2>1, <2>2, <2>4 DEF About, Own
<1>11. HubKnown'
  <2> SUFFICES ASSUME NEW i \in DOMAIN hub
               PROVE  hub'[i].sid \in 1..opened /\ hub'[i].next <= mine[hub'[i].sid].next
    BY <1>6 DEF HubKnown
  <2>1. CASE i = n
    <3>1. hub'[i].sid = f.sid /\ hub'[i].next = f.seq + 1
      BY <1>8, <2>1
    <3> QED BY <1>10, <3>1
  <2>2. CASE i # n
    BY <1>1, <1>7, <2>2 DEF HubKnown
  <2> QED BY <2>1, <2>2
<1>12. HubUnique'
  BY <1>1, <1>6, <1>9 DEF HubUnique
<1>13. ASSUME NEW c \in Calls, Taken(c)
       PROVE  Taken(c)'
  <2>1. /\ Asked(c) /\ Asked(c)' /\ calls'[c] = calls[c]
        /\ \A i \in DOMAIN hub : hub[i].sid = calls[c].sid => hub[i].next > calls[c].seq
    BY <1>13 DEF Taken, Asked
  <2>2. ASSUME NEW i \in DOMAIN hub, hub[i].sid = calls[c].sid
        PROVE  hub'[i].next > calls[c].seq
    <3>1. hub[i].next > calls[c].seq /\ hub[i].next \in Nat /\ calls[c].seq \in Nat
      BY <1>1, <1>2, <2>1, <2>2 DEF Types, Session
    <3>2. hub'[i].next = hub[i].next \/ hub'[i].next = hub[i].next + 1
      BY <1>7, <1>8
    <3> QED BY <3>1, <3>2
  <2> QED BY <1>6, <1>9, <2>1, <2>2 DEF Taken
<1>14. ~Taken(f.c)
  BY <1>10 DEF Taken
<1>15. Taken(f.c)'
  <2>1. Asked(f.c)' /\ calls'[f.c] = calls[f.c]
    BY <1>10 DEF Asked
  <2>2. ASSUME NEW i \in DOMAIN hub, hub'[i].sid = calls[f.c].sid
        PROVE  hub'[i].next > calls[f.c].seq
    <3>1. i = n
      BY <1>1, <1>9, <1>10, <2>2 DEF HubUnique
    <3> QED BY <1>8, <1>10, <3>1
  <2> QED BY <1>6, <2>1, <2>2 DEF Taken
<1> QED BY <1>1, <1>5, <1>11, <1>12, <1>13, <1>14, <1>15 DEF HubBounded

(* What a session of the caller that is closed, or one that is added, does  *)
(* to the others: nothing.                                                  *)
LEMMA MineClosed ==
  ASSUME Types, NEW sid \in 1..opened, Close(sid)
  PROVE  /\ mine' \in Seq(Own) /\ Len(mine') = opened
         /\ \A n \in 1..opened : mine'[n].next = mine[n].next
<1>1. mine \in Seq(Own) /\ Len(mine) = opened /\ sid \in 1..Len(mine) /\ DOMAIN mine = 1..Len(mine)
      /\ \A n \in 1..Len(mine) : mine[n] \in Own
  BY LenProperties, ElementOfSeq DEF Types
<1>2. mine' = [mine EXCEPT ![sid] = [mine[sid] EXCEPT !.closed = TRUE]]
  BY DEF Close
<1>3. [mine[sid] EXCEPT !.closed = TRUE] \in Own
      /\ [mine[sid] EXCEPT !.closed = TRUE].next = mine[sid].next
  BY <1>1 DEF Own
<1>4. mine' \in Seq(Own) /\ Len(mine') = Len(mine)
  BY <1>1, <1>2, <1>3, ExceptSeq
<1>5. \A n \in 1..opened : mine'[n].next = mine[n].next
  BY <1>1, <1>2, <1>3
<1> QED BY <1>1, <1>4, <1>5

LEMMA MineAppended ==
  ASSUME Types, NEW r \in Own, mine' = Append(mine, r)
  PROVE  /\ mine' \in Seq(Own) /\ Len(mine') = opened + 1 /\ mine'[opened + 1] = r
         /\ \A n \in 1..opened : mine'[n] = mine[n]
<1>1. mine \in Seq(Own) /\ Len(mine) = opened
  BY DEF Types
<1> QED BY <1>1, AppendProperties

(* The keys and numbers of the sessions stay, calls that were asked stay    *)
(* about what they are about, and frames at most go: all that settles a     *)
(* call, loses a frame or closes a session.                                 *)
LEMMA SettledKeeps ==
  ASSUME Inv, calls' \in [Calls -> [st : States, sid : Nat, seq : Nat]],
         \A c \in Calls : /\ Asked(c)' <=> Asked(c)
                          /\ calls'[c].sid = calls[c].sid /\ calls'[c].seq = calls[c].seq,
         \/ mine' = mine
         \/ \E sid \in 1..opened : Close(sid),
         net' \subseteq net, faults' \in Nat, UNCHANGED <<hub, opened, seen, handling, ran>>
  PROVE  Inv'
<1>1. Types /\ HubBounded /\ HubKnown /\ HubUnique /\ Numbered /\ FramesAbout /\ Once
  BY DEF Inv
<1>2. /\ mine' \in Seq(Own) /\ Len(mine') = opened
      /\ \A n \in 1..opened : mine'[n].next = mine[n].next
  BY <1>1, MineClosed DEF Types
<1>3. Types'
  BY <1>1, <1>2 DEF Types
<1>4. HubBounded' /\ HubUnique'
  BY <1>1 DEF HubBounded, HubUnique
<1>5. HubKnown'
  BY <1>1, <1>2 DEF HubKnown
<1>6. Numbered'
  BY <1>1, <1>2 DEF Numbered
<1>7. \A f \in net \cup seen \cup handling : f.c \in Calls
  BY <1>1 DEF Types, Frame, Requests
<1>8. FramesAbout'
  BY <1>1, <1>7 DEF FramesAbout, About
<1>9. \A c \in Calls : Taken(c) => Taken(c)'
  BY DEF Taken
<1>10. Once'
  BY <1>1, <1>7, <1>9 DEF Once
<1> QED BY <1>3, <1>4, <1>5, <1>6, <1>8, <1>10 DEF Inv

(* No call, number or frame changes, and the map of the peer keeps what it  *)
(* promises: a session expires, or the peer starts again.                   *)
LEMMA HubKeeps ==
  ASSUME Inv, hub' \in Seq(Session) /\ HubBounded' /\ HubKnown' /\ HubUnique',
         \A c \in Calls : Taken(c) => Taken(c)',
         handling' \subseteq handling, faults' \in Nat, UNCHANGED <<opened, mine, calls, net, seen, ran>>
  PROVE  Inv'
<1>1. Types /\ Numbered /\ FramesAbout /\ Once
  BY DEF Inv
<1>2. Types'
  BY <1>1 DEF Types
<1>3. Numbered'
  BY <1>1 DEF Numbered, Asked
<1>4. FramesAbout'
  BY <1>1 DEF FramesAbout, About, Asked
<1>5. \A f \in net \cup handling : f.c \in Calls
  BY <1>1 DEF Types, Frame, Requests
<1>6. Once'
  BY <1>1, <1>5 DEF Once
<1> QED BY <1>2, <1>3, <1>4, <1>6 DEF Inv

(* The actions, one by one.                                                 *)
LEMMA EstablishKeeps ==
  ASSUME ChannelAssumption, Inv, Establish
  PROVE  Inv'
<1>1. Types /\ Numbered /\ FramesAbout /\ Once /\ opened \in Nat /\ faults \in Nat
  BY DEF Inv, Types
<1>2. PICK r \in Own : mine' = Append(mine, r) /\ r.next = 0
  <2> DEFINE open == [next |-> 0, closed |-> FALSE]
             lost == [next |-> 0, closed |-> TRUE]
  <2>1. open \in Own /\ lost \in Own /\ open.next = 0 /\ lost.next = 0
    BY DEF Own
  <2>2. mine' = Append(mine, open) \/ mine' = Append(mine, lost)
    BY DEF Establish
  <2> HIDE DEF open, lost
  <2> QED BY <2>1, <2>2
<1>3. opened' = opened + 1 /\ hub' = Accepted(opened + 1) /\ faults' \in Nat
      /\ UNCHANGED <<calls, net, seen, handling, ran>>
  BY <1>1 DEF Establish, Fault
<1>4. /\ mine' \in Seq(Own) /\ Len(mine') = opened + 1 /\ mine'[opened + 1] = r
      /\ \A n \in 1..opened : mine'[n] = mine[n]
  BY <1>1, <1>2, MineAppended
<1>5. /\ hub' \in Seq(Session) /\ HubBounded' /\ HubKnown' /\ HubUnique'
      /\ \A c \in Calls : Taken(c) => Taken(c)'
  BY <1>2, <1>3, <1>4, EstablishHub
<1>6. Types'
  BY <1>1, <1>3, <1>4, <1>5 DEF Types
<1>7. Numbered'
  <2> SUFFICES ASSUME NEW c \in Calls, Asked(c)
               PROVE  calls[c].sid \in 1..(opened + 1) /\ calls[c].seq < mine'[calls[c].sid].next
    BY <1>3 DEF Numbered, Asked
  <2>1. calls[c].sid \in 1..opened /\ calls[c].seq < mine[calls[c].sid].next
    BY <1>1 DEF Numbered
  <2> QED BY <1>1, <1>4, <2>1
<1>8. FramesAbout'
  BY <1>1, <1>3 DEF FramesAbout, About, Asked
<1>9. \A f \in net \cup handling : f.c \in Calls
  BY <1>1 DEF Types, Frame, Requests
<1>10. Once'
  BY <1>1, <1>3, <1>5, <1>9 DEF Once
<1> QED BY <1>5, <1>6, <1>7, <1>8, <1>10 DEF Inv

LEMMA RequestKeeps ==
  ASSUME Inv, NEW c \in Calls, NEW sid \in 1..Len(mine), Request(c, sid)
  PROVE  Inv'
<1> DEFINE q == mine[sid].next
           f == [kind |-> "request", sid |-> sid, seq |-> q, c |-> c]
           S == [st : States, sid : Nat, seq : Nat]
<1>1. Types /\ HubBounded /\ HubKnown /\ HubUnique /\ Numbered /\ FramesAbout /\ Once /\ opened \in Nat
      /\ Len(mine) = opened /\ mine \in Seq(Own) /\ calls \in [Calls -> S]
  BY DEF Inv, Types
<1>2. sid \in 1..opened /\ sid \in Nat /\ mine[sid] \in Own /\ q \in Nat
  <2>1. mine[sid] \in Own
    BY <1>1, ElementOfSeq
  <2>2. q \in Nat
    BY <2>1 DEF Own
  <2> QED BY <1>1, <2>1, <2>2
<1>3. calls[c].st = "idle" /\ UNCHANGED <<hub, opened, handling, ran, faults>> /\ ~Asked(c)
  BY DEF Request, Asked
<1>4. CASE mine[sid].closed
  <2>1. calls' = [calls EXCEPT ![c].st = "refused"] /\ UNCHANGED <<mine, net, seen>>
    BY <1>4 DEF Request
  <2>2. calls' \in [Calls -> S]
    BY <1>1, <2>1 DEF States
  <2>3. \A d \in Calls : /\ Asked(d)' <=> Asked(d)
                         /\ calls'[d].sid = calls[d].sid /\ calls'[d].seq = calls[d].seq
    BY <1>1, <1>3, <2>1 DEF Asked
  <2> QED BY <1>1, <1>3, <2>1, <2>2, <2>3, SettledKeeps DEF Types
<1>5. CASE ~mine[sid].closed
  <2>1. /\ calls' = [calls EXCEPT ![c] = [st |-> "asked", sid |-> sid, seq |-> q]]
        /\ mine' = [mine EXCEPT ![sid] = [mine[sid] EXCEPT !.next = q + 1]]
        /\ net' = net \cup {f} /\ seen' = seen \cup {f}
    BY <1>5 DEF Request
  <2>2. calls' \in [Calls -> S]
    BY <1>1, <1>2, <2>1 DEF States
  <2>3. \A d \in Calls : d # c => calls'[d] = calls[d]
    BY <1>1, <2>1
  <2>4. calls'[c] = [st |-> "asked", sid |-> sid, seq |-> q]
    BY <1>1, <2>1
  <2>5. [mine[sid] EXCEPT !.next = q + 1] \in Own /\ [mine[sid] EXCEPT !.next = q + 1].next = q + 1
    BY <1>2 DEF Own
  <2>6. mine' \in Seq(Own) /\ Len(mine') = opened
    BY <1>1, <1>2, <2>1, <2>5, ExceptSeq
  <2>7. DOMAIN mine = 1..opened
    BY <1>1, LenProperties
  <2>8. \A n \in 1..opened : n # sid => mine'[n] = mine[n]
    BY <2>1, <2>7
  <2>9. mine'[sid].next = q + 1
    BY <1>2, <2>1, <2>5, <2>7
  <2> HIDE DEF q
  <2>10. f \in Requests /\ f \in Frame /\ f.c = c /\ f.kind # "answer"
    BY <1>2 DEF Requests, Frame
  <2>11. Types'
    BY <1>1, <1>3, <2>2, <2>6, <2>1, <2>10 DEF Types
  <2>12. HubKnown'
    <3> SUFFICES ASSUME NEW i \in DOMAIN hub
                 PROVE  hub[i].sid \in 1..opened /\ hub[i].next <= mine'[hub[i].sid].next
      BY <1>3 DEF HubKnown
    <3>1. hub[i].sid \in 1..opened /\ hub[i].next <= mine[hub[i].sid].next
      BY <1>1 DEF HubKnown
    <3>2. hub[i].next \in Nat
      <4>1. hub \in Seq(Session) /\ i \in 1..Len(hub)
        BY <1>1, LenProperties DEF Types
      <4>2. hub[i] \in Session
        BY <4>1, ElementOfSeq
      <4> QED BY <4>2 DEF Session
    <3>3. CASE hub[i].sid = sid
      <4>1. mine'[hub[i].sid].next = q + 1 /\ hub[i].next <= q
        BY <2>9, <3>1, <3>3 DEF q
      <4> QED BY <1>2, <3>1, <3>2, <4>1
    <3> QED BY <2>8, <3>1, <3>3
  <2>13. HubBounded' /\ HubUnique'
    BY <1>1, <1>3 DEF HubBounded, HubUnique
  <2>14. Numbered'
    <3> SUFFICES ASSUME NEW d \in Calls, Asked(d)'
                 PROVE  calls'[d].sid \in 1..opened /\ calls'[d].seq < mine'[calls'[d].sid].next
      BY <1>3 DEF Numbered
    <3>1. CASE d = c
      <4>1. calls'[d].sid = sid /\ calls'[d].seq = q
        BY <2>4, <3>1
      <4> QED BY <1>2, <2>9, <4>1
    <3>2. CASE d # c
      <4>1. calls'[d] = calls[d] /\ Asked(d)
        BY <2>3, <3>2 DEF Asked
      <4>2. calls[d].sid \in 1..opened /\ calls[d].seq < mine[calls[d].sid].next /\ calls[d].seq \in Nat
        BY <1>1, <4>1 DEF Numbered
      <4>3. CASE calls[d].sid = sid
        <5>1. mine'[calls[d].sid].next = q + 1 /\ calls[d].seq < q
          BY <2>9, <4>2, <4>3 DEF q
        <5> QED BY <1>2, <4>1, <4>2, <5>1
      <4> QED BY <2>8, <4>1, <4>2, <4>3
    <3> QED BY <3>1, <3>2
  <2>15. \A g \in net \cup seen \cup handling : About(g) /\ g.c \in Calls /\ g.c # c
    BY <1>1, <1>3 DEF FramesAbout, About, Types, Frame, Requests
  <2>16. FramesAbout'
    <3> SUFFICES ASSUME NEW g \in net' \cup seen' \cup handling' PROVE About(g)'
      BY DEF FramesAbout
    <3>1. CASE g = f
      BY <2>4, <3>1 DEF About, Asked
    <3>2. CASE g # f
      <4>1. g \in net \cup seen \cup handling
        BY <1>3, <2>1, <3>2
      <4> QED BY <2>3, <2>15, <4>1 DEF About, Asked
    <3> QED BY <3>1, <3>2
  <2>17. \A d \in Calls : Taken(d) => Taken(d)' /\ d # c
    BY <1>3, <2>3 DEF Taken, Asked
  <2>18. Once'
    <3>1. \A g \in handling' : Taken(g.c)' /\ ran'[g.c] = 0
      BY <1>1, <1>3, <2>15, <2>17 DEF Once
    <3>2. \A d \in Calls : ran'[d] = 1 => Taken(d)'
      BY <1>1, <1>3, <2>17 DEF Once
    <3>3. \A g \in net' : g.kind = "answer" => ran'[g.c] = 1
      BY <1>1, <1>3, <2>1, <2>10 DEF Once
    <3> QED BY <3>1, <3>2, <3>3 DEF Once
  <2> QED BY <2>11, <2>12, <2>13, <2>14, <2>16, <2>18 DEF Inv
<1> QED BY <1>4, <1>5

(* A request comes to the peer: it is taken, if it is the next one of its   *)
(* session, and its call was not taken before; or it is refused.            *)
LEMMA OpenKeeps ==
  ASSUME Inv, NEW f \in Requests, About(f), NEW refused \in SUBSET Frame,
         \A g \in refused : About(g) /\ g.kind # "answer",
         OpenRequest(f, refused), faults' \in Nat, UNCHANGED <<opened, mine, calls, seen, ran>>
  PROVE  Inv'
<1>1. Types /\ HubBounded /\ HubKnown /\ HubUnique /\ Numbered /\ FramesAbout /\ Once
  BY DEF Inv
<1>2. Numbered'
  BY <1>1 DEF Numbered, Asked
<1>3. \A g \in net \cup handling \cup seen : g.c \in Calls
  BY <1>1 DEF Types, Frame, Requests
<1>4. f.c \in Calls /\ f \in Frame
  BY DEF Requests, Frame
<1>5. CASE \E i \in Position(f.sid) : hub[i].next = f.seq
  <2>1. PICK n \in Position(f.sid) : hub' = Advanced(n)
    BY <1>5 DEF OpenRequest
  <2>2. handling' = handling \cup {f} /\ net' = net \ {f}
    BY <1>5 DEF OpenRequest
  <2>3. n \in DOMAIN hub /\ hub[n].sid = f.sid
    BY <2>1 DEF Position
  <2>4. hub[n].next = f.seq
    BY <1>1, <1>5, <2>3 DEF Position, HubUnique
  <2>5. /\ hub' \in Seq(Session) /\ HubBounded' /\ HubKnown' /\ HubUnique'
        /\ \A c \in Calls : Taken(c) => Taken(c)'
        /\ ~Taken(f.c) /\ Taken(f.c)'
    BY <2>1, <2>3, <2>4, AdvanceHub
  <2>6. Types'
    BY <1>1, <2>2, <2>5 DEF Types
  <2>7. FramesAbout'
    BY <1>1, <2>2 DEF FramesAbout, About, Asked
  <2>8. ran[f.c] = 0
    BY <1>1, <1>4, <2>5 DEF Once, Types
  <2>9. Once'
    BY <1>1, <1>3, <1>4, <2>2, <2>5, <2>8 DEF Once
  <2> QED BY <1>2, <2>5, <2>6, <2>7, <2>9 DEF Inv
<1>6. CASE ~(\E i \in Position(f.sid) : hub[i].next = f.seq)
  <2>1. net' = (net \ {f}) \cup refused /\ UNCHANGED <<hub, handling>>
    BY <1>6 DEF OpenRequest
  <2>2. Types'
    BY <1>1, <2>1 DEF Types
  <2>3. HubBounded' /\ HubKnown' /\ HubUnique'
    BY <1>1, <2>1 DEF HubBounded, HubKnown, HubUnique
  <2>4. FramesAbout'
    BY <1>1, <2>1 DEF FramesAbout, About, Asked
  <2>5. \A c \in Calls : Taken(c) => Taken(c)'
    BY <2>1 DEF Taken, Asked
  <2>6. Once'
    BY <1>1, <1>3, <2>1, <2>5 DEF Once
  <2> QED BY <1>2, <2>2, <2>3, <2>4, <2>6 DEF Inv
<1> QED BY <1>5, <1>6

LEMMA AnswerAbout ==
  ASSUME NEW f \in Frame, About(f), NEW kind \in {"answer", "error"}
  PROVE  /\ Answer(f, kind) \in Frame /\ About(Answer(f, kind))
         /\ Answer(f, kind).c = f.c /\ Answer(f, kind).kind = kind
BY DEF Answer, Frame, About, Asked

LEMMA ArriveKeeps ==
  ASSUME Inv, NEW f \in net, Arrive(f)
  PROVE  Inv'
<1>1. Types /\ FramesAbout
  BY DEF Inv
<1>2. f \in Frame /\ f \in Requests /\ About(f) /\ faults \in Nat
  BY <1>1 DEF Types, Requests, FramesAbout, Arrive
<1> DEFINE refused == {Answer(f, "error")}
<1>3. refused \in SUBSET Frame /\ \A g \in refused : About(g) /\ g.kind # "answer"
  BY <1>2, AnswerAbout
<1>4. OpenRequest(f, refused) /\ UNCHANGED <<opened, mine, calls, seen, ran>> /\ faults' \in Nat
  BY <1>2 DEF Arrive
<1> HIDE DEF refused
<1> QED BY <1>2, <1>3, <1>4, OpenKeeps

LEMMA ReplayKeeps ==
  ASSUME Inv, NEW f \in seen, Replay(f)
  PROVE  Inv'
<1>1. Types /\ FramesAbout
  BY DEF Inv
<1>2. f \in Requests /\ About(f) /\ faults' \in Nat
  BY <1>1 DEF Types, FramesAbout, Replay, Fault
<1> DEFINE refused == {}
<1>3. refused \in SUBSET Frame /\ \A g \in refused : About(g) /\ g.kind # "answer"
  OBVIOUS
<1>4. OpenRequest(f, refused) /\ UNCHANGED <<opened, mine, calls, seen, ran>>
  BY DEF Replay
<1> HIDE DEF refused
<1> QED BY <1>2, <1>3, <1>4, OpenKeeps

LEMMA OneRequest ==
  ASSUME NEW f \in Requests, NEW g \in Requests, About(f), About(g), f.c = g.c
  PROVE  f = g
<1>1. /\ f = [kind |-> f.kind, sid |-> f.sid, seq |-> f.seq, c |-> f.c]
      /\ g = [kind |-> g.kind, sid |-> g.sid, seq |-> g.seq, c |-> g.c]
  BY DEF Requests, Frame
<1>2. f.kind = g.kind /\ f.sid = g.sid /\ f.seq = g.seq
  BY DEF Requests, About
<1> QED BY <1>1, <1>2

(* A request that was taken is handled: its call runs, for the first time,  *)
(* or fails.                                                                *)
LEMMA DispatchKeeps ==
  ASSUME Inv, NEW f \in handling, Dispatch(f)
  PROVE  Inv'
<1>1. Types /\ HubBounded /\ HubKnown /\ HubUnique /\ Numbered /\ FramesAbout /\ Once
  BY DEF Inv
<1>2. f \in Frame /\ f.c \in Calls /\ About(f) /\ Taken(f.c) /\ ran[f.c] = 0 /\ faults \in Nat
      /\ ran \in [Calls -> {0, 1}]
  BY <1>1 DEF Types, Requests, Frame, FramesAbout, Once
<1>3. handling' = handling \ {f} /\ UNCHANGED <<hub, opened, mine, calls, seen>>
  BY DEF Dispatch
<1>4. PICK kind \in {"answer", "error"} :
        /\ net' = net \cup {Answer(f, kind)}
        /\ \/ ran' = [ran EXCEPT ![f.c] = ran[f.c] + 1]
           \/ ran' = ran /\ kind = "error"
  BY DEF Dispatch, Sealed
<1>5. ran' = [ran EXCEPT ![f.c] = 1] \/ (ran' = ran /\ kind = "error")
  BY <1>2, <1>4
<1>6. ran' \in [Calls -> {0, 1}] /\ faults' \in Nat
  BY <1>2, <1>5 DEF Dispatch, Fault
<1>7. /\ Answer(f, kind) \in Frame /\ About(Answer(f, kind))
      /\ Answer(f, kind).c = f.c /\ Answer(f, kind).kind = kind
  BY <1>2, AnswerAbout
<1>8. Types'
  BY <1>1, <1>3, <1>4, <1>6, <1>7 DEF Types
<1>9. HubBounded' /\ HubKnown' /\ HubUnique' /\ Numbered'
  BY <1>1, <1>3 DEF HubBounded, HubKnown, HubUnique, Numbered, Asked
<1>10. FramesAbout'
  BY <1>1, <1>3, <1>4, <1>7 DEF FramesAbout, About, Asked
<1>11. \A g \in handling : g \in Requests /\ About(g)
  BY <1>1 DEF Types, FramesAbout
<1>12. \A g \in handling' : g \in handling /\ g.c # f.c /\ g.c \in Calls
  BY <1>3, <1>11, OneRequest DEF Requests, Frame
<1>13. \A c \in Calls : Taken(c) => Taken(c)'
  BY <1>3 DEF Taken, Asked
<1>14. \A c \in Calls : c # f.c => ran'[c] = ran[c]
  BY <1>2, <1>5
<1>15. \A g \in handling' : Taken(g.c)' /\ ran'[g.c] = 0
  BY <1>1, <1>12, <1>13, <1>14 DEF Once
<1>16. \A c \in Calls : ran'[c] = 1 => Taken(c)'
  BY <1>1, <1>2, <1>13, <1>14 DEF Once
<1>17. \A g \in net' : g.kind = "answer" => ran'[g.c] = 1
  <2> SUFFICES ASSUME NEW g \in net', g.kind = "answer" PROVE ran'[g.c] = 1
    OBVIOUS
  <2>1. CASE g = Answer(f, kind)
    BY <1>2, <1>5, <1>7, <2>1
  <2>2. CASE g \in net
    <3>1. ran[g.c] = 1 /\ g.c \in Calls
      BY <1>1, <2>2 DEF Once, Types, Frame
    <3> QED BY <1>2, <1>14, <3>1
  <2> QED BY <1>4, <2>1, <2>2
<1>18. Once'
  BY <1>15, <1>16, <1>17 DEF Once
<1> QED BY <1>8, <1>9, <1>10, <1>18 DEF Inv

(* A call settles: its state changes, and at most its session is closed.    *)
LEMMA SettledCall ==
  ASSUME Inv, NEW c \in Calls, NEW st \in {"done", "failed"}, Asked(c),
         calls' = [calls EXCEPT ![c].st = st]
  PROVE  /\ calls' \in [Calls -> [st : States, sid : Nat, seq : Nat]]
         /\ \A d \in Calls : /\ Asked(d)' <=> Asked(d)
                             /\ calls'[d].sid = calls[d].sid /\ calls'[d].seq = calls[d].seq
<1>1. calls \in [Calls -> [st : States, sid : Nat, seq : Nat]]
  BY DEF Inv, Types
<1>2. calls' \in [Calls -> [st : States, sid : Nat, seq : Nat]]
  BY <1>1 DEF States
<1>3. \A d \in Calls : d # c => calls'[d] = calls[d]
  BY <1>1
<1>4. calls'[c].st = st /\ calls'[c].sid = calls[c].sid /\ calls'[c].seq = calls[c].seq
  BY <1>1
<1> QED BY <1>2, <1>3, <1>4 DEF Asked

LEMMA ResponseKeeps ==
  ASSUME Inv, NEW f \in net, Response(f)
  PROVE  Inv'
<1>1. Types /\ Numbered /\ FramesAbout
  BY DEF Inv
<1>2. f.c \in Calls /\ About(f) /\ Asked(f.c) /\ f.sid \in 1..opened /\ faults' \in Nat
  BY <1>1 DEF Types, Frame, FramesAbout, About, Numbered, Response
<1>3. net' \subseteq net /\ UNCHANGED <<hub, opened, seen, handling, ran>>
  BY DEF Response
<1>4. CASE calls[f.c].st # "asked"
  <2>1. UNCHANGED <<calls, mine>>
    BY <1>4 DEF Response
  <2> QED BY <1>1, <1>2, <1>3, <2>1, SettledKeeps DEF Types, Asked
<1>5. CASE calls[f.c].st = "asked"
  <2>1. PICK st \in {"done", "failed"} : calls' = [calls EXCEPT ![f.c].st = st]
    BY <1>5 DEF Response
  <2>2. mine' = mine \/ Close(f.sid)
    BY <1>5 DEF Response
  <2>3. /\ calls' \in [Calls -> [st : States, sid : Nat, seq : Nat]]
        /\ \A d \in Calls : /\ Asked(d)' <=> Asked(d)
                            /\ calls'[d].sid = calls[d].sid /\ calls'[d].seq = calls[d].seq
    BY <1>2, <2>1, SettledCall
  <2>4. mine' = mine \/ \E sid \in 1..opened : Close(sid)
    BY <1>2, <2>2
  <2> QED BY <1>2, <1>3, <2>3, <2>4, SettledKeeps
<1> QED BY <1>4, <1>5

LEMMA TimeoutKeeps ==
  ASSUME Inv, NEW c \in Calls, Timeout(c)
  PROVE  Inv'
<1>1. Types /\ Numbered
  BY DEF Inv
<1>2. Asked(c) /\ calls[c].sid \in 1..opened
  BY <1>1 DEF Timeout, Timer, Asked, Numbered
<1>3. calls' = [calls EXCEPT ![c].st = "failed"] /\ Close(calls[c].sid)
      /\ UNCHANGED <<hub, opened, net, seen, handling, ran>>
  BY DEF Timeout
<1>4. faults' \in Nat
  BY <1>1 DEF Timeout, Fault, Types
<1>5. /\ calls' \in [Calls -> [st : States, sid : Nat, seq : Nat]]
      /\ \A d \in Calls : /\ Asked(d)' <=> Asked(d)
                          /\ calls'[d].sid = calls[d].sid /\ calls'[d].seq = calls[d].seq
  BY <1>2, <1>3, SettledCall
<1>6. \E sid \in 1..opened : Close(sid)
  BY <1>2, <1>3
<1> QED BY <1>3, <1>4, <1>5, <1>6, SettledKeeps

LEMMA LoseKeeps ==
  ASSUME Inv, NEW f \in net, Lose(f)
  PROVE  Inv'
<1>1. Types
  BY DEF Inv
<1>2. net' \subseteq net /\ faults' \in Nat /\ UNCHANGED <<hub, opened, mine, calls, seen, handling, ran>>
  BY <1>1 DEF Lose, Fault, Types
<1>3. calls' \in [Calls -> [st : States, sid : Nat, seq : Nat]]
  BY <1>1, <1>2 DEF Types
<1>4. \A d \in Calls : /\ Asked(d)' <=> Asked(d)
                       /\ calls'[d].sid = calls[d].sid /\ calls'[d].seq = calls[d].seq
  BY <1>2 DEF Asked
<1> QED BY <1>2, <1>3, <1>4, SettledKeeps

LEMMA FinallyKeeps ==
  ASSUME Inv, NEW sid \in 1..Len(mine), Finally(sid)
  PROVE  Inv'
<1>1. Types /\ Len(mine) = opened
  BY DEF Inv, Types
<1>2. Close(sid) /\ UNCHANGED <<hub, opened, calls, net, seen, handling, ran, faults>>
  BY DEF Finally
<1>3. calls' \in [Calls -> [st : States, sid : Nat, seq : Nat]] /\ faults' \in Nat /\ net' \subseteq net
  BY <1>1, <1>2 DEF Types
<1>4. \A d \in Calls : /\ Asked(d)' <=> Asked(d)
                       /\ calls'[d].sid = calls[d].sid /\ calls'[d].seq = calls[d].seq
  BY <1>2 DEF Asked
<1>5. \E n \in 1..opened : Close(n)
  BY <1>1, <1>2
<1> QED BY <1>2, <1>3, <1>4, <1>5, SettledKeeps

LEMMA ExpireKeeps ==
  ASSUME ChannelAssumption, Inv, NEW sid \in 1..Len(mine), Expire(sid)
  PROVE  Inv'
<1>1. faults' \in Nat
  BY DEF Inv, Types, Expire, Fault
<1>2. PICK n \in DOMAIN hub : hub' = Forget(n)
  BY DEF Expire, Position
<1>3. UNCHANGED <<opened, mine, calls, net, seen, handling, ran>>
  BY DEF Expire
<1>4. /\ hub' \in Seq(Session) /\ HubBounded' /\ HubKnown' /\ HubUnique'
      /\ \A c \in Calls : Taken(c) => Taken(c)'
  BY <1>2, <1>3, ExpireHub
<1> QED BY <1>1, <1>3, <1>4, HubKeeps

LEMMA RestartKeeps ==
  ASSUME ChannelAssumption, Inv, Restart
  PROVE  Inv'
<1>1. faults' \in Nat
  BY DEF Inv, Types, Restart, Fault
<1>2. hub' = <<>> /\ handling' = {} /\ UNCHANGED <<opened, mine, calls, net, seen, ran>>
  BY DEF Restart
<1>3. hub' \in Seq(Session) /\ Len(hub') = 0 /\ DOMAIN hub' = {}
  BY <1>2
<1>4. HubBounded' /\ HubKnown' /\ HubUnique'
  BY <1>3 DEF HubBounded, HubKnown, HubUnique, ChannelAssumption
<1>5. \A c \in Calls : Taken(c) => Taken(c)'
  BY <1>2, <1>3 DEF Taken, Asked
<1> QED BY <1>1, <1>2, <1>3, <1>4, <1>5, HubKeeps

(* It holds at the start, and every step keeps it.                          *)
LEMMA InvInit == ASSUME ChannelAssumption, Init PROVE Inv
<1>1. /\ hub = <<>> /\ opened = 0 /\ mine = <<>> /\ calls = [c \in Calls |-> Idle]
      /\ net = {} /\ seen = {} /\ handling = {} /\ ran = [c \in Calls |-> 0] /\ faults = 0
  BY DEF Init
<1>2. hub \in Seq(Session) /\ Len(hub) = 0 /\ DOMAIN hub = {} /\ mine \in Seq(Own) /\ Len(mine) = 0
  BY <1>1
<1>3. Idle \in [st : States, sid : Nat, seq : Nat]
  BY DEF Idle, States
<1>4. calls \in [Calls -> [st : States, sid : Nat, seq : Nat]] /\ ran \in [Calls -> {0, 1}]
  BY <1>1, <1>3
<1>5. Types
  BY <1>1, <1>2, <1>4 DEF Types
<1>6. HubBounded /\ HubKnown /\ HubUnique
  BY <1>2 DEF HubBounded, HubKnown, HubUnique, ChannelAssumption
<1>7. \A c \in Calls : ~Asked(c)
  BY <1>1 DEF Asked, Idle
<1>8. Numbered /\ FramesAbout /\ Once
  BY <1>1, <1>7 DEF Numbered, FramesAbout, Once
<1> QED BY <1>5, <1>6, <1>8 DEF Inv

LEMMA InvNext == ASSUME ChannelAssumption, Inv, [Next]_vars PROVE Inv'
<1>1. CASE Establish
  BY <1>1, EstablishKeeps
<1>2. CASE Restart
  BY <1>2, RestartKeeps
<1>3. ASSUME NEW sid \in 1..Len(mine), Expire(sid) PROVE Inv'
  BY <1>3, ExpireKeeps
<1>4. ASSUME NEW sid \in 1..Len(mine), Finally(sid) PROVE Inv'
  BY <1>4, FinallyKeeps
<1>5. ASSUME NEW sid \in 1..Len(mine), NEW c \in Calls, Request(c, sid) PROVE Inv'
  BY <1>5, RequestKeeps
<1>6. ASSUME NEW f \in net, Arrive(f) PROVE Inv'
  BY <1>6, ArriveKeeps
<1>7. ASSUME NEW f \in net, Response(f) PROVE Inv'
  BY <1>7, ResponseKeeps
<1>8. ASSUME NEW f \in net, Lose(f) PROVE Inv'
  BY <1>8, LoseKeeps
<1>9. ASSUME NEW f \in seen, Replay(f) PROVE Inv'
  BY <1>9, ReplayKeeps
<1>10. ASSUME NEW f \in handling, Dispatch(f) PROVE Inv'
  BY <1>10, DispatchKeeps
<1>11. ASSUME NEW c \in Calls, Timeout(c) PROVE Inv'
  BY <1>11, TimeoutKeeps
<1>12. CASE UNCHANGED vars
  BY <1>12 DEF vars, Inv, Types, HubBounded, HubKnown, HubUnique, Numbered, FramesAbout, About, Once,
               Taken, Asked
<1> QED BY <1>1, <1>2, <1>3, <1>4, <1>5, <1>6, <1>7, <1>8, <1>9, <1>10, <1>11, <1>12 DEF Next

LEMMA InvHolds == ASSUME ChannelAssumption PROVE Spec => []Inv
<1>1. ASSUME Init PROVE Inv
  BY <1>1, InvInit
<1>2. ASSUME Inv, [Next]_vars PROVE Inv'
  BY <1>2, InvNext
<1> QED BY <1>1, <1>2, PTL DEF Spec

(* The peer's map keeps its bound, and never runs ahead of the numbers the  *)
(* callers gave out (secure-channel.mjs, SecureChannelHub).                 *)
THEOREM ChannelTypeOK == ASSUME ChannelAssumption PROVE Spec => []TypeOK
BY InvHolds, InvTypes, PTL

(* What the callers see of a step: at most one call changes its state, or   *)
(* runs.                                                                    *)
Shown == [c \in Calls |-> calls[c].st]

LEMMA ShownOne ==
  ASSUME NEW c \in Calls, NEW st, calls'[c].st = st,
         \A d \in Calls : d # c => calls'[d].st = calls[d].st
  PROVE  Shown' = [Shown EXCEPT ![c] = st]
BY DEF Shown

LEMMA ShownSame == ASSUME \A d \in Calls : calls'[d].st = calls[d].st PROVE Shown' = Shown
BY DEF Shown

LEMMA CallChanges ==
  ASSUME Inv, NEW c \in Calls, NEW st, calls' = [calls EXCEPT ![c].st = st]
  PROVE  Shown' = [Shown EXCEPT ![c] = st]
<1>1. calls \in [Calls -> [st : States, sid : Nat, seq : Nat]]
  BY DEF Inv, Types
<1>2. calls'[c].st = st /\ \A d \in Calls : d # c => calls'[d].st = calls[d].st
  BY <1>1
<1> QED BY <1>2, ShownOne

(* What returned has run.                                                   *)
Returned == \A c \in Calls : calls[c].st = "done" => ran[c] = 1

LEMMA RequestShown ==
  ASSUME Inv, Returned, NEW c \in Calls, NEW sid \in 1..Len(mine), Request(c, sid)
  PROVE  (Promise!Ask(c) \/ Promise!Refuse(c)) /\ Returned'
<1>1. calls[c].st = "idle" /\ ran' = ran
  BY DEF Request
<1>2. ASSUME calls'[c].st # "done", \A d \in Calls : d # c => calls'[d].st = calls[d].st
      PROVE  Returned'
  BY <1>2, <1>1 DEF Returned
<1>3. calls \in [Calls -> [st : States, sid : Nat, seq : Nat]]
  BY DEF Inv, Types
<1>4. Shown[c] = "idle"
  BY <1>1 DEF Shown
<1>5. CASE mine[sid].closed
  <2>1. calls' = [calls EXCEPT ![c].st = "refused"]
    BY <1>5 DEF Request
  <2>2. Shown' = [Shown EXCEPT ![c] = "refused"]
    BY <2>1, CallChanges
  <2>3. Promise!Refuse(c)
    BY <1>1, <1>4, <2>2 DEF Promise!Refuse, Promise!Become, Shown
  <2>4. calls'[c].st # "done" /\ \A d \in Calls : d # c => calls'[d].st = calls[d].st
    BY <1>3, <2>1
  <2> QED BY <1>2, <2>3, <2>4
<1>6. CASE ~mine[sid].closed
  <2>1. calls' = [calls EXCEPT ![c] = [st |-> "asked", sid |-> sid, seq |-> mine[sid].next]]
    BY <1>6 DEF Request
  <2>2. calls'[c].st = "asked" /\ \A d \in Calls : d # c => calls'[d].st = calls[d].st
    BY <1>3, <2>1
  <2>3. Shown' = [Shown EXCEPT ![c] = "asked"]
    BY <2>2, ShownOne
  <2>4. Promise!Ask(c)
    BY <1>1, <1>4, <2>3 DEF Promise!Ask, Promise!Become, Shown
  <2> QED BY <1>2, <2>2, <2>4
<1> QED BY <1>5, <1>6

(* A call that runs had not run, and did not return before.                 *)
LEMMA DispatchShown ==
  ASSUME Inv, Returned, NEW f \in handling, Dispatch(f)
  PROVE  /\ (\E c \in Calls : Promise!Run(c)) \/ UNCHANGED <<Shown, ran>>
         /\ Returned'
<1>1. PICK c \in Calls : c = f.c
  BY DEF Inv, Types, Requests, Frame
<1>2. ran[c] = 0 /\ Asked(c) /\ ran \in [Calls -> {0, 1}]
  BY <1>1 DEF Inv, Types, Once, Taken
<1>3. calls[c].st \in {"asked", "failed"}
  BY <1>2 DEF Inv, Types, States, Asked, Returned
<1>4. calls' = calls /\ Shown' = Shown
  BY DEF Dispatch, Shown
<1>5. CASE ran' = [ran EXCEPT ![f.c] = ran[f.c] + 1]
  <2>1. ran' = [ran EXCEPT ![c] = 1]
    <3>1. ran[f.c] + 1 = 1
      BY <1>1, <1>2
    <3> QED BY <1>1, <1>5, <3>1
  <2>2. Promise!Run(c)
    BY <1>2, <1>3, <1>4, <2>1 DEF Promise!Run, Shown
  <2>3. Returned'
    BY <1>2, <1>4, <2>1 DEF Returned
  <2> QED BY <2>2, <2>3
<1>6. CASE ran' = ran
  BY <1>4, <1>6 DEF Returned
<1> QED BY <1>5, <1>6 DEF Dispatch

LEMMA ResponseShown ==
  ASSUME Inv, Returned, NEW f \in net, Response(f)
  PROVE  /\ (\E c \in Calls : Promise!Return(c) \/ Promise!Fail(c)) \/ UNCHANGED <<Shown, ran>>
         /\ Returned'
<1>1. PICK c \in Calls : c = f.c
  BY DEF Inv, Types, Frame
<1>2. ran' = ran /\ calls \in [Calls -> [st : States, sid : Nat, seq : Nat]]
  BY DEF Inv, Types, Response
<1>3. CASE calls[c].st # "asked"
  <2>1. calls' = calls
    BY <1>1, <1>3 DEF Response
  <2> QED BY <1>2, <2>1 DEF Shown, Returned
<1>4. CASE calls[c].st = "asked"
  <2>1. Shown[c] = "asked"
    BY <1>4 DEF Shown
  <2>2. CASE AcceptResponse(f)
    <3>1. calls' = [calls EXCEPT ![c].st = "done"]
      BY <1>1, <1>4, <2>2 DEF Response
    <3>2. ran[c] = 1
      BY <1>1, <2>2 DEF AcceptResponse, Inv, Once
    <3>3. Shown' = [Shown EXCEPT ![c] = "done"]
      BY <3>1, CallChanges
    <3>4. Promise!Return(c)
      BY <1>2, <2>1, <3>2, <3>3 DEF Promise!Return, Promise!Become, Shown
    <3>5. Returned'
      BY <1>2, <3>1, <3>2 DEF Returned
    <3> QED BY <3>4, <3>5
  <2>3. CASE ~AcceptResponse(f)
    <3>1. calls' = [calls EXCEPT ![c].st = "failed"]
      BY <1>1, <1>4, <2>3 DEF Response
    <3>2. Shown' = [Shown EXCEPT ![c] = "failed"]
      BY <3>1, CallChanges
    <3>3. Promise!Fail(c)
      BY <1>2, <2>1, <3>2 DEF Promise!Fail, Promise!Become, Shown
    <3>4. Returned'
      BY <1>2, <3>1 DEF Returned
    <3> QED BY <3>3, <3>4
  <2> QED BY <2>2, <2>3
<1> QED BY <1>3, <1>4

LEMMA TimeoutShown ==
  ASSUME Inv, Returned, NEW c \in Calls, Timeout(c)
  PROVE  Promise!Fail(c) /\ Returned'
<1>1. ran' = ran /\ calls[c].st = "asked" /\ calls' = [calls EXCEPT ![c].st = "failed"]
  BY DEF Timeout, Timer
<1>2. Shown' = [Shown EXCEPT ![c] = "failed"]
  BY <1>1, CallChanges
<1>3. Shown[c] = "asked"
  BY <1>1 DEF Shown
<1>4. calls \in [Calls -> [st : States, sid : Nat, seq : Nat]]
  BY DEF Inv, Types
<1> QED BY <1>1, <1>2, <1>3, <1>4 DEF Promise!Fail, Promise!Become, Shown, Returned

(* Every other step is one that the callers do not see.                     *)
LEMMA StepShown ==
  ASSUME Inv, Returned, [Next]_vars
  PROVE  [Promise!Next]_(Promise!vars) /\ Returned'
<1> USE DEF Promise!Next, Promise!vars
<1>1. ASSUME UNCHANGED <<calls, ran>> PROVE [Promise!Next]_(Promise!vars) /\ Returned'
  BY <1>1 DEF Returned
<1>2. ASSUME NEW sid \in 1..Len(mine), NEW c \in Calls, Request(c, sid)
      PROVE  [Promise!Next]_(Promise!vars) /\ Returned'
  BY <1>2, RequestShown
<1>3. ASSUME NEW f \in net, Response(f) PROVE [Promise!Next]_(Promise!vars) /\ Returned'
  BY <1>3, ResponseShown DEF Shown
<1>4. ASSUME NEW f \in handling, Dispatch(f) PROVE [Promise!Next]_(Promise!vars) /\ Returned'
  BY <1>4, DispatchShown DEF Shown
<1>5. ASSUME NEW c \in Calls, Timeout(c) PROVE [Promise!Next]_(Promise!vars) /\ Returned'
  BY <1>5, TimeoutShown
<1>6. CASE Establish \/ Restart
  BY <1>1, <1>6 DEF Establish, Restart
<1>7. CASE \E sid \in 1..Len(mine) : Expire(sid) \/ Finally(sid)
  BY <1>1, <1>7 DEF Expire, Finally
<1>8. CASE \E f \in net : Arrive(f) \/ Lose(f)
  BY <1>1, <1>8 DEF Arrive, Lose
<1>9. CASE \E f \in seen : Replay(f)
  BY <1>1, <1>9 DEF Replay
<1>10. CASE UNCHANGED vars
  BY <1>1, <1>10 DEF vars
<1> QED BY <1>2, <1>3, <1>4, <1>5, <1>6, <1>7, <1>8, <1>9, <1>10 DEF Next

(* Frames lost, replayed, late and out of order, sessions evicted, expired  *)
(* and forgotten, restarts: to its callers the channel is one of remote     *)
(* calls that run at most once, and have run when they return               *)
(* (secure-channel.mjs, createRequest, openRequest, request).               *)
THEOREM ImplementsCallsSafely == ASSUME ChannelAssumption PROVE Spec => Promise!Safety
<1>1. ASSUME Init PROVE Promise!Init /\ Returned
  <2>1. calls = [c \in Calls |-> Idle] /\ ran = [c \in Calls |-> 0] /\ Idle.st = "idle"
    BY <1>1 DEF Init, Idle
  <2> QED BY <2>1 DEF Promise!Init, Returned
<1>2. ASSUME Inv, Returned, [Next]_vars PROVE [Promise!Next]_(Promise!vars) /\ Returned'
  BY <1>2, StepShown
<1> QED BY <1>1, <1>2, InvHolds, PTL DEF Spec, Promise!Safety
-----------------------------------------------------------------------------
(* The trust store: which identity is accepted at an endpoint.  Its state   *)
(* is apart from that of the channel.                                       *)
CONSTANTS Endpoints, Ids, None, Configured, MaxKeys, MaxMishaps
VARIABLES serves, mem, disk, auth, approved, retired, keys, mishaps
Trust == INSTANCE PeerTrust WITH faults <- mishaps, MaxFaults <- MaxMishaps

(* What the store is made of.                                               *)
Pin == [id : Ids \cup {None}, to : Ids \cup {None}]
TrustTypes ==
  /\ serves \in [Endpoints -> Ids] /\ auth \in [Endpoints -> Ids \cup {None}]
  /\ mem \in [Endpoints -> Pin] /\ disk \in [Endpoints -> Pin]
  /\ retired \in [Endpoints -> SUBSET Ids] /\ mishaps \in Nat

(* A pending rotation was asked for and is not used up, in memory and on    *)
(* disk, where it may come back from.                                       *)
Backed(e, pin) == pin.to # None => pin.id # None /\ <<e, pin.id, pin.to>> \in approved
Rotations == \A e \in Endpoints : Backed(e, mem[e]) /\ Backed(e, disk[e])

(* Where memory is ahead of what is written, an operator asked for it.      *)
AskedFor(e, to) == \E id \in Ids : <<e, id, to>> \in approved
Ahead == \A e \in Endpoints : disk[e].id # None /\ mem[e].id # disk[e].id => AskedFor(e, mem[e].id)

(* What is written is pinned in memory, and is not retired.                 *)
Written ==
  /\ mishaps = 0 => mem = disk
  /\ \A e \in Endpoints : /\ mem[e].id = None => disk[e].id = None /\ auth[e] = None
                          /\ disk[e].id = None => retired[e] = {}
                          /\ disk[e].id \notin retired[e]
TrustInv == TrustTypes /\ Rotations /\ Ahead /\ Written

(* Memory is written, or is not: what that does to the invariant, when the  *)
(* pins of memory are as they should be and a rotation is only used up when *)
(* it is written.                                                           *)
LEMMA StoreKeeps ==
  ASSUME None \notin Ids, TrustInv, Trust!Saved(mem') \/ Trust!NotSaved,
         serves' = serves, mem' \in [Endpoints -> Pin], auth' \in [Endpoints -> Ids \cup {None}],
         \A e \in Endpoints : Backed(e, mem[e])',
         \A e \in Endpoints : mem'[e].id = None => mem[e].id = None /\ auth'[e] = None,
         Trust!NotSaved => \A ask \in approved : ask \in approved',
         Trust!NotSaved => \A e \in Endpoints : mem'[e].id = mem[e].id \/ AskedFor(e, mem[e].id)' \/ disk[e].id = None
  PROVE  TrustInv'
<1>1. /\ disk \in [Endpoints -> Pin] /\ mem \in [Endpoints -> Pin] /\ mishaps \in Nat
      /\ retired \in [Endpoints -> SUBSET Ids]
  BY DEF TrustInv, TrustTypes
<1>2. CASE Trust!Saved(mem')
  <2>1. disk' = mem' /\ mishaps' = mishaps
    BY <1>2 DEF Trust!Saved
  <2>2. /\ retired' \in [Endpoints -> SUBSET Ids]
        /\ \A e \in Endpoints : mem'[e].id \notin retired'[e] /\ (disk[e].id = None => retired'[e] \subseteq retired[e])
    <3> DEFINE R(e) == IF mem'[e].id = disk[e].id \/ disk[e].id = None THEN retired[e] \ {mem'[e].id}
                       ELSE (retired[e] \cup {disk[e].id}) \ {mem'[e].id}
    <3>1. retired' = [e \in Endpoints |-> R(e)]
      BY <1>2 DEF Trust!Saved
    <3>2. \A e \in Endpoints : disk[e].id \in Ids \cup {None} /\ retired[e] \subseteq Ids
      BY <1>1 DEF Pin
    <3>3. \A e \in Endpoints : /\ R(e) \in SUBSET Ids /\ mem'[e].id \notin R(e)
                               /\ disk[e].id = None => R(e) \subseteq retired[e]
      BY <3>2
    <3> HIDE DEF R
    <3> QED BY <3>1, <3>3
  <2>3. TrustTypes'
    BY <1>1, <2>1, <2>2 DEF TrustInv, TrustTypes
  <2>4. Rotations' /\ Ahead'
    BY <2>1 DEF Rotations, Ahead, Backed
  <2>5. Written'
    <3> SUFFICES ASSUME NEW e \in Endpoints
                 PROVE  /\ mem'[e].id = None => auth'[e] = None /\ retired'[e] = {}
                        /\ mem'[e].id \notin retired'[e]
      BY <2>1 DEF Written
    <3>1. mem[e].id = None => disk[e].id = None /\ retired[e] = {}
      BY DEF TrustInv, Written
    <3> QED BY <2>2, <3>1
  <2> QED BY <2>3, <2>4, <2>5 DEF TrustInv
<1>3. CASE Trust!NotSaved
  <2>1. disk' = disk /\ retired' = retired /\ mishaps' = mishaps + 1
    BY <1>3 DEF Trust!NotSaved, Trust!Fault
  <2>2. TrustTypes'
    BY <1>1, <2>1 DEF TrustInv, TrustTypes
  <2>3. Rotations'
    <3> SUFFICES ASSUME NEW e \in Endpoints PROVE Backed(e, mem[e])' /\ Backed(e, disk[e])'
      BY DEF Rotations
    <3>1. Backed(e, disk[e])
      BY DEF TrustInv, Rotations
    <3>2. Backed(e, disk[e])'
      BY <1>3, <2>1, <3>1 DEF Backed
    <3> QED BY <3>2 DEF Backed
  <2>4. Ahead'
    <3> SUFFICES ASSUME NEW e \in Endpoints, disk[e].id # None, mem'[e].id # disk[e].id
                 PROVE  AskedFor(e, mem[e].id)'
      BY <2>1 DEF Ahead
    <3>1. CASE mem'[e].id = mem[e].id
      <4>1. PICK id \in Ids : <<e, id, mem[e].id>> \in approved
        BY <3>1 DEF TrustInv, Ahead, AskedFor
      <4> QED BY <1>3, <3>1, <4>1 DEF AskedFor
    <3>2. CASE AskedFor(e, mem[e].id)'
      BY <3>2 DEF AskedFor
    <3> QED BY <1>3, <3>1, <3>2
  <2>5. Written'
    BY <1>1, <2>1 DEF TrustInv, Written
  <2> QED BY <2>2, <2>3, <2>4, <2>5 DEF TrustInv
<1> QED BY <1>2, <1>3

(* What a hello pins.                                                       *)
LEMMA HelloPins ==
  ASSUME None \notin Ids, TrustInv, NEW e \in Endpoints, Trust!Hello(e)
  PROVE  /\ serves[e] \in Ids /\ mem' \in [Endpoints -> Pin] /\ mem'[e].id = serves[e]
         /\ mem'[e].to # None => mem'[e] = mem[e]
         /\ \A d \in Endpoints : d # e => mem'[d] = mem[d]
         /\ mem[e].id = None \/ mem[e].id = serves[e] \/ (<<e, mem[e].id, serves[e]>> \in approved /\ mem[e].id \in Ids)
<1>1. serves[e] \in Ids /\ mem \in [Endpoints -> Pin] /\ mem[e] \in Pin
  BY DEF TrustInv, TrustTypes
<1>2. mem' = [mem EXCEPT ![e] = [id |-> serves[e], to |-> IF mem[e].id = serves[e] THEN mem[e].to ELSE None]]
  BY DEF Trust!Hello, Trust!Observed
<1> DEFINE pin == [id |-> serves[e], to |-> IF mem[e].id = serves[e] THEN mem[e].to ELSE None]
<1>3. pin \in Pin /\ pin.id = serves[e] /\ (pin.to # None => pin = mem[e])
  BY <1>1 DEF Pin
<1>4. mem' \in [Endpoints -> Pin] /\ mem'[e] = pin /\ \A d \in Endpoints : d # e => mem'[d] = mem[d]
  <2> HIDE DEF pin
  <2>1. mem' = [mem EXCEPT ![e] = pin]
    BY <1>2 DEF pin
  <2> QED BY <1>1, <1>3, <2>1
<1>5. mem[e].id = None \/ mem[e].id = serves[e] \/ mem[e].to = serves[e]
  BY DEF Trust!Hello, Trust!Accepts
<1>6. mem[e].to = serves[e] => <<e, mem[e].id, serves[e]>> \in approved /\ mem[e].id \in Ids
  <2> SUFFICES ASSUME mem[e].to = serves[e] PROVE <<e, mem[e].id, serves[e]>> \in approved /\ mem[e].id \in Ids
    OBVIOUS
  <2>1. mem[e].to # None /\ Backed(e, mem[e])
    BY <1>1 DEF TrustInv, Rotations
  <2> QED BY <1>1, <2>1 DEF Backed, Pin
<1> QED BY <1>1, <1>3, <1>4, <1>5, <1>6

LEMMA HelloKeeps ==
  ASSUME None \notin Ids, TrustInv, NEW e \in Endpoints, Trust!Hello(e) PROVE TrustInv'
<1>1. /\ serves[e] \in Ids /\ mem' \in [Endpoints -> Pin] /\ mem'[e].id = serves[e]
      /\ mem'[e].to # None => mem'[e] = mem[e]
      /\ \A d \in Endpoints : d # e => mem'[d] = mem[d]
      /\ mem[e].id = None \/ mem[e].id = serves[e] \/ (<<e, mem[e].id, serves[e]>> \in approved /\ mem[e].id \in Ids)
  BY HelloPins
<1>2. /\ Trust!Saved(mem') \/ Trust!NotSaved
      /\ serves' = serves /\ approved' = approved \ Trust!Used
      /\ auth' = [auth EXCEPT ![e] = serves[e]] \/ (auth' = auth /\ Trust!NotSaved)
  BY DEF Trust!Hello, Trust!Authenticated
<1>3. auth' \in [Endpoints -> Ids \cup {None}] /\ \A d \in Endpoints : d # e => auth'[d] = auth[d]
  <2>1. auth \in [Endpoints -> Ids \cup {None}]
    BY DEF TrustInv, TrustTypes
  <2> QED BY <1>1, <1>2, <2>1
<1>4. \A d \in Endpoints : mem'[d].id = None => mem[d].id = None /\ auth'[d] = None
  <2>1. \A d \in Endpoints : mem[d].id = None => auth[d] = None
    BY DEF TrustInv, Written
  <2> QED BY <1>1, <1>3, <2>1
<1>5. Trust!NotSaved => approved' = approved
  <2>1. Trust!NotSaved => \A ask \in approved : ask \notin Trust!Used
    BY DEF Trust!NotSaved, Trust!Used
  <2> QED BY <1>2, <2>1
<1>6. \A d \in Endpoints : Backed(d, mem[d])'
  <2> SUFFICES ASSUME NEW d \in Endpoints, mem'[d].to # None
               PROVE  mem'[d].id # None /\ <<d, mem'[d].id, mem'[d].to>> \in approved'
    BY DEF Backed
  <2>1. mem'[d] = mem[d]
    BY <1>1
  <2>2. mem[d].id # None /\ <<d, mem[d].id, mem[d].to>> \in approved
    BY <2>1 DEF TrustInv, Rotations, Backed
  <2>3. <<d, mem[d].id, mem[d].to>> \notin Trust!Used
    <3>1. CASE Trust!Saved(mem')
      <4>1. disk'[d].to # None
        BY <3>1 DEF Trust!Saved
      <4> QED BY <4>1 DEF Trust!Used
    <3>2. CASE Trust!NotSaved
      BY <1>5, <2>2, <1>2, <3>2
    <3> QED BY <1>2, <3>1, <3>2
  <2> QED BY <1>2, <2>1, <2>2, <2>3
<1>7. Trust!NotSaved => \A d \in Endpoints : mem'[d].id = mem[d].id \/ AskedFor(d, mem[d].id)' \/ disk[d].id = None
  <2> SUFFICES ASSUME Trust!NotSaved, NEW d \in Endpoints, mem'[d].id # mem[d].id, disk[d].id # None
               PROVE  \E id \in Ids : <<d, id, mem'[d].id>> \in approved'
    BY DEF AskedFor
  <2>1. d = e /\ mem[e].id # None
    BY <1>1 DEF TrustInv, Written
  <2> QED BY <1>1, <1>5, <2>1
<1> QED BY <1>1, <1>2, <1>3, <1>4, <1>5, <1>6, <1>7, StoreKeeps

LEMMA AuthorizeKeeps ==
  ASSUME None \notin Ids, TrustInv, NEW e \in Endpoints, NEW from \in Ids, NEW to \in Ids, Trust!Authorize(e, from, to)
  PROVE  TrustInv'
<1>1. /\ mem[e].id = from /\ mem' = [mem EXCEPT ![e].to = to] /\ approved' = approved \cup {<<e, from, to>>}
      /\ Trust!Saved(mem') \/ Trust!NotSaved
      /\ serves' = serves /\ auth' = auth
  BY DEF Trust!Authorize
<1>2. mem \in [Endpoints -> Pin] /\ auth \in [Endpoints -> Ids \cup {None}]
  BY DEF TrustInv, TrustTypes
<1>3. /\ mem' \in [Endpoints -> Pin] /\ mem'[e].id = from /\ mem'[e].to = to
      /\ \A d \in Endpoints : mem'[d].id = mem[d].id /\ (d # e => mem'[d] = mem[d])
  BY <1>1, <1>2 DEF Pin
<1>4. \A d \in Endpoints : Backed(d, mem[d])'
  <2>1. \A d \in Endpoints : Backed(d, mem[d])
    BY DEF TrustInv, Rotations
  <2> QED BY <1>1, <1>3, <2>1 DEF Backed
<1>5. \A d \in Endpoints : mem'[d].id = None => mem[d].id = None /\ auth'[d] = None
  BY <1>1, <1>3 DEF TrustInv, Written
<1> QED BY <1>1, <1>2, <1>3, <1>4, <1>5, StoreKeeps

LEMMA TrustNext == ASSUME None \notin Ids, Configured \subseteq Endpoints, TrustInv, [Trust!Next]_Trust!vars PROVE TrustInv'
<1>1. CASE Trust!Restart
  <2>1. /\ mem' = disk /\ disk' = disk /\ auth' = [e \in Endpoints |-> None] /\ serves' = serves
        /\ approved' = approved /\ retired' = retired /\ mishaps' = mishaps + 1
    BY <1>1 DEF Trust!Restart, Trust!Fault
  <2>2. TrustTypes'
    BY <2>1 DEF TrustInv, TrustTypes
  <2>3. Rotations' /\ Ahead'
    BY <2>1 DEF TrustInv, Rotations, Ahead, Backed
  <2>4. Written'
    BY <2>1 DEF TrustInv, TrustTypes, Written
  <2> QED BY <2>2, <2>3, <2>4 DEF TrustInv
<1>2. ASSUME NEW e \in Endpoints, Trust!SyncConfigured(e) \/ Trust!ProbeDiscovered(e) \/ Trust!SyncSelected(e) \/ Trust!Relay(e)
      PROVE  TrustInv'
  <2>1. Trust!Hello(e)
    BY <1>2 DEF Trust!SyncConfigured, Trust!ProbeDiscovered, Trust!SyncSelected, Trust!Relay
  <2> QED BY <2>1, HelloKeeps
<1>3. ASSUME NEW e \in Endpoints, NEW id \in Ids, NEW to \in Ids, Trust!Authorize(e, id, to)
      PROVE  TrustInv'
  BY <1>3, AuthorizeKeeps
<1>4. ASSUME NEW e \in Endpoints, NEW to \in Ids, NEW id \in Ids, Trust!ChangeKey(e, to)
      PROVE  TrustInv'
  <2>1. /\ serves' = [serves EXCEPT ![e] = to]
        /\ UNCHANGED <<mem, disk, auth, approved, retired, mishaps>>
    BY <1>4 DEF Trust!ChangeKey
  <2>2. serves' \in [Endpoints -> Ids]
    BY <2>1 DEF TrustInv, TrustTypes
  <2> QED BY <2>1, <2>2 DEF TrustInv, TrustTypes, Rotations, Ahead, Written, Backed, AskedFor
<1>5. CASE UNCHANGED Trust!vars
  BY <1>5 DEF Trust!vars, TrustInv, TrustTypes, Rotations, Ahead, Written, Backed, AskedFor
<1> QED BY <1>1, <1>2, <1>3, <1>4, <1>5 DEF Trust!Next

LEMMA TrustHolds == ASSUME Trust!TrustAssumption PROVE Trust!Spec => []TrustInv
<1>1. None \notin Ids /\ Configured \subseteq Endpoints
  BY DEF Trust!TrustAssumption
<1>2. ASSUME Trust!Init PROVE TrustInv
  <2>1. /\ serves \in [Endpoints -> Ids] /\ mem = [e \in Endpoints |-> [id |-> None, to |-> None]] /\ disk = mem
        /\ auth = [e \in Endpoints |-> None] /\ approved = {} /\ retired = [e \in Endpoints |-> {}] /\ mishaps = 0
    BY <1>2 DEF Trust!Init, Trust!Unpinned
  <2>2. TrustTypes
    BY <2>1 DEF TrustTypes, Pin
  <2>3. Rotations /\ Ahead /\ Written
    BY <2>1 DEF Rotations, Backed, Ahead, Written
  <2> QED BY <2>2, <2>3 DEF TrustInv
<1>3. TrustInv /\ [Trust!Next]_Trust!vars => TrustInv'
  BY <1>1, TrustNext
<1> QED BY <1>2, <1>3, PTL DEF Trust!Spec

(* What is written is what is in memory until a write fails, and an         *)
(* identity is pinned before it counts as authenticated.                    *)
THEOREM TrustTypeOK == ASSUME Trust!TrustAssumption PROVE Trust!Spec => []Trust!TypeOK
<1>1. TrustInv => Trust!TypeOK
  BY DEF TrustInv, Written, Trust!TypeOK
<1> QED BY <1>1, TrustHolds, PTL

(* A pin moves only along rotations an operator asked for (observe,         *)
(* authorizeRotation), or falls back to what is written, through failing    *)
(* writes and restarts.                                                     *)
THEOREM PinsAreApproved == ASSUME Trust!TrustAssumption PROVE Trust!Spec => [][Trust!PinsFollowApprovals]_Trust!vars
<1>1. None \notin Ids /\ Configured \subseteq Endpoints
  BY DEF Trust!TrustAssumption
<1>2. TrustInv /\ [Trust!Next]_Trust!vars => [Trust!PinsFollowApprovals]_Trust!vars
  <2> SUFFICES ASSUME TrustInv, Trust!Next PROVE Trust!PinsFollowApprovals
    OBVIOUS
  <2>1. ASSUME NEW e \in Endpoints, Trust!Hello(e) PROVE Trust!PinsFollowApprovals
    BY <1>1, <2>1, HelloPins DEF Trust!PinsFollowApprovals, Trust!Asked
  <2>2. ASSUME NEW e \in Endpoints, NEW id \in Ids, NEW to \in Ids, Trust!Authorize(e, id, to)
        PROVE  Trust!PinsFollowApprovals
    <3>1. mem \in [Endpoints -> Pin] /\ mem' = [mem EXCEPT ![e].to = to]
      BY <2>2 DEF Trust!Authorize, TrustInv, TrustTypes
    <3>2. \A d \in Endpoints : mem'[d].id = mem[d].id
      BY <3>1 DEF Pin
    <3> QED BY <3>2 DEF Trust!PinsFollowApprovals, Trust!Asked
  <2>3. CASE Trust!Restart
    BY <2>3 DEF Trust!Restart, Trust!PinsFollowApprovals
  <2>4. CASE mem' = mem
    BY <2>4 DEF Trust!PinsFollowApprovals, Trust!Asked
  <2> QED BY <2>1, <2>2, <2>3, <2>4
       DEF Trust!Next, Trust!SyncConfigured, Trust!ProbeDiscovered, Trust!SyncSelected, Trust!Relay, Trust!ChangeKey
<1> QED BY <1>1, <1>2, TrustHolds, PTL DEF Trust!Spec

(* Once a rotation is written, nobody gets in with the identity that was    *)
(* left, not even after a restart, unless an operator asks for it again.    *)
THEOREM RetiredKeepOut == ASSUME Trust!TrustAssumption PROVE Trust!Spec => [][Trust!RetiredStaysOut]_Trust!vars
<1>1. None \notin Ids /\ Configured \subseteq Endpoints
  BY DEF Trust!TrustAssumption
<1>2. TrustInv /\ [Trust!Next]_Trust!vars => [Trust!RetiredStaysOut]_Trust!vars
  <2> SUFFICES ASSUME TrustInv, Trust!Next PROVE Trust!RetiredStaysOut
    OBVIOUS
  <2>1. ASSUME NEW e \in Endpoints, Trust!Hello(e) PROVE Trust!RetiredStaysOut
    <3> SUFFICES ASSUME NEW d \in Endpoints, auth'[d] \in retired[d], auth'[d] # auth[d]
                 PROVE  \E id \in Ids : <<d, id, auth'[d]>> \in approved
      BY DEF Trust!RetiredStaysOut
    <3>1. d = e /\ auth'[e] = serves[e]
      BY <2>1 DEF Trust!Hello, Trust!Authenticated, TrustInv, TrustTypes
    <3>2. mem[e].id = None \/ mem[e].id = serves[e] \/ (<<e, mem[e].id, serves[e]>> \in approved /\ mem[e].id \in Ids)
      BY <1>1, <2>1, HelloPins
    <3>3. disk[e].id # None /\ mem[e].id # None /\ disk[e].id \notin retired[e]
      BY <3>1 DEF TrustInv, Written
    <3>4. CASE mem[e].id = serves[e]
      <4>1. AskedFor(e, mem[e].id)
        BY <3>1, <3>3, <3>4 DEF TrustInv, Ahead
      <4> QED BY <3>1, <3>4, <4>1 DEF AskedFor
    <3> QED BY <3>1, <3>2, <3>3, <3>4
  <2>2. CASE Trust!Restart
    BY <1>1, <2>2 DEF Trust!Restart, Trust!RetiredStaysOut, TrustInv, TrustTypes
  <2>3. CASE auth' = auth
    BY <2>3 DEF Trust!RetiredStaysOut
  <2> QED BY <2>1, <2>2, <2>3
       DEF Trust!Next, Trust!SyncConfigured, Trust!ProbeDiscovered, Trust!SyncSelected, Trust!Relay, Trust!ChangeKey,
           Trust!Authorize
<1> QED BY <1>1, <1>2, TrustHolds, PTL DEF Trust!Spec
-----------------------------------------------------------------------------
(* The candidates a node looks for.  Their state is apart from the others.  *)
CONSTANTS Keys, Group(_), Pinned, Known, Heard, Unsteady, Dead, MaxRecords, MaxEndpoints, MaxBatch, Backoff,
          MaxBackoff, Reprobe, MinIdentities, MinGroups, MinPinned, MaxPerGroup, MaxFails
VARIABLES rows, batch, running, down
View == INSTANCE PeerView

(* The anchors fit, with all the endpoints they may have.                   *)
AnchorsFit == MaxEndpoints * Cardinality(Pinned) <= MaxRecords

LEMMA SameCardinality ==
  ASSUME NEW S
  PROVE  View!Cardinality(S) = Cardinality(S) /\ View!IsFiniteSet(S) = IsFiniteSet(S)
BY DEF View!Cardinality, Cardinality, View!IsFiniteSet, IsFiniteSet

LEMMA MinOfTwo ==
  ASSUME NEW x \in Nat, NEW y \in Nat
  PROVE  View!Min({x, y}) = IF x <= y THEN x ELSE y
BY DEF View!Min

LEMMA AddOneTimes ==
  ASSUME NEW x \in Nat, NEW y \in Nat, y >= 1
  PROVE  x * (y - 1) + x = x * y /\ x * (y - 1) \in Nat
BY SMT

LEMMA TimesLessOne ==
  ASSUME NEW x \in Nat, x >= 1, NEW y \in Nat, y >= 1
  PROVE  x * (y - 1) < x * y
<1>1. x * (y - 1) + x = x * y /\ x * (y - 1) \in Nat
  BY AddOneTimes
<1> QED BY <1>1

(* A set with at most n members of each of some identities.                 *)
LEMMA FewOfEach ==
  ASSUME NEW K, IsFiniteSet(K), NEW n \in Nat, NEW S, IsFiniteSet(S),
         \A p \in S : Cardinality({k \in K : k.peer = p}) <= n
  PROVE  Cardinality({k \in K : k.peer \in S}) <= n * Cardinality(S)
<1> DEFINE Of(T) == {k \in K : k.peer \in T}
           Good == {T \in SUBSET S : Cardinality(Of(T)) <= n * Cardinality(T)}
<1>1. {} \in Good
  <2>1. Of({}) = {} /\ Cardinality(Of({})) = 0 /\ Cardinality({}) = 0
    BY FS_EmptySet
  <2> QED BY <2>1
<1>2. ASSUME NEW T \in SUBSET S, NEW y \in T, T \ {y} \in Good
      PROVE  T \in Good
  <2>1. Of(T) = Of(T \ {y}) \cup {k \in K : k.peer = y}
    BY <1>2
  <2>2. /\ IsFiniteSet(Of(T \ {y})) /\ IsFiniteSet({k \in K : k.peer = y}) /\ IsFiniteSet(Of(T)) /\ IsFiniteSet(T)
    <3>1. Of(T \ {y}) \in SUBSET K /\ {k \in K : k.peer = y} \in SUBSET K /\ Of(T) \in SUBSET K
      OBVIOUS
    <3> HIDE DEF Of
    <3> QED BY <3>1, FS_Subset
  <2>3. Cardinality(T \ {y}) = Cardinality(T) - 1 /\ Cardinality(T) \in Nat /\ Cardinality(T) >= 1
    <3>1. Cardinality(T) \in Nat /\ Cardinality(T \ {y}) = Cardinality(T) - 1 /\ Cardinality(T \ {y}) \in Nat
      BY <2>2, FS_RemoveElement, FS_CardinalityType, FS_Subset
    <3> QED BY <3>1
  <2>4. Cardinality(Of(T)) <= Cardinality(Of(T \ {y})) + Cardinality({k \in K : k.peer = y})
    <3>1. Cardinality(Of(T)) = Cardinality(Of(T \ {y})) + Cardinality({k \in K : k.peer = y})
                               - Cardinality(Of(T \ {y}) \cap {k \in K : k.peer = y})
      BY <2>1, <2>2, FS_Union
    <3>2. Cardinality(Of(T \ {y}) \cap {k \in K : k.peer = y}) \in Nat
      BY <2>2, FS_Intersection, FS_CardinalityType
    <3>3. Cardinality(Of(T \ {y})) \in Nat /\ Cardinality({k \in K : k.peer = y}) \in Nat
      BY <2>2, FS_CardinalityType
    <3> HIDE DEF Of
    <3> QED BY <3>1, <3>2, <3>3
  <2>5. Cardinality(Of(T)) \in Nat /\ Cardinality(Of(T \ {y})) \in Nat /\ Cardinality({k \in K : k.peer = y}) \in Nat
    BY <2>2, FS_CardinalityType
  <2>6. Cardinality(Of(T \ {y})) <= n * (Cardinality(T) - 1) /\ Cardinality({k \in K : k.peer = y}) <= n
    BY <1>2, <2>3
  <2>7. n * (Cardinality(T) - 1) + n = n * Cardinality(T) /\ n * (Cardinality(T) - 1) \in Nat
    BY <2>3, AddOneTimes
  <2> HIDE DEF Of
  <2>8. Cardinality(Of(T)) <= n * Cardinality(T)
    BY <2>4, <2>5, <2>6, <2>7
  <2> QED BY <2>8
<1> HIDE DEF Good
<1>3. S \in Good
  <2>1. Good \in SUBSET SUBSET S
    BY DEF Good
  <2> QED BY <1>1, <1>2, <2>1, SubsetInduction
<1> QED BY <1>3 DEF Good

(* What absorbing the directory leaves: of each identity some of its rows,  *)
(* the proven ones first, and of those the ones that rank highest, as they  *)
(* were or as new ones.                                                     *)
All(s, new) == DOMAIN s \cup new
OfPeer(K, k) == {l \in K : l.peer = k.peer}
Fanned(s, all, few) ==
  /\ few \in SUBSET all
  /\ \A k \in all :
       /\ Cardinality(OfPeer(few, k)) = View!Min({MaxEndpoints, Cardinality(OfPeer(all, k))})
       /\ k \notin few => \A l \in OfPeer(few, k) : View!Proof(s, l) >= View!Proof(s, k)
Chosen(s, few, K) ==
  /\ K \in SUBSET few /\ Cardinality(K) = View!Min({MaxRecords, Cardinality(few)})
  /\ \A k \in K, l \in few \ K : View!Rank(s, k) >= View!Rank(s, l)
Renewed(s, K, r) ==
  /\ DOMAIN r = K
  /\ \A k \in K : \/ k \in DOMAIN s /\ r[k] = s[k]
                  \/ r[k] = View!Fresh /\ (k \notin DOMAIN s \/ View!Rank(s, k) = 1)

LEMMA IngestedShape ==
  ASSUME NEW s, NEW new, NEW r \in View!Ingested(s, new)
  PROVE  \E few, K : Fanned(s, All(s, new), few) /\ Chosen(s, few, K) /\ Renewed(s, K, r)
<1> DEFINE all == DOMAIN s \cup new
           Agains(K) == IF K = all THEN {{}} ELSE SUBSET {k \in new \cap DOMAIN s : View!Rank(s, k) = 1}
           Row(K, again, k) == IF k \in DOMAIN s \ again THEN s[k] ELSE View!Fresh
           Tables(K) == {[k \in K |-> Row(K, again, k)] : again \in Agains(K)}
<1>1. PICK K \in View!Kept(s, all) : r \in Tables(K)
  <2>1. View!Ingested(s, new) = UNION {Tables(K) : K \in View!Kept(s, all)}
    BY DEF View!Ingested
  <2> HIDE DEF Tables, all
  <2> QED BY <2>1
<1>2. PICK again \in Agains(K) : r = [k \in K |-> Row(K, again, k)]
  <2> HIDE DEF Agains, Row
  <2> QED BY <1>1
<1>3. PICK few \in View!FanoutBound(s, all) :
        /\ K \in SUBSET few /\ View!Cardinality(K) = View!Min({MaxRecords, View!Cardinality(few)})
        /\ \A k \in K, l \in few \ K : View!Rank(s, k) >= View!Rank(s, l)
  BY <1>1 DEF View!Kept
<1>4. Chosen(s, few, K)
  BY <1>3, SameCardinality DEF Chosen
<1>5. Fanned(s, all, few)
  BY <1>3, SameCardinality DEF View!FanoutBound, View!Endpoints, Fanned, OfPeer
<1>6. again \subseteq {k \in new \cap DOMAIN s : View!Rank(s, k) = 1}
  BY <1>2
<1>7. Renewed(s, K, r)
  BY <1>2, <1>6 DEF Renewed
<1> QED BY <1>4, <1>5, <1>7 DEF All

(* Every identity that was known or heard of keeps a row up to the bound of *)
(* all rows, and all sets are finite.                                       *)
LEMMA FannedKeeps ==
  ASSUME View!ViewAssumption, NEW s, NEW all, IsFiniteSet(all), NEW few, Fanned(s, all, few), NEW k \in all
  PROVE  /\ IsFiniteSet(few) /\ Cardinality(OfPeer(few, k)) <= MaxEndpoints
         /\ \E l \in few : l.peer = k.peer
         /\ k \notin few => \A l \in few : l.peer = k.peer => View!Proof(s, l) >= View!Proof(s, k)
<1>1. IsFiniteSet(few) /\ MaxEndpoints \in Nat \ {0}
  BY FS_Subset DEF Fanned, View!ViewAssumption
<1>2. IsFiniteSet(OfPeer(all, k)) /\ IsFiniteSet(OfPeer(few, k))
  <2>1. OfPeer(all, k) \in SUBSET all /\ OfPeer(few, k) \in SUBSET few
    BY DEF OfPeer
  <2> QED BY <1>1, <2>1, FS_Subset
<1>3. Cardinality(OfPeer(all, k)) \in Nat /\ Cardinality(OfPeer(few, k)) \in Nat
  BY <1>2, FS_CardinalityType
<1>4. Cardinality(OfPeer(all, k)) # 0
  <2>1. k \in OfPeer(all, k)
    BY DEF OfPeer
  <2> QED BY <1>2, <2>1, FS_EmptySet
<1>5. Cardinality(OfPeer(few, k)) = IF MaxEndpoints <= Cardinality(OfPeer(all, k)) THEN MaxEndpoints
                                    ELSE Cardinality(OfPeer(all, k))
  BY <1>1, <1>3, MinOfTwo DEF Fanned
<1>6. Cardinality(OfPeer(few, k)) <= MaxEndpoints /\ Cardinality(OfPeer(few, k)) # 0
  BY <1>1, <1>3, <1>4, <1>5
<1>7. OfPeer(few, k) # {}
  BY <1>6, FS_EmptySet
<1>8. k \notin few => \A l \in few : l.peer = k.peer => View!Proof(s, l) >= View!Proof(s, k)
  BY DEF Fanned, OfPeer
<1> QED BY <1>1, <1>6, <1>7, <1>8 DEF OfPeer

(* Where a row is left out, there are as many as may be.                    *)
LEMMA ChosenKeeps ==
  ASSUME View!ViewAssumption, NEW s, NEW few, IsFiniteSet(few), NEW K, Chosen(s, few, K)
  PROVE  /\ IsFiniteSet(K) /\ Cardinality(K) <= MaxRecords
         /\ K # few => Cardinality(K) = MaxRecords
<1>1. MaxRecords \in Nat
  BY DEF View!ViewAssumption
<1>2. K \in SUBSET few /\ IsFiniteSet(K)
  BY FS_Subset DEF Chosen
<1>3. Cardinality(K) \in Nat /\ Cardinality(few) \in Nat
  BY <1>2, FS_CardinalityType
<1>4. Cardinality(K) = IF MaxRecords <= Cardinality(few) THEN MaxRecords ELSE Cardinality(few)
  BY <1>1, <1>3, MinOfTwo DEF Chosen
<1>5. K # few => Cardinality(K) < Cardinality(few)
  BY <1>2, <1>3, FS_Subset
<1> QED BY <1>1, <1>2, <1>3, <1>4, <1>5

(* The rank of a pinned row, and what a rank says.                          *)
LEMMA RankSays ==
  ASSUME NEW s, NEW k
  PROVE  /\ View!Rank(s, k) \in {1, 2, 3}
         /\ View!Rank(s, k) = 3 <=> k.peer \in Pinned
         /\ View!Rank(s, k) >= 2 => k.peer \in Pinned \/ (k \in DOMAIN s /\ s[k].auth)
         /\ k \in DOMAIN s /\ s[k].auth => View!Rank(s, k) >= 2
BY DEF View!Rank, View!IsPinned

(* An anchor stays: if it went, the table would be full of other anchors.   *)
LEMMA AnchorStays ==
  ASSUME View!ViewAssumption, AnchorsFit, NEW s, NEW all, IsFiniteSet(all), NEW few, NEW K,
         Fanned(s, all, few), Chosen(s, few, K), NEW k \in all, k.peer \in Pinned
  PROVE  \E l \in K : l.peer = k.peer
<1> SUFFICES ASSUME \A l \in K : l.peer # k.peer PROVE FALSE
  OBVIOUS
<1> DEFINE Others == Pinned \ {k.peer}
<1>1. IsFiniteSet(few) /\ \E l \in few : l.peer = k.peer
  BY FannedKeeps
<1>2. PICK l \in few : l.peer = k.peer
  BY <1>1
<1>3. l \in few \ K /\ View!Rank(s, l) = 3
  BY <1>2, RankSays
<1>4. \A m \in K : m.peer \in Others
  <2> SUFFICES ASSUME NEW m \in K PROVE m.peer \in Pinned
    OBVIOUS
  <2>1. View!Rank(s, m) >= View!Rank(s, l)
    BY <1>3 DEF Chosen
  <2>2. View!Rank(s, m) = 3
    BY <1>3, <2>1, RankSays
  <2> QED BY <2>2, RankSays
<1>5. IsFiniteSet(K) /\ Cardinality(K) = MaxRecords
  BY <1>1, <1>3, ChosenKeeps
<1>6. MaxEndpoints \in Nat \ {0} /\ MaxRecords \in Nat /\ IsFiniteSet(Pinned)
  BY SameCardinality DEF View!ViewAssumption
<1>7. IsFiniteSet(Others) /\ Cardinality(Others) = Cardinality(Pinned) - 1 /\ Cardinality(Pinned) \in Nat /\ Cardinality(Others) \in Nat
  BY <1>6, FS_RemoveElement, FS_CardinalityType
<1>8. \A p \in Others : Cardinality({m \in K : m.peer = p}) <= MaxEndpoints
  <2> SUFFICES ASSUME NEW p \in Others PROVE Cardinality({m \in K : m.peer = p}) <= MaxEndpoints
    OBVIOUS
  <2>1. CASE {m \in K : m.peer = p} = {}
    <3>1. Cardinality({m \in K : m.peer = p}) = 0
      BY <2>1, FS_EmptySet, Zenon
    <3> QED BY <1>6, <3>1
  <2>2. CASE {m \in K : m.peer = p} # {}
    <3>1. PICK m \in K : m.peer = p
      BY <2>2
    <3>2. m \in all /\ {n \in K : n.peer = p} \in SUBSET OfPeer(few, m)
      BY <3>1 DEF Chosen, Fanned, OfPeer
    <3>3. Cardinality(OfPeer(few, m)) <= MaxEndpoints
      BY <3>2, FannedKeeps
    <3>4. IsFiniteSet(OfPeer(few, m))
      <4>1. OfPeer(few, m) \in SUBSET few
        BY DEF OfPeer
      <4> QED BY <1>1, <4>1, FS_Subset
    <3>5. /\ Cardinality({n \in K : n.peer = p}) <= Cardinality(OfPeer(few, m))
          /\ Cardinality({n \in K : n.peer = p}) \in Nat /\ Cardinality(OfPeer(few, m)) \in Nat
      BY <3>2, <3>4, FS_Subset, FS_CardinalityType
    <3> QED BY <1>6, <3>3, <3>5
  <2> QED BY <2>1, <2>2
<1>9. Cardinality(K) <= MaxEndpoints * Cardinality(Others)
  <2>1. {m \in K : m.peer \in Others} = K
    BY <1>4
  <2>2. Cardinality({m \in K : m.peer \in Others}) <= MaxEndpoints * Cardinality(Others)
    BY <1>5, <1>6, <1>7, <1>8, FewOfEach
  <2> QED BY <2>1, <2>2
<1>10. MaxEndpoints * Cardinality(Others) < MaxEndpoints * Cardinality(Pinned)
  BY <1>6, <1>7, TimesLessOne
<1>11. MaxEndpoints * Cardinality(Pinned) <= MaxRecords
  BY DEF AnchorsFit
<1>12. MaxEndpoints * Cardinality(Others) \in Int /\ MaxEndpoints * Cardinality(Pinned) \in Int
  BY <1>6, <1>7
<1> QED BY <1>5, <1>6, <1>9, <1>10, <1>11, <1>12

(* A live row is left out for another of its identity, or where all rows    *)
(* that stay are live or pinned.                                            *)
LEMMA LiveStays ==
  ASSUME View!ViewAssumption, NEW s, NEW all, IsFiniteSet(all), NEW few, NEW K, NEW r,
         Fanned(s, all, few), Chosen(s, few, K), Renewed(s, K, r),
         NEW k \in all, k \in DOMAIN s, s[k].auth, k \notin K
  PROVE  \/ \A m \in K : r[m].auth \/ m.peer \in Pinned
         \/ \E m \in K : m.peer = k.peer
<1> SUFFICES ASSUME \A m \in K : m.peer # k.peer, NEW m \in K, m.peer \notin Pinned
             PROVE  r[m].auth
  OBVIOUS
<1>1. PICK l \in few : l.peer = k.peer /\ (k \in few => l = k)
  <2>1. /\ IsFiniteSet(few) /\ Cardinality(OfPeer(few, k)) <= MaxEndpoints
        /\ \E l \in few : l.peer = k.peer
        /\ k \notin few => \A l \in few : l.peer = k.peer => View!Proof(s, l) >= View!Proof(s, k)
    BY FannedKeeps
  <2> QED BY <2>1
<1>2. View!Rank(s, l) >= 2
  <2>1. CASE k \in few
    BY <1>1, <2>1, RankSays
  <2>2. CASE k \notin few
    <3>1. View!Proof(s, l) >= View!Proof(s, k)
      BY <1>1, <2>2, FannedKeeps
    <3>2. l \in DOMAIN s /\ s[l].auth
      BY <3>1 DEF View!Proof
    <3> QED BY <3>2, RankSays
  <2> QED BY <2>1, <2>2
<1>3. View!Rank(s, m) >= View!Rank(s, l)
  BY <1>1 DEF Chosen
<1>4. View!Rank(s, m) >= 2
  BY <1>2, <1>3, RankSays
<1>5. m \in DOMAIN s /\ s[m].auth
  BY <1>4, RankSays
<1>6. r[m] = s[m]
  BY <1>4, <1>5 DEF Renewed
<1> QED BY <1>5, <1>6

Fields == {"auth", "fails", "wait", "last"}
Shaped(s) == IsFiniteSet(DOMAIN s) /\ \A k \in DOMAIN s : DOMAIN s[k] = Fields
InBounds(s) ==
  /\ Cardinality(DOMAIN s) <= MaxRecords
  /\ \A k \in DOMAIN s : Cardinality(OfPeer(DOMAIN s, k)) <= MaxEndpoints
SameRows(s, r) ==
  /\ DOMAIN r = DOMAIN s
  /\ \A k \in DOMAIN s : DOMAIN r[k] = DOMAIN s[k] /\ r[k].auth = s[k].auth

(* The rows of one table against those of the next: what is kept.           *)
Survives(s, r) ==
  /\ AnchorsFit => \A k \in DOMAIN s : k.peer \in Pinned => \E l \in DOMAIN r : l.peer = k.peer
  /\ \A k \in DOMAIN s : s[k].auth /\ k \notin DOMAIN r =>
       \/ \A m \in DOMAIN r : r[m].auth \/ m.peer \in Pinned
       \/ \E m \in DOMAIN r : m.peer = k.peer

LEMMA Absorbs ==
  ASSUME View!ViewAssumption, NEW s, Shaped(s), NEW new, IsFiniteSet(new), NEW r \in View!Ingested(s, new)
  PROVE  Shaped(r) /\ InBounds(r) /\ Survives(s, r)
<1> DEFINE all == All(s, new)
<1>1. PICK few, K : Fanned(s, all, few) /\ Chosen(s, few, K) /\ Renewed(s, K, r)
  BY IngestedShape
<1>2. IsFiniteSet(all) /\ DOMAIN s \subseteq all
  BY FS_Union DEF All, Shaped
<1>3. IsFiniteSet(few) /\ few \subseteq all
  BY <1>1, <1>2, FS_Subset DEF Fanned
<1>4. IsFiniteSet(K) /\ Cardinality(K) <= MaxRecords
  BY <1>1, <1>3, ChosenKeeps
<1>5. DOMAIN r = K /\ K \subseteq few
  BY <1>1 DEF Renewed, Chosen
<1> HIDE DEF all
<1>6. Shaped(r)
  <2>1. DOMAIN View!Fresh = Fields
    BY DEF View!Fresh, Fields
  <2> QED BY <1>1, <1>4, <1>5, <2>1 DEF Shaped, Renewed
<1>7. InBounds(r)
  <2> SUFFICES ASSUME NEW k \in K PROVE Cardinality(OfPeer(K, k)) <= MaxEndpoints
    BY <1>4, <1>5 DEF InBounds
  <2>1. Cardinality(OfPeer(few, k)) <= MaxEndpoints
    BY <1>1, <1>2, <1>3, <1>5, FannedKeeps
  <2>2. OfPeer(K, k) \in SUBSET OfPeer(few, k) /\ OfPeer(few, k) \in SUBSET few
    BY <1>5 DEF OfPeer
  <2>3. /\ Cardinality(OfPeer(K, k)) <= Cardinality(OfPeer(few, k))
        /\ Cardinality(OfPeer(K, k)) \in Nat /\ Cardinality(OfPeer(few, k)) \in Nat
    BY <1>3, <2>2, FS_Subset, FS_CardinalityType
  <2>4. MaxEndpoints \in Nat
    BY DEF View!ViewAssumption
  <2> QED BY <2>1, <2>3, <2>4
<1>8. AnchorsFit => \A k \in DOMAIN s : k.peer \in Pinned => \E l \in DOMAIN r : l.peer = k.peer
  BY <1>1, <1>2, <1>5, AnchorStays
<1>9. \A k \in DOMAIN s : s[k].auth /\ k \notin DOMAIN r =>
       \/ \A m \in DOMAIN r : r[m].auth \/ m.peer \in Pinned
       \/ \E m \in DOMAIN r : m.peer = k.peer
  <2> SUFFICES ASSUME NEW k \in DOMAIN s, s[k].auth, k \notin K
               PROVE  \/ \A m \in K : r[m].auth \/ m.peer \in Pinned
                      \/ \E m \in K : m.peer = k.peer
    BY <1>5
  <2>1. k \in all
    BY <1>2
  <2> QED BY <1>1, <1>2, <2>1, LiveStays
<1> QED BY <1>6, <1>7, <1>8, <1>9 DEF Survives

LEMMA ProbedSame == ASSUME NEW s, Shaped(s), NEW K PROVE SameRows(s, View!Probed(s, K)) /\ Shaped(View!Probed(s, K))
<1> DEFINE P == View!Probed(s, K)
           earlier == {s[k].last : k \in DOMAIN s \ K} \ {0}
           Place(n) == IF n = 0 THEN 0 ELSE View!Cardinality({m \in earlier : m <= n})
           Place2(k) == IF k \in K THEN View!Cardinality(earlier) + 1 ELSE Place(s[k].last)
<1>1. DOMAIN P = DOMAIN s /\ \A k \in DOMAIN s : P[k] = [s[k] EXCEPT !.last = Place2(k)]
  BY DEF View!Probed
<1> HIDE DEF P, Place2
<1>2. \A k \in DOMAIN s : DOMAIN P[k] = DOMAIN s[k] /\ P[k].auth = s[k].auth
  BY <1>1 DEF Shaped, Fields
<1>3. SameRows(s, P) /\ Shaped(P)
  BY <1>1, <1>2 DEF SameRows, Shaped
<1> QED BY <1>3 DEF P

LEMMA MarkedSays ==
  ASSUME NEW s, Shaped(s), NEW k \in DOMAIN s, NEW ok \in BOOLEAN
  PROVE  /\ Shaped(View!Marked(s, k, ok)) /\ DOMAIN View!Marked(s, k, ok) = DOMAIN s
         /\ \A l \in DOMAIN s : (l # k \/ ok) => (s[l].auth => View!Marked(s, k, ok)[l].auth)
<1> DEFINE M == View!Marked(s, k, ok)
           fails == View!Min({s[k].fails + 1, MaxFails})
           Good == [s[k] EXCEPT !.auth = TRUE, !.fails = 0, !.wait = Reprobe]
           Bad == [s[k] EXCEPT !.auth = FALSE, !.fails = fails, !.wait = View!Min({MaxBackoff, Backoff * 2 ^ (fails - 1)})]
           row == IF ok THEN Good ELSE Bad
<1>1. M = [s EXCEPT ![k] = row]
  BY DEF View!Marked
<1>2. DOMAIN s[k] = Fields /\ "auth" \in Fields
  BY DEF Shaped, Fields
<1>3. DOMAIN Good = Fields /\ Good.auth = TRUE /\ DOMAIN Bad = Fields
  BY <1>2 DEF Fields
<1> HIDE DEF M, Good, Bad
<1>4. DOMAIN M = DOMAIN s /\ M[k] = row /\ \A l \in DOMAIN s : l # k => M[l] = s[l]
  BY <1>1
<1>5. Shaped(M)
  BY <1>3, <1>4 DEF Shaped
<1>6. \A l \in DOMAIN s : (l # k \/ ok) => (s[l].auth => M[l].auth)
  BY <1>3, <1>4
<1> QED BY <1>4, <1>5, <1>6 DEF M

(* Both bounds are kept by a table with the same rows.                      *)
LEMMA SameBounds ==
  ASSUME NEW s, NEW r, SameRows(s, r)
  PROVE  (InBounds(s) => InBounds(r)) /\ (Shaped(s) => Shaped(r))
BY DEF InBounds, SameRows, OfPeer, Shaped

ViewInv == Shaped(rows) /\ InBounds(rows)

LEMMA ViewSteps ==
  ASSUME View!ViewAssumption, ViewInv, [View!Next]_View!vars
  PROVE  ViewInv' /\ (AnchorsFit => [View!AnchorsKept]_View!vars)
<1> DEFINE Kept == AnchorsFit => View!AnchorsKept
<1>1. IsFiniteSet(Heard)
  <2>1. IsFiniteSet(Known \cup Heard)
    BY SameCardinality DEF View!ViewAssumption
  <2> QED BY <2>1, FS_Subset
<1>2. Shaped(rows) /\ InBounds(rows)
  BY DEF ViewInv
<1>3. CASE View!Sync
  <2>1. PICK r, K : r \in View!Ingested(rows, Heard) /\ rows' = View!Probed(r, K)
    BY <1>3 DEF View!Sync
  <2>2. Shaped(r) /\ InBounds(r) /\ Survives(rows, r)
    BY <1>1, <1>2, <2>1, Absorbs
  <2>3. SameRows(r, rows') /\ Shaped(rows')
    BY <2>1, <2>2, ProbedSame
  <2>4. InBounds(rows')
    BY <2>2, <2>3, SameBounds
  <2>5. Kept
    <3> SUFFICES ASSUME AnchorsFit PROVE View!AnchorsKept
      OBVIOUS
    <3>1. DOMAIN rows' = DOMAIN r /\ \A m \in DOMAIN r : rows'[m].auth = r[m].auth
      BY <2>3 DEF SameRows
    <3> QED BY <2>2, <3>1 DEF Survives, View!AnchorsKept, View!Live, View!IsPinned
  <2> QED BY <2>3, <2>4, <2>5 DEF ViewInv
<1>4. CASE View!Probe
  <2> DEFINE k == View!Head(batch)
             ok == k \notin down
             s == View!Probed(View!Marked(rows, k, ok), {k})
  <2>1. CASE k \notin DOMAIN rows
    <3>1. rows' = rows
      BY <1>4, <2>1 DEF View!Probe
    <3> QED BY <1>2, <3>1 DEF ViewInv, View!AnchorsKept
  <2>2. CASE k \in DOMAIN rows
    <3>1. rows' \in View!Ingested(s, Heard) /\ batch # <<>>
      BY <1>4, <2>2 DEF View!Probe
    <3>2. /\ Shaped(View!Marked(rows, k, ok)) /\ DOMAIN View!Marked(rows, k, ok) = DOMAIN rows
          /\ \A l \in DOMAIN rows : (l # k \/ ok) => (rows[l].auth => View!Marked(rows, k, ok)[l].auth)
      <4>1. ok \in BOOLEAN
        OBVIOUS
      <4> HIDE DEF k, ok
      <4> QED BY <1>2, <2>2, <4>1, MarkedSays
    <3>3. Shaped(s) /\ SameRows(View!Marked(rows, k, ok), s)
      BY <3>2, ProbedSame
    <3>4. Shaped(rows') /\ InBounds(rows') /\ Survives(s, rows')
      BY <1>1, <3>1, <3>3, Absorbs
    <3>5. DOMAIN s = DOMAIN rows /\ \A l \in DOMAIN rows : (l # k \/ ok) => (rows[l].auth => s[l].auth)
      BY <3>2, <3>3 DEF SameRows
    <3>6. Kept
      <4> SUFFICES ASSUME AnchorsFit PROVE View!AnchorsKept
        OBVIOUS
      <4>1. ASSUME NEW l \in DOMAIN rows, l.peer \in Pinned PROVE \E m \in DOMAIN rows' : m.peer = l.peer
        BY <3>4, <3>5, <4>1 DEF Survives
      <4>2. ASSUME NEW l \in DOMAIN rows \ DOMAIN rows', rows[l].auth, l \notin View!Failing
            PROVE  \/ \A m \in DOMAIN rows' : rows'[m].auth \/ m.peer \in Pinned
                   \/ \E m \in DOMAIN rows' : m.peer = l.peer
        <5>1. l # k \/ ok
          BY <3>1, <4>2 DEF View!Failing
        <5>2. l \in DOMAIN s /\ s[l].auth
          BY <3>5, <4>2, <5>1
        <5> HIDE DEF s
        <5> QED BY <3>4, <4>2, <5>2 DEF Survives
      <4> QED BY <4>1, <4>2 DEF View!AnchorsKept, View!Live, View!IsPinned
    <3> QED BY <3>4, <3>6 DEF ViewInv
  <2> QED BY <2>1, <2>2
<1>5. CASE View!Tick
  <2>1. rows' = [k \in DOMAIN rows |-> [rows[k] EXCEPT !.wait = IF @ = 0 THEN 0 ELSE @ - 1]]
    BY <1>5 DEF View!Tick
  <2>2. DOMAIN rows' = DOMAIN rows /\ \A k \in DOMAIN rows : DOMAIN rows'[k] = DOMAIN rows[k]
    BY <2>1
  <2>3. \A k \in DOMAIN rows : rows'[k].auth = rows[k].auth
    BY <1>2, <2>1 DEF Shaped, Fields
  <2>4. SameRows(rows, rows')
    BY <2>2, <2>3 DEF SameRows
  <2> QED BY <1>2, <2>2, <2>4, SameBounds DEF ViewInv, View!AnchorsKept
<1>6. CASE rows' = rows
  BY <1>2, <1>6 DEF ViewInv, View!AnchorsKept
<1> QED BY <1>3, <1>4, <1>5, <1>6 DEF View!Next, View!Fail, View!Recover, View!vars

LEMMA ViewHolds == ASSUME View!ViewAssumption PROVE View!Spec => []ViewInv
<1>1. ASSUME View!Init PROVE ViewInv
  <2>1. rows \in View!Ingested(<<>>, Known)
    BY <1>1 DEF View!Init
  <2>2. IsFiniteSet(Known)
    <3>1. IsFiniteSet(Known \cup Heard)
      BY SameCardinality DEF View!ViewAssumption
    <3> QED BY <3>1, FS_Subset
  <2>3. Shaped(<<>>)
    BY FS_EmptySet DEF Shaped
  <2> QED BY <2>1, <2>2, <2>3, Absorbs DEF ViewInv
<1>2. ViewInv /\ [View!Next]_View!vars => ViewInv'
  BY ViewSteps
<1> QED BY <1>1, <1>2, PTL DEF View!Spec

(* The candidates and the endpoints of an identity stay within their bounds *)
(* (boundIdentity, boundGlobal).                                            *)
THEOREM ViewBounded == ASSUME View!ViewAssumption PROVE View!Spec => []View!Bounded
<1>1. ViewInv => View!Bounded
  BY SameCardinality DEF ViewInv, InBounds, View!Bounded, View!Endpoints, OfPeer
<1> QED BY <1>1, ViewHolds, PTL

(* Where all anchors have room, no offer of the directory displaces one,    *)
(* and a live row that does not fail leaves only for rows of its rank or of *)
(* its identity (ingest, evictionRank).                                     *)
THEOREM AnchorsStay ==
  ASSUME View!ViewAssumption, AnchorsFit PROVE View!Spec => [][View!AnchorsKept]_View!vars
<1>1. ViewInv /\ [View!Next]_View!vars => [View!AnchorsKept]_View!vars
  BY ViewSteps
<1> QED BY <1>1, ViewHolds, PTL DEF View!Spec

(* The guard of remote addresses.                                           *)
CONSTANTS Remotes, Window, MaxCost, BanScore, BanFor, MaxBan, MaxRemotes, StaleAfter, PostCost, MaxDouble, MaxFlight
VARIABLES records, flight, bad
Guard == INSTANCE PeerGuard WITH MaxRecords <- MaxRemotes

LEMMA GuardSets ==
  ASSUME NEW S
  PROVE  Guard!Cardinality(S) = Cardinality(S)
BY DEF Guard!Cardinality, Cardinality, Guard!IsFiniteSet, IsFiniteSet

(* How often a ban doubles is a positive number at every place.             *)
LEMMA DoublingsExist ==
  ASSUME MaxDouble \in Nat
  PROVE  /\ Guard!Doublings = [n \in 0..MaxDouble |-> IF n = 0 THEN 1 ELSE 2 * Guard!Doublings[n - 1]]
         /\ \A n \in 0..MaxDouble : Guard!Doublings[n] \in Nat \ {0}
<1> DEFINE F == Guard!Doublings
           N == {n \in Nat : \E f : f = [i \in 0..n |-> IF i = 0 THEN 1 ELSE 2 * f[i - 1]]}
<1>1. 0 \in N
  <2> DEFINE g == [i \in 0..0 |-> 1]
  <2>1. g = [i \in 0..0 |-> IF i = 0 THEN 1 ELSE 2 * g[i - 1]]
    OBVIOUS
  <2> QED BY <2>1
<1>2. ASSUME NEW n \in N PROVE n + 1 \in N
  <2>1. PICK f : f = [i \in 0..n |-> IF i = 0 THEN 1 ELSE 2 * f[i - 1]]
    OBVIOUS
  <2> DEFINE g == [i \in 0..(n + 1) |-> IF i <= n THEN f[i] ELSE 2 * f[n]]
  <2>2. n \in Nat /\ n + 1 \in Nat /\ g[n + 1] = 2 * f[n] /\ \A i \in 0..n : g[i] = f[i]
    OBVIOUS
  <2>3. g = [i \in 0..(n + 1) |-> g[i]]
    OBVIOUS
  <2> HIDE DEF g
  <2>4. ASSUME NEW i \in 0..(n + 1) PROVE g[i] = IF i = 0 THEN 1 ELSE 2 * g[i - 1]
    <3>1. CASE i <= n
      <4>1. i \in 0..n /\ (i # 0 => i - 1 \in 0..n)
        BY <2>2, <3>1
      <4>2. f[i] = IF i = 0 THEN 1 ELSE 2 * f[i - 1]
        BY <2>1, <4>1
      <4> QED BY <2>2, <4>1, <4>2
    <3>2. CASE i = n + 1
      <4>1. i # 0 /\ i - 1 = n /\ n \in 0..n
        BY <2>2, <3>2
      <4> QED BY <2>2, <3>2, <4>1
    <3> QED BY <2>2, <3>1, <3>2
  <2>5. g = [i \in 0..(n + 1) |-> IF i = 0 THEN 1 ELSE 2 * g[i - 1]]
    BY <2>3, <2>4
  <2>6. \E h : h = [i \in 0..(n + 1) |-> IF i = 0 THEN 1 ELSE 2 * h[i - 1]]
    BY <2>5
  <2> QED BY <2>2, <2>6
<1>3. MaxDouble \in N
  <2>1. N \in SUBSET Nat
    OBVIOUS
  <2> HIDE DEF N
  <2>2. N = Nat
    BY <1>1, <1>2, <2>1, SetInduction
  <2> QED BY <2>2
<1>4. F = [n \in 0..MaxDouble |-> IF n = 0 THEN 1 ELSE 2 * F[n - 1]]
  BY <1>3, Zenon DEF Guard!Doublings
<1> HIDE DEF F
<1> DEFINE P == {n \in Nat : n <= MaxDouble => F[n] \in Nat \ {0}}
<1>5. 0 \in P
  BY <1>4
<1>6. ASSUME NEW n \in P PROVE n + 1 \in P
  <2>1. CASE n + 1 <= MaxDouble
    <3>1. n \in Nat /\ n <= MaxDouble /\ n + 1 \in 0..MaxDouble /\ n + 1 # 0 /\ (n + 1) - 1 = n
      BY <2>1
    <3>2. F[n + 1] = 2 * F[n]
      BY <1>4, <3>1
    <3> QED BY <3>1, <3>2
  <2> QED BY <2>1
<1>7. \A n \in Nat : n \in P
  <2>1. P \in SUBSET Nat
    OBVIOUS
  <2> HIDE DEF P
  <2>2. P = Nat
    BY <1>5, <1>6, <2>1, SetInduction
  <2> QED BY <2>2
<1> QED BY <1>4, <1>7 DEF F

(* The largest penalty does not by itself reach the score of a ban.         *)
PenaltiesFit == BanScore >= 4

Record == [age : Nat, cost : Nat, score : 0..BanScore, ban : 0..MaxBan, seen : Nat, bans : 0..MaxDouble]
Table(t) ==
  /\ DOMAIN t \subseteq Remotes /\ IsFiniteSet(DOMAIN t) /\ Cardinality(DOMAIN t) <= MaxRemotes
  /\ \A r \in DOMAIN t : t[r] \in Record
(* Who is left out on the way from one table to the other is not banned, or *)
(* is one of those whose ban ends first in a table full of banned ones.     *)
Spared(t, u) ==
  \A r \in DOMAIN t \ DOMAIN u : t[r].ban > 0 =>
    Cardinality(DOMAIN t) >= MaxRemotes /\ \A s \in DOMAIN t : t[s].ban >= t[r].ban

LEMMA GuardConstants ==
  ASSUME Guard!GuardAssumption
  PROVE  /\ Window \in Nat \ {0} /\ MaxCost \in Nat \ {0} /\ BanScore \in Nat \ {0} /\ BanFor \in Nat \ {0}
         /\ MaxBan \in Nat \ {0} /\ MaxRemotes \in Nat \ {0} /\ PostCost \in Nat \ {0}
         /\ MaxDouble \in Nat /\ StaleAfter \in Nat /\ MaxBan >= BanFor
BY DEF Guard!GuardAssumption

(* What is done to a record leaves it one.                                  *)
LEMMA WindowOk ==
  ASSUME Guard!GuardAssumption, NEW x \in Record
  PROVE  Guard!InWindow(x) \in Record
<1>1. CASE x.age < Window
  <2>1. Guard!InWindow(x) = [x EXCEPT !.seen = 0]
    BY <1>1 DEF Guard!InWindow
  <2> QED BY <2>1 DEF Record
<1>2. CASE ~(x.age < Window)
  <2>1. PICK s : s = Guard!Greatest(0, x.score - 1)
    OBVIOUS
  <2>2. x.score \in 0..BanScore /\ BanScore \in Nat
    BY GuardConstants DEF Record
  <2>3. s \in 0..BanScore
    BY <2>1, <2>2 DEF Guard!Greatest
  <2>4. Guard!InWindow(x) = [x EXCEPT !.age = 0, !.cost = 0, !.score = s, !.seen = 0]
    BY <1>2, <2>1, Zenon DEF Guard!InWindow
  <2>5. PICK y : y = [x EXCEPT !.age = 0, !.cost = 0]
    OBVIOUS
  <2>6. y \in Record
    BY <2>5 DEF Record
  <2>7. Guard!InWindow(x) = [y EXCEPT !.score = s, !.seen = 0]
    BY <2>4, <2>5
  <2>8. PICK z : z = [y EXCEPT !.score = s]
    OBVIOUS
  <2>9. z \in Record
    BY <2>3, <2>6, <2>8 DEF Record
  <2>10. Guard!InWindow(x) = [z EXCEPT !.seen = 0]
    BY <2>7, <2>8
  <2> QED BY <2>9, <2>10 DEF Record
<1> QED BY <1>1, <1>2

LEMMA ForgivenOk ==
  ASSUME Guard!GuardAssumption, NEW x \in Record
  PROVE  Guard!Forgiven(x) \in Record
BY GuardConstants DEF Guard!Forgiven, Guard!Greatest, Record

LEMMA ElapsedOk ==
  ASSUME Guard!GuardAssumption, NEW x \in Record
  PROVE  Guard!Elapsed(x) \in Record /\ Guard!Elapsed(x).ban <= x.ban
<1>1. PICK a, b, s : a = Guard!Least(x.age + 1, Window) /\ b = Guard!Greatest(x.ban - 1, 0)
                     /\ s = Guard!Least(x.seen + 1, StaleAfter + 1)
  OBVIOUS
<1>2. x.age \in Nat /\ x.ban \in 0..MaxBan /\ x.seen \in Nat /\ Window \in Nat /\ StaleAfter \in Nat /\ MaxBan \in Nat
  BY GuardConstants DEF Record
<1>3. a \in Nat /\ b \in 0..MaxBan /\ b <= x.ban /\ s \in Nat
  BY <1>1, <1>2 DEF Guard!Least, Guard!Greatest
<1>4. Guard!Elapsed(x) = [x EXCEPT !.age = a, !.ban = b, !.seen = s]
  BY <1>1, Zenon DEF Guard!Elapsed
<1> QED BY <1>3, <1>4 DEF Record

LEMMA PenalizedOk ==
  ASSUME Guard!GuardAssumption, PenaltiesFit, NEW x \in Record, NEW points \in 1..4
  PROVE  Guard!Penalized(x, points) \in Record
<1>1. PICK long : long = BanFor * Guard!Doublings[x.bans]
  OBVIOUS
<1>2. long \in Nat
  <2>1. x.bans \in 0..MaxDouble
    BY DEF Record
  <2>2. Guard!Doublings[x.bans] \in Nat
    BY <2>1, DoublingsExist, GuardConstants
  <2> QED BY <1>1, <2>2, GuardConstants
<1>3. PICK half : half = BanScore \div 2
  OBVIOUS
<1>4. half \in 0..BanScore
  BY <1>3, GuardConstants
<1>5. PICK score : score = x.score + points
  OBVIOUS
<1>6. x.score \in 0..BanScore /\ x.ban \in 0..MaxBan /\ x.bans \in 0..MaxDouble /\ BanScore \in Nat /\ MaxDouble \in Nat /\ MaxBan \in Nat
  BY GuardConstants DEF Record
<1>7. score \in Nat /\ score - BanScore <= 4
  BY <1>5, <1>6
<1>8. CASE score < BanScore
  <2>1. Guard!Penalized(x, points) = [x EXCEPT !.score = score]
    BY <1>5, <1>8 DEF Guard!Penalized
  <2>2. score \in 0..BanScore
    BY <1>6, <1>7, <1>8
  <2> QED BY <2>1, <2>2 DEF Record
<1>9. CASE ~(score < BanScore)
  <2>1. PICK a : a = Guard!Greatest(half, score - BanScore)
    OBVIOUS
  <2>2. a \in 0..BanScore
    <3>1. score - BanScore \in 0..BanScore
      BY <1>6, <1>7, <1>9 DEF PenaltiesFit
    <3>2. a = half \/ a = score - BanScore
      BY <2>1 DEF Guard!Greatest
    <3> QED BY <1>4, <3>1, <3>2
  <2>3. PICK c : c = Guard!Greatest(x.ban, Guard!Least(MaxBan, long))
    OBVIOUS
  <2>4. c \in 0..MaxBan
    BY <1>2, <1>6, <2>3 DEF Guard!Greatest, Guard!Least
  <2>5. PICK d : d = Guard!Least(MaxDouble, x.bans + 1)
    OBVIOUS
  <2>6. d \in 0..MaxDouble
    BY <1>6, <2>5 DEF Guard!Least
  <2>7. Guard!Penalized(x, points) = [x EXCEPT !.score = a, !.ban = c, !.bans = d]
    BY <1>1, <1>3, <1>5, <1>9, <2>1, <2>3, <2>5, Zenon DEF Guard!Penalized
  <2> QED BY <2>2, <2>4, <2>6, <2>7 DEF Record
<1> QED BY <1>8, <1>9

(* A record is put into a table that has it, or has room for it.            *)
LEMMA WithKeeps ==
  ASSUME Guard!GuardAssumption, NEW t, Table(t), NEW r \in Remotes, NEW x \in Record,
         r \in DOMAIN t \/ Cardinality(DOMAIN t) < MaxRemotes
  PROVE  Table(Guard!With(t, r, x)) /\ DOMAIN Guard!With(t, r, x) = DOMAIN t \cup {r}
<1>1. PICK u : u = Guard!With(t, r, x)
  OBVIOUS
<1>2. DOMAIN u = DOMAIN t \cup {r} /\ u[r] = x /\ \A s \in DOMAIN t : s # r => u[s] = t[s]
  BY <1>1 DEF Guard!With
<1>3. IsFiniteSet(DOMAIN u) /\ Cardinality(DOMAIN u) <= MaxRemotes
  <2>1. CASE r \in DOMAIN t
    <3>1. DOMAIN u = DOMAIN t
      BY <1>2, <2>1
    <3> QED BY <3>1 DEF Table
  <2>2. CASE r \notin DOMAIN t
    <3>1. IsFiniteSet(DOMAIN u) /\ Cardinality(DOMAIN u) = Cardinality(DOMAIN t) + 1
      BY <1>2, <2>2, FS_AddElement DEF Table
    <3>2. Cardinality(DOMAIN t) \in Nat
      BY FS_CardinalityType DEF Table
    <3> QED BY <2>2, <3>1, <3>2, GuardConstants
  <2> QED BY <2>1, <2>2
<1>4. \A s \in DOMAIN u : u[s] \in Record
  BY <1>2 DEF Table
<1> QED BY <1>1, <1>2, <1>3, <1>4 DEF Table

LEMMA WithoutKeeps ==
  ASSUME Guard!GuardAssumption, NEW t, Table(t), NEW gone
  PROVE  /\ Table(Guard!Without(t, gone)) /\ DOMAIN Guard!Without(t, gone) = DOMAIN t \ gone
         /\ \A s \in DOMAIN t \ gone : Guard!Without(t, gone)[s] = t[s]
<1>1. PICK u : u = Guard!Without(t, gone)
  OBVIOUS
<1>2. DOMAIN u = DOMAIN t \ gone /\ \A s \in DOMAIN t \ gone : u[s] = t[s]
  BY <1>1 DEF Guard!Without
<1>3. IsFiniteSet(DOMAIN u) /\ Cardinality(DOMAIN u) <= Cardinality(DOMAIN t)
  <2>1. DOMAIN u \in SUBSET DOMAIN t /\ IsFiniteSet(DOMAIN t)
    BY <1>2 DEF Table
  <2> QED BY <2>1, FS_Subset
<1>4. Cardinality(DOMAIN u) \in Nat /\ Cardinality(DOMAIN t) \in Nat
  BY <1>3, FS_CardinalityType DEF Table
<1>5. Cardinality(DOMAIN u) <= MaxRemotes
  <2>1. Cardinality(DOMAIN t) <= MaxRemotes /\ MaxRemotes \in Nat
    BY GuardConstants DEF Table
  <2> QED BY <1>3, <1>4, <2>1
<1>6. Table(u)
  BY <1>2, <1>3, <1>5 DEF Table
<1> QED BY <1>1, <1>2, <1>6

(* Room is made for one more by leaving out only who may be left out.       *)
LEMMA RoomsKeep ==
  ASSUME Guard!GuardAssumption, NEW t, Table(t), NEW u \in Guard!Rooms(t)
  PROVE  Table(u) /\ Cardinality(DOMAIN u) < MaxRemotes /\ Spared(t, u)
<1>1. /\ IsFiniteSet(DOMAIN t) /\ Cardinality(DOMAIN t) <= MaxRemotes /\ Cardinality(DOMAIN t) \in Nat
      /\ MaxRemotes \in Nat \ {0}
  BY FS_CardinalityType, GuardConstants DEF Table
<1>2. \A v : Guard!Full(v) <=> Cardinality(DOMAIN v) >= MaxRemotes
  BY GuardSets DEF Guard!Full
<1>3. PICK p : p = Guard!Pruned(t)
  OBVIOUS
<1>4. PICK old : old = {r \in DOMAIN t : t[r].ban = 0 /\ t[r].seen > StaleAfter}
  OBVIOUS
<1>5. p = Guard!Without(t, old)
  BY <1>3, <1>4, Zenon DEF Guard!Pruned
<1>6. Table(p) /\ DOMAIN p = DOMAIN t \ old /\ \A s \in DOMAIN t \ old : p[s] = t[s]
  BY <1>5, WithoutKeeps, Zenon
<1>7. IsFiniteSet(DOMAIN p) /\ Cardinality(DOMAIN p) <= MaxRemotes /\ Cardinality(DOMAIN p) \in Nat
  BY <1>6, FS_CardinalityType DEF Table
<1>8. CASE ~Guard!Full(t)
  <2>1. u = t
    BY <1>8, Zenon DEF Guard!Rooms
  <2>2. Cardinality(DOMAIN u) < MaxRemotes
    BY <1>1, <1>2, <1>8, <2>1
  <2> QED BY <2>1, <2>2 DEF Spared
<1>9. CASE Guard!Full(t) /\ ~Guard!Full(p)
  <2>1. u = p
    BY <1>3, <1>9, Zenon DEF Guard!Rooms
  <2>2. Cardinality(DOMAIN u) < MaxRemotes
    BY <1>2, <1>7, <1>1, <1>9, <2>1
  <2>3. \A r \in DOMAIN t \ DOMAIN u : r \in old
    BY <1>6, <2>1
  <2>4. \A r \in DOMAIN t \ DOMAIN u : ~(t[r].ban > 0)
    BY <1>4, <2>3
  <2>5. Spared(t, u)
    BY <2>4, Zenon DEF Spared
  <2> QED BY <1>6, <2>1, <2>2, <2>5
<1>10. CASE Guard!Full(t) /\ Guard!Full(p)
  <2>1. PICK r \in Guard!Victims(p) : u = Guard!Without(p, {r})
    BY <1>3, <1>10, Zenon DEF Guard!Rooms
  <2>2. Cardinality(DOMAIN p) = Cardinality(DOMAIN t)
    <3>1. DOMAIN p \in SUBSET DOMAIN t
      BY <1>6
    <3>2. Cardinality(DOMAIN p) <= Cardinality(DOMAIN t)
      BY <1>1, <3>1, FS_Subset
    <3>3. Cardinality(DOMAIN p) >= MaxRemotes
      BY <1>2, <1>10
    <3> QED BY <1>1, <1>7, <3>2, <3>3
  <2>3. DOMAIN p = DOMAIN t
    <3>1. DOMAIN p \in SUBSET DOMAIN t
      BY <1>6
    <3> QED BY <1>1, <2>2, <3>1, FS_Subset
  <2>4. r \in DOMAIN t /\ \A s \in DOMAIN t : Guard!GoesFirst(t[r], t[s])
    BY <1>6, <2>1, <2>3 DEF Guard!Victims
  <2>5. Table(u) /\ DOMAIN u = DOMAIN t \ {r}
    <3>1. Table(u) /\ DOMAIN u = DOMAIN p \ {r}
      BY <1>6, <2>1, WithoutKeeps, Zenon
    <3> QED BY <2>3, <3>1
  <2>6. Cardinality(DOMAIN u) < MaxRemotes
    <3>1. Cardinality(DOMAIN u) = Cardinality(DOMAIN t) - 1
      BY <1>1, <2>4, <2>5, FS_RemoveElement
    <3> QED BY <1>1, <3>1
  <2>7. ASSUME t[r].ban > 0, NEW s \in DOMAIN t PROVE t[s].ban >= t[r].ban
    <3>1. t[r].ban \in Nat /\ t[s].ban \in Nat
      <4>1. t[r] \in Record /\ t[s] \in Record
        BY <2>4 DEF Table
      <4> QED BY <4>1 DEF Record
    <3>2. Guard!GoesFirst(t[r], t[s])
      BY <2>4
    <3> QED BY <2>7, <3>1, <3>2 DEF Guard!GoesFirst
  <2>8. Cardinality(DOMAIN t) >= MaxRemotes
    BY <1>2, <1>10
  <2>9. Spared(t, u)
    <3>1. \A s \in DOMAIN t \ DOMAIN u : s = r
      BY <2>5
    <3> QED BY <2>7, <2>8, <3>1, Zenon DEF Spared
  <2> QED BY <2>5, <2>6, <2>9
<1> QED BY <1>8, <1>9, <1>10

LEMMA RecordedKeeps ==
  ASSUME Guard!GuardAssumption, Table(records), NEW r \in Remotes, NEW v \in Guard!Recorded(r)
  PROVE  Table(v) /\ r \in DOMAIN v /\ v[r] \in Record /\ Spared(records, v)
<1>1. Table(v) /\ r \in DOMAIN v /\ Spared(records, v)
  <2>1. CASE r \in DOMAIN records
    <3>1. PICK x : x = Guard!InWindow(records[r])
      OBVIOUS
    <3>2. x \in Record
      <4>1. records[r] \in Record
        BY <2>1 DEF Table
      <4> QED BY <3>1, <4>1, WindowOk, Zenon
    <3>3. v = Guard!With(records, r, x)
      BY <2>1, <3>1, Zenon DEF Guard!Recorded
    <3>4. Table(v) /\ DOMAIN v = DOMAIN records \cup {r}
      BY <2>1, <3>2, <3>3, WithKeeps, Zenon
    <3> QED BY <3>4, Zenon DEF Spared
  <2>2. CASE r \notin DOMAIN records
    <3>1. PICK u \in Guard!Rooms(records) : v = Guard!With(u, r, Guard!New)
      BY <2>2, Zenon DEF Guard!Recorded
    <3>2. PICK x : x = Guard!New
      OBVIOUS
    <3>3. x \in Record
      BY <3>2, GuardConstants DEF Guard!New, Record
    <3>4. Table(u) /\ Cardinality(DOMAIN u) < MaxRemotes /\ Spared(records, u)
      BY RoomsKeep, Zenon
    <3>5. v = Guard!With(u, r, x)
      BY <3>1, <3>2
    <3>6. Table(v) /\ DOMAIN v = DOMAIN u \cup {r}
      BY <3>3, <3>4, <3>5, WithKeeps, Zenon
    <3>7. \A s \in DOMAIN records \ DOMAIN v : s \in DOMAIN records \ DOMAIN u
      BY <3>6
    <3>8. Spared(records, v)
      BY <3>4, <3>7, Zenon DEF Spared
    <3> QED BY <3>6, <3>8
  <2> QED BY <2>1, <2>2
<1>2. v[r] \in Record
  BY <1>1 DEF Table
<1> QED BY <1>1, <1>2

(* A table to which a record of one of its addresses goes back.             *)
LEMMA BackKeeps ==
  ASSUME Guard!GuardAssumption, Table(records), NEW r \in Remotes, NEW v \in Guard!Recorded(r), NEW x \in Record
  PROVE  Table(Guard!With(v, r, x)) /\ Spared(records, Guard!With(v, r, x))
<1>1. Table(v) /\ r \in DOMAIN v /\ Spared(records, v)
  BY RecordedKeeps, Zenon
<1>2. PICK u : u = Guard!With(v, r, x)
  OBVIOUS
<1>3. Table(u) /\ DOMAIN u = DOMAIN v \cup {r}
  BY <1>1, <1>2, WithKeeps, Zenon
<1>4. DOMAIN u = DOMAIN v
  BY <1>1, <1>3
<1>5. Spared(records, u)
  BY <1>1, <1>4, Zenon DEF Spared
<1> QED BY <1>2, <1>3, <1>5

LEMMA AllowKeeps ==
  ASSUME Guard!GuardAssumption, PenaltiesFit, Table(records), NEW r \in Remotes, NEW cost \in Nat, Guard!Allow(r, cost)
  PROVE  Table(records') /\ Spared(records, records')
<1> DEFINE Noted(v, record, spent) ==
             /\ record = v[r] /\ spent = record.cost + cost
             /\ \/ records' = v
                \/ records' = Guard!With(v, r, Guard!Penalized([record EXCEPT !.cost = spent], 4))
                \/ records' = Guard!With(v, r, [record EXCEPT !.cost = spent])
<1>0. PICK v \in Guard!Recorded(r) : \E record, spent : Noted(v, record, spent)
  BY Zenon DEF Guard!Allow
<1>1. PICK record, spent : Noted(v, record, spent)
  BY <1>0
<1>2. Table(v) /\ Spared(records, v) /\ record \in Record
  BY <1>1, RecordedKeeps, Zenon
<1>3. PICK x : x = [record EXCEPT !.cost = spent]
  OBVIOUS
<1>4. x \in Record
  <2>1. record.cost \in Nat
    BY <1>2 DEF Record
  <2>2. spent \in Nat
    BY <1>1, <2>1
  <2> QED BY <1>2, <1>3, <2>2 DEF Record
<1>5. CASE records' = v
  BY <1>2, <1>5
<1>6. CASE records' = Guard!With(v, r, Guard!Penalized([record EXCEPT !.cost = spent], 4))
  <2>1. PICK y : y = Guard!Penalized(x, 4)
    OBVIOUS
  <2>2. 4 \in 1..4
    OBVIOUS
  <2>3. y \in Record
    BY <1>4, <2>1, <2>2, PenalizedOk, Zenon
  <2>4. records' = Guard!With(v, r, y)
    BY <1>3, <1>6, <2>1
  <2> QED BY <2>3, <2>4, BackKeeps, Zenon
<1>7. CASE records' = Guard!With(v, r, [record EXCEPT !.cost = spent])
  <2>1. records' = Guard!With(v, r, x)
    BY <1>3, <1>7
  <2> QED BY <1>4, <2>1, BackKeeps, Zenon
<1> QED BY <1>1, <1>5, <1>6, <1>7

LEMMA SettleKeeps ==
  ASSUME Guard!GuardAssumption, PenaltiesFit, Table(records), NEW r \in Remotes, Guard!Settle(r)
  PROVE  Table(records') /\ Spared(records, records')
<1>1. CASE records' = records
  BY <1>1, Zenon DEF Spared
<1>2. ASSUME NEW v \in Guard!Recorded(r), records' = Guard!With(v, r, Guard!Forgiven(v[r]))
      PROVE  Table(records') /\ Spared(records, records')
  <2>1. PICK x, y : x = v[r] /\ y = Guard!Forgiven(x)
    OBVIOUS
  <2>2. x \in Record
    BY <2>1, RecordedKeeps, Zenon
  <2>3. y \in Record
    BY <2>1, <2>2, ForgivenOk, Zenon
  <2>4. records' = Guard!With(v, r, y)
    BY <1>2, <2>1
  <2> QED BY <2>3, <2>4, BackKeeps, Zenon
<1>3. ASSUME NEW v \in Guard!Recorded(r), records' = Guard!With(v, r, Guard!Penalized(v[r], 1))
      PROVE  Table(records') /\ Spared(records, records')
  <2>1. PICK x, y : x = v[r] /\ y = Guard!Penalized(x, 1)
    OBVIOUS
  <2>2. x \in Record
    BY <2>1, RecordedKeeps, Zenon
  <2>3. 1 \in 1..4
    OBVIOUS
  <2>4. y \in Record
    BY <2>1, <2>2, <2>3, PenalizedOk, Zenon
  <2>5. records' = Guard!With(v, r, y)
    BY <1>3, <2>1
  <2> QED BY <2>4, <2>5, BackKeeps, Zenon
<1> QED BY <1>1, <1>2, <1>3, Zenon DEF Guard!Settle

LEMMA GuardFurther ==
  ASSUME Guard!GuardAssumption, PenaltiesFit, Table(records), [Guard!Next]_(Guard!vars)
  PROVE  Table(records') /\ Spared(records, records')
<1>1. CASE records' = records
  BY <1>1, Zenon DEF Spared
<1>2. CASE Guard!Tick
  <2>1. DOMAIN records' = DOMAIN records /\ \A r \in DOMAIN records : records'[r] = Guard!Elapsed(records[r])
    BY <1>2 DEF Guard!Tick
  <2>2. ASSUME NEW r \in DOMAIN records PROVE records'[r] \in Record
    <3>1. records[r] \in Record
      BY DEF Table
    <3>2. Guard!Elapsed(records[r]) \in Record
      BY <3>1, ElapsedOk, Zenon
    <3> QED BY <2>1, <3>2
  <2>3. Table(records')
    BY <2>1, <2>2 DEF Table
  <2> QED BY <2>1, <2>3, Zenon DEF Spared
<1>3. CASE Guard!Snapshot
  <2>1. PICK old : old = {r \in DOMAIN records : records[r].ban = 0 /\ records[r].seen > StaleAfter}
    OBVIOUS
  <2>2. records' = Guard!Without(records, old)
    BY <1>3, <2>1, Zenon DEF Guard!Snapshot, Guard!Pruned
  <2>3. Table(records') /\ DOMAIN records' = DOMAIN records \ old
    BY <2>2, WithoutKeeps, Zenon
  <2>4. \A r \in DOMAIN records \ DOMAIN records' : ~(records[r].ban > 0)
    BY <2>1, <2>3
  <2>5. Spared(records, records')
    BY <2>4, Zenon DEF Spared
  <2> QED BY <2>3, <2>5
<1>4. ASSUME NEW r \in Remotes, Guard!Allow(r, 1) \/ Guard!Allow(r, PostCost)
      PROVE  Table(records') /\ Spared(records, records')
  <2>1. 1 \in Nat /\ PostCost \in Nat
    BY GuardConstants
  <2> QED BY <1>4, <2>1, AllowKeeps, Zenon
<1>5. ASSUME NEW r \in Remotes, Guard!Settle(r)
      PROVE  Table(records') /\ Spared(records, records')
  BY <1>5, SettleKeeps, Zenon
<1>6. ASSUME NEW r \in Remotes, Guard!Unguarded(r)
      PROVE  records' = records
  BY <1>6 DEF Guard!Unguarded
<1>7. CASE UNCHANGED Guard!vars
  BY <1>1, <1>7 DEF Guard!vars
<1> QED BY <1>1, <1>2, <1>3, <1>4, <1>5, <1>6, <1>7, Zenon DEF Guard!Next

(* The table of addresses, the bans and the scores stay within their        *)
(* bounds, whoever asks for what.                                           *)
THEOREM GuardBounded ==
  ASSUME Guard!GuardAssumption
  PROVE  Guard!Spec => []Guard!TypeOK
<1>0. PenaltiesFit
  BY DEF Guard!GuardAssumption, PenaltiesFit
<1>1. Guard!Init => Table(records)
  <2>1. SUFFICES ASSUME Guard!Init PROVE Table(records)
    OBVIOUS
  <2>2. DOMAIN records = {}
    BY <2>1 DEF Guard!Init
  <2>3. IsFiniteSet({}) /\ Cardinality({}) = 0
    BY FS_EmptySet
  <2> QED BY <2>2, <2>3, GuardConstants DEF Table
<1>2. Table(records) /\ [Guard!Next]_(Guard!vars) => Table(records)'
  BY <1>0, GuardFurther DEF Table
<1>3. Table(records) => Guard!TypeOK
  BY GuardSets DEF Table, Record, Guard!TypeOK
<1> QED BY <1>1, <1>2, <1>3, PTL DEF Guard!Spec

(* However many addresses come: a ban is forgotten only where every address *)
(* of a full table is banned, and none of them for less.                    *)
THEOREM BansGoLast ==
  ASSUME Guard!GuardAssumption
  PROVE  Guard!Spec => [][Guard!BannedGoLast]_(Guard!vars)
<1>0. PenaltiesFit
  BY DEF Guard!GuardAssumption, PenaltiesFit
<1>1. Guard!Init => Table(records)
  <2>1. SUFFICES ASSUME Guard!Init PROVE Table(records)
    OBVIOUS
  <2>2. DOMAIN records = {}
    BY <2>1 DEF Guard!Init
  <2>3. IsFiniteSet({}) /\ Cardinality({}) = 0
    BY FS_EmptySet
  <2> QED BY <2>2, <2>3, GuardConstants DEF Table
<1>2. Table(records) /\ [Guard!Next]_(Guard!vars) => Table(records)'
  BY <1>0, GuardFurther DEF Table
<1>3. Table(records) /\ [Guard!Next]_(Guard!vars) => [Guard!BannedGoLast]_(Guard!vars)
  <2>1. SUFFICES ASSUME Table(records), [Guard!Next]_(Guard!vars) PROVE Guard!BannedGoLast
    OBVIOUS
  <2>2. Spared(records, records')
    BY <1>0, <2>1, GuardFurther
  <2>3. Guard!Full(records) <=> Cardinality(DOMAIN records) >= MaxRemotes
    BY GuardSets DEF Guard!Full
  <2> QED BY <2>2, <2>3 DEF Spared, Guard!BannedGoLast
<1> QED BY <1>1, <1>2, <1>3, PTL DEF Guard!Spec

(* The directory of descriptors (PeerDirectory), as the set of its records. *)
CONSTANTS Own_, Sources, SelfSource, MaxIssued, MaxPerSource, MaxUnverified, Strikes
VARIABLES entries, hardened
Directory == INSTANCE PeerDirectory WITH Own <- Own_

Descriptor == [key : Keys, issued : Nat, source : Sources, auth : BOOLEAN, fails : Nat]
Fine(s) == s \in Seq(Descriptor) /\ \A i, j \in DOMAIN s : s[i].key = s[j].key => i = j
Listed(s) == {s[i] : i \in DOMAIN s}
OneEach(R) == \A e, f \in R : e.key = f.key => e = f

LEMMA DirectorySets ==
  ASSUME NEW S
  PROVE  Directory!Cardinality(S) = Cardinality(S) /\ Directory!IsFiniteSet(S) = IsFiniteSet(S)
BY DEF Directory!Cardinality, Cardinality, Directory!IsFiniteSet, IsFiniteSet

(* In a finite set of naturals, one member has any given number of smaller  *)
(* ones, and no other has as many.                                          *)
LEMMA OneBelow ==
  ASSUME NEW K \in SUBSET Nat, IsFiniteSet(K), NEW i \in K, NEW j \in K, i < j
  PROVE  Cardinality({x \in K : x < i}) < Cardinality({x \in K : x < j})
<1> DEFINE A == {x \in K : x < i}
           B == {x \in K : x < j}
<1>1. IsFiniteSet(A) /\ IsFiniteSet(B)
  BY FS_Subset
<1>2. i \notin A /\ A \cup {i} \in SUBSET B
  <2>1. i \in Nat /\ j \in Nat /\ \A x \in K : x \in Nat
    OBVIOUS
  <2>2. i \notin A /\ i \in B
    BY <2>1
  <2>3. ASSUME NEW x \in A PROVE x \in B
    <3>1. x \in K /\ x < i /\ x \in Nat
      BY <2>1
    <3>2. x < j
      BY <2>1, <3>1
    <3> QED BY <3>1, <3>2
  <2> HIDE DEF A, B
  <2> QED BY <2>2, <2>3
<1>3. Cardinality(A \cup {i}) = Cardinality(A) + 1 /\ Cardinality(A) \in Nat /\ Cardinality(B) \in Nat
  BY <1>1, <1>2, FS_AddElement, FS_CardinalityType
<1>4. Cardinality(A \cup {i}) <= Cardinality(B)
  BY <1>1, <1>2, FS_Subset
<1> QED BY <1>3, <1>4

LEMMA GreatestOf ==
  ASSUME NEW K \in SUBSET Nat, IsFiniteSet(K), K # {}
  PROVE  \E m \in K : \A x \in K : x <= m
<1> DEFINE Good == {T \in SUBSET K : T # {} => \E m \in T : \A x \in T : x <= m}
<1>1. {} \in Good
  OBVIOUS
<1>2. ASSUME NEW T \in SUBSET K, NEW y \in T, T \ {y} \in Good PROVE T \in Good
  <2>1. CASE T \ {y} = {}
    <3>1. \A x \in T : x = y
      BY <2>1
    <3> QED BY <3>1
  <2>2. CASE T \ {y} # {}
    <3>1. PICK m \in T \ {y} : \A x \in T \ {y} : x <= m
      BY <1>2, <2>2
    <3>2. m \in Nat /\ y \in Nat /\ T \subseteq Nat
      OBVIOUS
    <3>3. CASE m <= y
      <4>1. \A x \in T : x <= y
        BY <3>1, <3>2, <3>3
      <4> QED BY <4>1
    <3>4. CASE y <= m
      <4>1. \A x \in T : x <= m
        BY <3>1, <3>2, <3>4
      <4> QED BY <4>1
    <3> QED BY <3>2, <3>3, <3>4
  <2> QED BY <2>1, <2>2
<1>3. Good \in SUBSET SUBSET K
  OBVIOUS
<1> HIDE DEF Good
<1>4. K \in Good
  BY <1>1, <1>2, <1>3, SubsetInduction
<1> QED BY <1>4 DEF Good

LEMMA SomeBelow ==
  ASSUME NEW K \in SUBSET Nat, IsFiniteSet(K), NEW n \in 1..Cardinality(K)
  PROVE  \E i \in K : Cardinality({x \in K : x < i}) = n - 1
<1> DEFINE Fits(T, m) == \E i \in T : Cardinality({x \in T : x < i}) = m - 1
           N == {c \in Nat : \A T \in SUBSET K : Cardinality(T) = c => \A m \in 1..c : Fits(T, m)}
<1>1. 0 \in N
  OBVIOUS
<1>2. ASSUME NEW c \in N PROVE c + 1 \in N
  <2> SUFFICES ASSUME NEW T \in SUBSET K, Cardinality(T) = c + 1, NEW m \in 1..(c + 1) PROVE Fits(T, m)
    OBVIOUS
  <2>1. c \in Nat /\ IsFiniteSet(T) /\ T \in SUBSET Nat
    <3>1. IsFiniteSet(T)
      BY FS_Subset
    <3> QED BY <3>1
  <2>2. T # {}
    BY <2>1, FS_EmptySet
  <2>3. PICK g \in T : \A x \in T : x <= g
    BY <2>1, <2>2, GreatestOf
  <2>4. T \ {g} \in SUBSET K /\ IsFiniteSet(T \ {g}) /\ Cardinality(T \ {g}) = c
    <3>1. IsFiniteSet(T \ {g}) /\ Cardinality(T \ {g}) = Cardinality(T) - 1
      BY <2>1, <2>3, FS_RemoveElement
    <3> QED BY <2>1, <3>1
  <2>5. CASE m = c + 1
    <3>1. {x \in T : x < g} = T \ {g}
      <4>1. ASSUME NEW x \in T PROVE x < g <=> x # g
        <5>1. x \in Nat /\ g \in Nat /\ x <= g
          BY <2>1, <2>3
        <5> QED BY <5>1
      <4> QED BY <4>1
    <3>2. Cardinality({x \in T : x < g}) = m - 1
      BY <2>1, <2>4, <2>5, <3>1
    <3> QED BY <3>2
  <2>6. CASE m # c + 1
    <3>1. m \in 1..c
      BY <2>1, <2>6
    <3>2. Fits(T \ {g}, m)
      BY <1>2, <2>4, <3>1
    <3>3. PICK i \in T \ {g} : Cardinality({x \in T \ {g} : x < i}) = m - 1
      BY <3>2
    <3>4. {x \in T \ {g} : x < i} = {x \in T : x < i}
      BY <2>1, <2>3
    <3>5. Cardinality({x \in T : x < i}) = m - 1
      BY <3>3, <3>4
    <3> QED BY <3>5
  <2> QED BY <2>5, <2>6
<1>3. N \in SUBSET Nat
  OBVIOUS
<1> HIDE DEF N, Fits
<1>4. N = Nat
  BY <1>1, <1>2, <1>3, SetInduction
<1>5. Cardinality(K) \in N
  BY <1>4, FS_CardinalityType
<1>6. Fits(K, n)
  BY <1>5 DEF N
<1> QED BY <1>6 DEF Fits

LEMMA NthIs ==
  ASSUME NEW K \in SUBSET Nat, IsFiniteSet(K), NEW n \in 1..Cardinality(K)
  PROVE  Directory!Nth(K, n) \in K /\ Cardinality({x \in K : x < Directory!Nth(K, n)}) = n - 1
<1>1. \E i \in K : Directory!Cardinality({x \in K : x < i}) = n - 1
  BY SomeBelow, DirectorySets
<1>2. Directory!Nth(K, n) \in K /\ Directory!Cardinality({x \in K : x < Directory!Nth(K, n)}) = n - 1
  BY <1>1, Zenon DEF Directory!Nth
<1> QED BY <1>2, DirectorySets

LEMMA NthOf ==
  ASSUME NEW K \in SUBSET Nat, IsFiniteSet(K), NEW i \in K
  PROVE  \E n \in 1..Cardinality(K) : Directory!Nth(K, n) = i
<1> DEFINE B == {x \in K : x < i}
<1>1. IsFiniteSet(B) /\ B \subseteq K /\ B # K /\ Cardinality(K) \in Nat /\ Cardinality(B) \in Nat
  BY FS_Subset, FS_CardinalityType
<1>2. Cardinality(B) < Cardinality(K)
  BY <1>1, FS_Subset
<1>3. PICK n \in 1..Cardinality(K) : n = Cardinality(B) + 1
  <2>1. Cardinality(B) + 1 \in 1..Cardinality(K)
    <3>1. PICK b \in Nat, c \in Nat : b = Cardinality(B) /\ c = Cardinality(K)
      BY <1>1
    <3>2. b < c
      BY <1>2, <3>1
    <3>3. b + 1 \in 1..c
      BY <3>2
    <3> QED BY <3>1, <3>3
  <2> QED BY <2>1
<1>4. PICK k \in K : k = Directory!Nth(K, n) /\ Cardinality({x \in K : x < k}) = n - 1
  BY NthIs
<1>5. Cardinality({x \in K : x < k}) = Cardinality(B)
  BY <1>1, <1>3, <1>4
<1>6. ~(k < i) /\ ~(i < k)
  <2>1. CASE k < i
    BY <1>1, <1>5, <2>1, OneBelow
  <2>2. CASE i < k
    BY <1>1, <1>5, <2>2, OneBelow
  <2> QED BY <2>1, <2>2
<1>7. k = i
  BY <1>6
<1> QED BY <1>4, <1>7

(* What is kept of a list has exactly the records at the positions kept.    *)
LEMMA KeepIs ==
  ASSUME NEW s, Fine(s), NEW K \in SUBSET DOMAIN s
  PROVE  /\ Fine(Directory!Keep(s, K)) /\ Len(Directory!Keep(s, K)) = Cardinality(K) /\ IsFiniteSet(K)
         /\ \A e : e \in Listed(Directory!Keep(s, K)) <=> \E i \in K : e = s[i]
<1>1. DOMAIN s = 1..Len(s) /\ Len(s) \in Nat /\ s \in [1..Len(s) -> Descriptor]
  BY LenProperties DEF Fine
<1>2. K \in SUBSET Nat /\ IsFiniteSet(K) /\ Cardinality(K) \in Nat
  <2>1. IsFiniteSet(1..Len(s)) /\ K \in SUBSET (1..Len(s))
    BY <1>1, FS_Interval
  <2>2. IsFiniteSet(K)
    BY <2>1, FS_Subset
  <2> QED BY <2>1, <2>2, FS_CardinalityType
<1>3. PICK c \in Nat : c = Cardinality(K)
  BY <1>2
<1>4. PICK p : p = [n \in 1..c |-> Directory!Nth(K, n)]
  OBVIOUS
<1>5. ASSUME NEW n \in 1..c PROVE p[n] \in K /\ Cardinality({x \in K : x < p[n]}) = n - 1 /\ p[n] = Directory!Nth(K, n)
  <2>1. p[n] = Directory!Nth(K, n)
    BY <1>4
  <2> QED BY <1>2, <1>3, <2>1, NthIs
<1>6. PICK t : t = Directory!Keep(s, K)
  OBVIOUS
<1>7. t = [n \in 1..c |-> s[Directory!Nth(K, n)]]
  BY <1>3, <1>6, DirectorySets DEF Directory!Keep
<1>8. DOMAIN t = 1..c /\ \A n \in 1..c : t[n] = s[p[n]]
  BY <1>5, <1>7
<1>9. t \in [1..c -> Descriptor]
  <2>1. ASSUME NEW n \in 1..c PROVE s[Directory!Nth(K, n)] \in Descriptor
    <3>1. Directory!Nth(K, n) \in 1..Len(s)
      BY <1>1, <1>5
    <3> QED BY <1>1, <3>1
  <2> QED BY <1>7, <2>1, Zenon
<1>10. t \in Seq(Descriptor) /\ Len(t) = c
  BY <1>8, <1>9, SeqDef, LenProperties
<1>11. ASSUME NEW m \in DOMAIN t, NEW n \in DOMAIN t, t[m].key = t[n].key PROVE m = n
  <2>1. m \in 1..c /\ n \in 1..c /\ p[m] \in DOMAIN s /\ p[n] \in DOMAIN s
    BY <1>5, <1>8, <1>11
  <2>2. p[m] = p[n]
    BY <1>8, <1>11, <2>1 DEF Fine
  <2>3. m - 1 = n - 1
    BY <1>5, <2>1, <2>2
  <2> QED BY <2>1, <2>3
<1>12. Fine(t)
  BY <1>10, <1>11 DEF Fine
<1>13. ASSUME NEW e PROVE e \in Listed(t) <=> \E i \in K : e = s[i]
  <2>1. ASSUME e \in Listed(t) PROVE \E i \in K : e = s[i]
    <3>1. PICK n \in 1..c : e = t[n]
      BY <1>8, <2>1 DEF Listed
    <3> QED BY <1>5, <1>8, <3>1
  <2>2. ASSUME NEW i \in K, e = s[i] PROVE e \in Listed(t)
    <3>1. PICK n \in 1..c : Directory!Nth(K, n) = i
      BY <1>2, <1>3, NthOf
    <3>2. n \in DOMAIN t /\ t[n] = e
      BY <1>5, <1>8, <2>2, <3>1
    <3> QED BY <3>2 DEF Listed
  <2> QED BY <2>1, <2>2
<1> QED BY <1>2, <1>3, <1>6, <1>10, <1>12, <1>13

(* What an eviction of D from E down to a limit is: what is protected       *)
(* stays, what is left fits, nothing goes without need, and if one is too   *)
(* many, it is of the lowest rank.                                          *)
(* What an eviction does to the set of the records it looks at.             *)
Kept(X, strict) == {e \in X : ~Directory!Protected(e, strict)}
Cut(E, D, limit, strict) ==
  /\ D \subseteq E /\ IsFiniteSet(E)
  /\ \A e \in D : ~Directory!Protected(e, strict)
  /\ Cardinality(Kept(E \ D, strict)) <= limit
  /\ Cardinality(E \ Kept(E, strict)) <= limit => Cardinality(E \ D) <= limit
  /\ Cardinality(E) <= limit => D = {}
  /\ Cardinality(E) <= limit + 1 =>
       \A e \in D, f \in E : ~Directory!Protected(f, strict) => ~(Directory!Rank(f, strict) < Directory!Rank(e, strict))

LEMMA RankIs ==
  ASSUME NEW e, NEW strict
  PROVE  Directory!Rank(e, strict) \in 1..3
BY DEF Directory!Rank

(* The first to go of a set of positions.                                   *)
LEMMA FirstToGo ==
  ASSUME NEW s, NEW R \in SUBSET Nat, R # {}, NEW strict
  PROVE  \E i \in R : \A j \in R : ~Directory!GoesBefore(s, j, i, strict)
<1> DEFINE ranks == {n \in Nat : \E i \in R : Directory!Rank(s[i], strict) = n}
<1>1. ranks \in SUBSET Nat /\ ranks # {}
  <2>1. PICK i \in R : TRUE
    OBVIOUS
  <2>2. PICK n \in 1..3 : n = Directory!Rank(s[i], strict)
    BY RankIs
  <2>3. n \in ranks
    BY <2>2
  <2> QED BY <2>3
<1>2. PICK r \in ranks : \A n \in ranks : r <= n
  BY <1>1, LeastElement
<1> DEFINE lowest == {i \in R : Directory!Rank(s[i], strict) = r}
<1>3. lowest \in SUBSET Nat /\ lowest # {}
  OBVIOUS
<1>4. PICK i \in lowest : \A j \in lowest : i <= j
  <2> HIDE DEF lowest
  <2> QED BY <1>3, LeastElement
<1>5. ASSUME NEW j \in R, Directory!GoesBefore(s, j, i, strict) PROVE FALSE
  <2>1. PICK a \in 1..3, b \in 1..3 : a = Directory!Rank(s[j], strict) /\ b = Directory!Rank(s[i], strict)
    BY RankIs
  <2>2. a \in ranks /\ b = r
    BY <2>1
  <2>3. r <= a
    BY <1>2, <2>2
  <2>4. a < b \/ (a = b /\ j < i)
    BY <1>5, <2>1 DEF Directory!GoesBefore
  <2>5. a = b /\ j < i
    BY <2>2, <2>3, <2>4
  <2>6. j \in lowest
    BY <2>1, <2>2, <2>5
  <2>7. i <= j /\ i \in Nat /\ j \in Nat
    BY <1>4, <2>6
  <2> QED BY <2>5, <2>7
<1> QED BY <1>5

(* The positions that go, and the records at them.                          *)
RecordsAt(T, s, J) == \A e : e \in T <=> \E i \in J : e = s[i]
GoesWell(s, inside, limit, strict, gone, loose) ==
  /\ gone \in SUBSET loose /\ loose \in SUBSET inside
  /\ Cardinality(loose \ gone) <= limit
  /\ Cardinality(inside \ loose) <= limit => Cardinality(inside \ gone) <= limit
  /\ Cardinality(inside) <= limit => gone = {}
  /\ Cardinality(inside) <= limit + 1 =>
       \A i \in gone, j \in loose : ~(Directory!Rank(s[j], strict) < Directory!Rank(s[i], strict))

LEMMA GoneSays ==
  ASSUME NEW s, NEW inside \in SUBSET Nat, IsFiniteSet(inside), NEW limit \in Nat, NEW strict,
         NEW gone, gone = Directory!Gone(s, inside, limit, strict),
         NEW loose, loose = Directory!Loose(s, inside, strict)
  PROVE  GoesWell(s, inside, limit, strict, gone, loose)
<1> DEFINE Before(i) == {j \in loose : Directory!GoesBefore(s, j, i, strict)}
<1>1. loose \in SUBSET inside /\ IsFiniteSet(loose) /\ Cardinality(inside) \in Nat
  BY FS_Subset, FS_CardinalityType DEF Directory!Loose
<1>2. gone = IF Cardinality(inside) <= limit THEN {} ELSE {i \in loose : limit + Cardinality(Before(i)) < Cardinality(inside)}
  <2>1. gone = IF Directory!Cardinality(inside) <= limit THEN {}
               ELSE {i \in loose : limit + Directory!Cardinality(Before(i)) < Directory!Cardinality(inside)}
    BY Zenon DEF Directory!Gone
  <2>2. Directory!Cardinality(inside) = Cardinality(inside) /\ \A i : Directory!Cardinality(Before(i)) = Cardinality(Before(i))
    BY DirectorySets
  <2> QED BY <2>1, <2>2, Zenon
<1>3. gone \in SUBSET loose
  BY <1>2
<1>4. \A i \in loose : Before(i) \in SUBSET loose /\ IsFiniteSet(Before(i)) /\ Cardinality(Before(i)) \in Nat
  BY <1>1, FS_Subset, FS_CardinalityType
<1>5. Cardinality(inside) <= limit => gone = {}
  BY <1>2
<1> HIDE DEF Before
<1>6. IsFiniteSet(loose \ gone) /\ IsFiniteSet(inside \ gone) /\ Cardinality(loose \ gone) \in Nat /\ Cardinality(inside \ gone) \in Nat
      /\ Cardinality(loose \ gone) <= Cardinality(inside \ gone) /\ Cardinality(inside \ gone) <= Cardinality(inside)
  <2>1. inside \ gone \in SUBSET inside /\ loose \ gone \in SUBSET (inside \ gone)
    BY <1>1
  <2>2. IsFiniteSet(inside \ gone) /\ Cardinality(inside \ gone) <= Cardinality(inside)
    BY <2>1, FS_Subset
  <2>3. IsFiniteSet(loose \ gone) /\ Cardinality(loose \ gone) <= Cardinality(inside \ gone)
    BY <2>1, <2>2, FS_Subset
  <2> QED BY <2>2, <2>3, FS_CardinalityType
<1>7. Cardinality(loose \ gone) <= limit /\ (Cardinality(inside \ loose) <= limit => Cardinality(inside \ gone) <= limit)
  <2>1. CASE loose \ gone = {}
    <3>1. Cardinality(loose \ gone) = 0 /\ inside \ gone = inside \ loose
      BY <1>3, <2>1, FS_EmptySet
    <3> QED BY <3>1
  <2>2. CASE Cardinality(inside) <= limit
    <3>1. PICK a \in Nat, b \in Nat, c \in Nat : a = Cardinality(loose \ gone) /\ b = Cardinality(inside \ gone) /\ c = Cardinality(inside)
      BY <1>1, <1>6
    <3>2. a <= b /\ b <= c /\ c <= limit
      BY <1>6, <2>2, <3>1
    <3>3. a <= limit /\ b <= limit
      BY <3>2
    <3> QED BY <3>1, <3>3
  <2>3. CASE loose \ gone # {} /\ ~(Cardinality(inside) <= limit)
    <3>1. PICK i \in loose \ gone : \A j \in loose \ gone : ~Directory!GoesBefore(s, j, i, strict)
      BY <1>1, <2>3, FirstToGo
    <3>2. ~(limit + Cardinality(Before(i)) < Cardinality(inside))
      BY <1>2, <2>3, <3>1
    <3>3. Before(i) \in SUBSET gone
      BY <3>1 DEF Before
    <3>4. inside \cap Before(i) = Before(i) /\ inside \ gone \in SUBSET (inside \ Before(i))
      BY <1>1, <1>3, <3>3
    <3>5. IsFiniteSet(inside \ Before(i)) /\ Cardinality(inside \ Before(i)) = Cardinality(inside) - Cardinality(Before(i))
      BY <3>4, FS_Difference
    <3>6. Cardinality(inside \ gone) <= Cardinality(inside \ Before(i))
      BY <3>4, <3>5, FS_Subset
    <3>7. PICK a \in Nat, b \in Nat, c \in Nat, d \in Nat : a = Cardinality(loose \ gone) /\ b = Cardinality(inside \ gone)
                 /\ c = Cardinality(inside) /\ d = Cardinality(Before(i))
      BY <1>1, <1>4, <1>6, <3>1
    <3>8. ~(limit + d < c) /\ b <= c - d /\ a <= b
      BY <1>6, <3>2, <3>5, <3>6, <3>7
    <3>9. a <= limit /\ b <= limit
      BY <3>8
    <3> QED BY <3>7, <3>9
  <2> QED BY <2>1, <2>2, <2>3
<1>8. ASSUME Cardinality(inside) <= limit + 1, NEW i \in gone, NEW j \in loose, Directory!Rank(s[j], strict) < Directory!Rank(s[i], strict)
      PROVE  FALSE
  <2>1. i \in loose /\ limit + Cardinality(Before(i)) < Cardinality(inside)
    BY <1>2, <1>8
  <2>2. j \in Before(i)
    BY <1>8 DEF Before, Directory!GoesBefore
  <2>3. PICK d \in Nat, c \in Nat : d = Cardinality(Before(i)) /\ c = Cardinality(inside)
    BY <1>1, <1>4, <2>1
  <2>4. d # 0
    BY <1>4, <2>1, <2>2, <2>3, FS_EmptySet
  <2>5. limit + d < c /\ c <= limit + 1
    BY <1>8, <2>1, <2>3
  <2> QED BY <2>4, <2>5
<1> QED BY <1>1, <1>3, <1>5, <1>7, <1>8 DEF GoesWell

(* Positions of a list and its records at them are as many.                 *)
LEMMA AsMany ==
  ASSUME NEW s, Fine(s), NEW J \in SUBSET DOMAIN s, NEW T, RecordsAt(T, s, J)
  PROVE  IsFiniteSet(J) /\ IsFiniteSet(T) /\ Cardinality(T) = Cardinality(J) /\ Cardinality(T) \in Nat
<1>1. DOMAIN s = 1..Len(s) /\ Len(s) \in Nat
  BY LenProperties DEF Fine
<1>2. IsFiniteSet(J)
  <2>1. IsFiniteSet(1..Len(s)) /\ J \in SUBSET (1..Len(s))
    BY <1>1, FS_Interval
  <2> QED BY <2>1, FS_Subset
<1>3. PICK f : f = [i \in J |-> s[i]]
  OBVIOUS
<1>4. DOMAIN f = J /\ \A i \in J : f[i] = s[i]
  BY <1>3
<1>5. f \in [J -> T]
  BY <1>3 DEF RecordsAt
<1>6. \A e \in T : \E i \in J : f[i] = e
  BY <1>4 DEF RecordsAt
<1>7. f \in Surjection(J, T)
  BY <1>5, <1>6 DEF Surjection
<1>8. ASSUME NEW i \in J, NEW j \in J, f[i] = f[j] PROVE i = j
  BY <1>4, <1>8 DEF Fine
<1>9. f \in Injection(J, T)
  BY <1>5, <1>8 DEF Injection, IsInjective
<1>10. IsFiniteSet(T) /\ Cardinality(T) = Cardinality(J)
  BY <1>2, <1>7, <1>9, FS_Surjection
<1> QED BY <1>2, <1>10, FS_CardinalityType

LEMMA GoneCuts ==
  ASSUME NEW s, Fine(s), NEW inside \in SUBSET DOMAIN s, NEW limit \in Nat, NEW strict,
         NEW E, RecordsAt(E, s, inside),
         NEW gone, gone = Directory!Gone(s, inside, limit, strict),
         NEW D, RecordsAt(D, s, gone)
  PROVE  Cut(E, D, limit, strict) /\ gone \in SUBSET inside
<1>1. PICK loose : loose = Directory!Loose(s, inside, strict)
  OBVIOUS
<1>2. inside \in SUBSET Nat /\ IsFiniteSet(inside) /\ IsFiniteSet(E) /\ Cardinality(E) = Cardinality(inside) /\ Cardinality(E) \in Nat
  <2>1. DOMAIN s \in SUBSET Nat
    <3>1. DOMAIN s = 1..Len(s)
      BY LenProperties DEF Fine
    <3> QED BY <3>1
  <2> QED BY <2>1, AsMany
<1>3. /\ gone \in SUBSET loose /\ loose \in SUBSET inside
      /\ Cardinality(loose \ gone) <= limit
      /\ Cardinality(inside \ loose) <= limit => Cardinality(inside \ gone) <= limit
      /\ Cardinality(inside) <= limit => gone = {}
      /\ Cardinality(inside) <= limit + 1 =>
           \A i \in gone, j \in loose : ~(Directory!Rank(s[j], strict) < Directory!Rank(s[i], strict))
  <2>1. GoesWell(s, inside, limit, strict, gone, loose)
    BY <1>1, <1>2, GoneSays
  <2> QED BY <2>1 DEF GoesWell
<1>4. \A i \in inside : i \in loose <=> ~Directory!Protected(s[i], strict)
  BY <1>1 DEF Directory!Loose
<1>5. \A i, j \in inside : s[i] = s[j] => i = j
  BY DEF Fine
<1>6. \A i \in inside : (s[i] \in E) /\ (s[i] \in D <=> i \in gone)
  BY <1>3, <1>5 DEF RecordsAt
<1>7. Cardinality(Kept(E \ D, strict)) = Cardinality(loose \ gone)
  <2>1. RecordsAt(Kept(E \ D, strict), s, loose \ gone)
    <3>1. ASSUME NEW e \in Kept(E \ D, strict) PROVE \E i \in loose \ gone : e = s[i]
      <4>1. e \in E /\ e \notin D /\ ~Directory!Protected(e, strict)
        BY DEF Kept
      <4>2. PICK i \in inside : e = s[i]
        BY <4>1 DEF RecordsAt
      <4> QED BY <1>4, <1>6, <4>1, <4>2
    <3>2. ASSUME NEW i \in loose \ gone PROVE s[i] \in Kept(E \ D, strict)
      <4>1. i \in inside /\ ~Directory!Protected(s[i], strict) /\ s[i] \in E /\ s[i] \notin D
        BY <1>3, <1>4, <1>6
      <4> QED BY <4>1 DEF Kept
    <3> QED BY <3>1, <3>2 DEF RecordsAt
  <2>2. loose \ gone \in SUBSET DOMAIN s
    BY <1>3
  <2> QED BY <2>1, <2>2, AsMany
<1>8. Cardinality(E \ Kept(E, strict)) = Cardinality(inside \ loose)
  <2>1. RecordsAt(E \ Kept(E, strict), s, inside \ loose)
    <3>1. ASSUME NEW e \in E \ Kept(E, strict) PROVE \E i \in inside \ loose : e = s[i]
      <4>1. e \in E /\ Directory!Protected(e, strict)
        BY DEF Kept
      <4>2. PICK i \in inside : e = s[i]
        BY <4>1 DEF RecordsAt
      <4> QED BY <1>4, <4>1, <4>2
    <3>2. ASSUME NEW i \in inside \ loose PROVE s[i] \in E \ Kept(E, strict)
      <4>1. Directory!Protected(s[i], strict) /\ s[i] \in E
        BY <1>4, <1>6
      <4> QED BY <4>1 DEF Kept
    <3> QED BY <3>1, <3>2 DEF RecordsAt
  <2>2. inside \ loose \in SUBSET DOMAIN s
    BY <1>3
  <2> QED BY <2>1, <2>2, AsMany
<1>9. Cardinality(E \ D) = Cardinality(inside \ gone)
  <2>1. RecordsAt(E \ D, s, inside \ gone)
    BY <1>6 DEF RecordsAt
  <2>2. inside \ gone \in SUBSET DOMAIN s
    OBVIOUS
  <2> QED BY <2>1, <2>2, AsMany
<1>10. D \subseteq E /\ \A e \in D : ~Directory!Protected(e, strict)
  BY <1>3, <1>4 DEF RecordsAt
<1>11. Cardinality(E) <= limit => D = {}
  BY <1>2, <1>3 DEF RecordsAt
<1>12. ASSUME Cardinality(E) <= limit + 1, NEW e \in D, NEW f \in E, ~Directory!Protected(f, strict),
              Directory!Rank(f, strict) < Directory!Rank(e, strict)
       PROVE  FALSE
  <2>1. PICK i \in gone : e = s[i]
    BY DEF RecordsAt
  <2>2. PICK j \in inside : f = s[j]
    BY DEF RecordsAt
  <2>3. j \in loose
    BY <1>4, <1>12, <2>2
  <2> QED BY <1>2, <1>3, <1>12, <2>1, <2>2, <2>3
<1>13. gone \in SUBSET inside
  BY <1>3
<1> QED BY <1>2, <1>3, <1>7, <1>8, <1>9, <1>10, <1>11, <1>12, <1>13 DEF Cut

(* What the bounds of register and configureAdmission cut.                  *)
LEMMA BoundSays ==
  ASSUME NEW s, Fine(s), NEW inside \in SUBSET DOMAIN s, NEW limit \in Nat, NEW strict,
         NEW E, RecordsAt(E, s, inside),
         NEW t, t = Directory!Bound(s, inside, limit, strict)
  PROVE  \E D : Cut(E, D, limit, strict) /\ Fine(t) /\ Listed(t) = Listed(s) \ D
<1>1. PICK gone : gone = Directory!Gone(s, inside, limit, strict)
  OBVIOUS
<1>2. PICK D : D = {s[i] : i \in gone}
  OBVIOUS
<1>3. RecordsAt(D, s, gone)
  BY <1>2 DEF RecordsAt
<1>4. Cut(E, D, limit, strict) /\ gone \in SUBSET inside
  BY <1>1, <1>3, GoneCuts
<1>5. t = IF gone = {} THEN s ELSE Directory!Keep(s, DOMAIN s \ gone)
  BY <1>1, Zenon DEF Directory!Bound
<1>6. CASE gone = {}
  <2>1. t = s /\ D = {}
    BY <1>3, <1>5, <1>6 DEF RecordsAt
  <2>2. Listed(t) = Listed(s) \ D
    BY <2>1
  <2> QED BY <1>4, <2>1, <2>2
<1>7. CASE gone # {}
  <2>1. t = Directory!Keep(s, DOMAIN s \ gone)
    BY <1>5, <1>7
  <2>2. DOMAIN s \ gone \in SUBSET DOMAIN s
    OBVIOUS
  <2>3. Fine(t) /\ \A e : e \in Listed(t) <=> \E i \in DOMAIN s \ gone : e = s[i]
    BY <2>1, <2>2, KeepIs
  <2>4. \A i, j \in DOMAIN s : s[i] = s[j] => i = j
    BY DEF Fine
  <2>5. \A e : e \in Listed(t) <=> e \in Listed(s) /\ e \notin D
    <3>1. ASSUME NEW e \in Listed(t) PROVE e \in Listed(s) /\ e \notin D
      <4>1. PICK i \in DOMAIN s \ gone : e = s[i]
        BY <2>3
      <4>2. e \notin D
        BY <1>3, <1>4, <2>4, <4>1 DEF RecordsAt
      <4> QED BY <4>1, <4>2 DEF Listed
    <3>2. ASSUME NEW e \in Listed(s), e \notin D PROVE e \in Listed(t)
      <4>1. PICK i \in DOMAIN s : e = s[i]
        BY DEF Listed
      <4>2. i \notin gone
        BY <1>3, <3>2, <4>1 DEF RecordsAt
      <4> QED BY <2>3, <4>1, <4>2
    <3> QED BY <3>1, <3>2
  <2>6. Listed(t) = Listed(s) \ D
    BY <2>5
  <2> QED BY <1>4, <2>3, <2>6
<1> QED BY <1>6, <1>7

(* Each bound of the directory, in terms of its records.                    *)
FromSource(R, source) == {e \in R : e.source = source}
InGroup(R, group) == {e \in R : Group(e.key) = group}
OfIdentity(R, peer) == {e \in R : e.key.peer = peer}
Doubtful(R, strict) == {e \in R : Directory!Unverified(e, strict)}
CeilingsOk ==
  /\ MaxRecords \in Nat \ {0} /\ MaxEndpoints \in Nat \ {0} /\ MaxPerSource \in Nat \ {0} /\ MaxPerGroup \in Nat \ {0}
  /\ MaxUnverified \in Nat /\ Strikes \in Nat \ {0} /\ Own_ \in Keys /\ SelfSource \in Sources

LEMMA CeilingsAre == Directory!DirectoryAssumption => CeilingsOk
BY DEF Directory!DirectoryAssumption, CeilingsOk

LEMMA LimitIs ==
  ASSUME CeilingsOk, NEW strict, NEW n \in Nat
  PROVE  Directory!Limit(strict, n) \in Nat /\ (strict => Directory!Limit(strict, n) = n) /\ (~strict => Directory!Limit(strict, n) = MaxRecords)
BY DEF CeilingsOk, Directory!Limit

LEMMA SourceSays ==
  ASSUME CeilingsOk, NEW s, Fine(s), NEW source, NEW strict, NEW t, t = Directory!BoundSource(s, source, strict)
  PROVE  \E D : /\ Fine(t) /\ Listed(t) = Listed(s) \ D /\ \A e \in D : ~Directory!Protected(e, strict)
                /\ IF strict /\ source = SelfSource THEN D = {}
                   ELSE Cut(FromSource(Listed(s), source), D, Directory!Limit(strict, MaxPerSource), strict)
<1>1. CASE strict /\ source = SelfSource
  <2>1. t = s
    BY <1>1 DEF Directory!BoundSource
  <2>2. PICK D : D = {}
    OBVIOUS
  <2>3. Listed(t) = Listed(s) \ D /\ \A e \in D : ~Directory!Protected(e, strict)
    BY <2>1, <2>2
  <2> QED BY <1>1, <2>1, <2>2, <2>3
<1>2. CASE ~(strict /\ source = SelfSource)
  <2>1. PICK limit \in Nat : limit = Directory!Limit(strict, MaxPerSource)
    BY LimitIs DEF CeilingsOk
  <2>2. PICK inside \in SUBSET DOMAIN s : inside = {i \in DOMAIN s : s[i].source = source}
    OBVIOUS
  <2>3. t = Directory!Bound(s, inside, limit, strict)
    BY <1>2, <2>1, <2>2 DEF Directory!BoundSource, Directory!OfSource
  <2>4. PICK E : E = FromSource(Listed(s), source)
    OBVIOUS
  <2>5. RecordsAt(E, s, inside)
    BY <2>2, <2>4 DEF FromSource, Listed, RecordsAt
  <2>6. PICK D : Cut(E, D, limit, strict) /\ Fine(t) /\ Listed(t) = Listed(s) \ D
    BY <2>3, <2>5, BoundSays
  <2> QED BY <1>2, <2>1, <2>4, <2>6 DEF Cut
<1> QED BY <1>1, <1>2

LEMMA GroupSays ==
  ASSUME CeilingsOk, NEW s, Fine(s), NEW group, NEW strict, NEW t, t = Directory!BoundGroup(s, group, strict)
  PROVE  \E D : /\ Fine(t) /\ Listed(t) = Listed(s) \ D
                /\ Cut(InGroup(Listed(s), group), D, Directory!Limit(strict, MaxPerGroup), strict)
<1>1. PICK limit \in Nat : limit = Directory!Limit(strict, MaxPerGroup)
  BY LimitIs DEF CeilingsOk
<1>2. PICK inside \in SUBSET DOMAIN s : inside = {i \in DOMAIN s : Group(s[i].key) = group}
  OBVIOUS
<1>3. t = Directory!Bound(s, inside, limit, strict)
  BY <1>1, <1>2 DEF Directory!BoundGroup, Directory!OfGroup
<1>4. PICK E : E = InGroup(Listed(s), group)
  OBVIOUS
<1>5. RecordsAt(E, s, inside)
  BY <1>2, <1>4 DEF InGroup, Listed, RecordsAt
<1>6. PICK D : Cut(E, D, limit, strict) /\ Fine(t) /\ Listed(t) = Listed(s) \ D
  BY <1>3, <1>5, BoundSays
<1> QED BY <1>1, <1>4, <1>6

LEMMA TotalsSay ==
  ASSUME CeilingsOk, NEW s, Fine(s), NEW strict, NEW t, t = Directory!BoundTotals(s, strict)
  PROVE  \E C, D : /\ Fine(t) /\ Listed(t) = (Listed(s) \ C) \ D
                   /\ Cut(Doubtful(Listed(s), strict), C, Directory!Limit(strict, MaxUnverified), strict)
                   /\ Cut(Listed(s) \ C, D, MaxRecords, strict)
<1>1. PICK limit \in Nat : limit = Directory!Limit(strict, MaxUnverified)
  BY LimitIs DEF CeilingsOk
<1>2. PICK inside \in SUBSET DOMAIN s : inside = {i \in DOMAIN s : Directory!Unverified(s[i], strict)}
  OBVIOUS
<1>3. PICK u : u = Directory!Bound(s, inside, limit, strict)
  OBVIOUS
<1>4. t = Directory!Bound(u, DOMAIN u, MaxRecords, strict)
  BY <1>1, <1>2, <1>3 DEF Directory!BoundTotals
<1>5. PICK E : E = Doubtful(Listed(s), strict)
  OBVIOUS
<1>6. RecordsAt(E, s, inside)
  BY <1>2, <1>5 DEF Doubtful, Listed, RecordsAt
<1>7. PICK C : Cut(E, C, limit, strict) /\ Fine(u) /\ Listed(u) = Listed(s) \ C
  BY <1>3, <1>6, BoundSays
<1>8. PICK F : F = Listed(u)
  OBVIOUS
<1>9. RecordsAt(F, u, DOMAIN u)
  BY <1>8 DEF Listed, RecordsAt
<1>10. MaxRecords \in Nat /\ DOMAIN u \in SUBSET DOMAIN u
  BY DEF CeilingsOk
<1>11. PICK D : Cut(F, D, MaxRecords, strict) /\ Fine(t) /\ Listed(t) = Listed(u) \ D
  BY <1>4, <1>7, <1>9, <1>10, BoundSays
<1> QED BY <1>1, <1>5, <1>7, <1>8, <1>11

(* What holds of the records, but for the ceilings of all of them and of    *)
(* those that are not proven; and everything.                               *)
(* The ceilings, of a set of records.                                       *)
Records(R) == R \subseteq Descriptor /\ IsFiniteSet(R) /\ OneEach(R)
SelfIsOwn(R) == \A e \in R : e.source = SelfSource => e.key = Own_
Within(R, strict) ==
  /\ SelfIsOwn(R)
  /\ \A k \in Keys : Cardinality(Kept(OfIdentity(R, k.peer), strict)) <= MaxEndpoints
  /\ strict => /\ \A k \in Keys : Cardinality(InGroup(R, Group(k))) <= MaxPerGroup
               /\ \A source \in Sources \ {SelfSource} : Cardinality(FromSource(R, source)) <= MaxPerSource
  /\ ~strict => \A e \in R : ~e.auth
Held(R, strict) ==
  /\ Within(R, strict) /\ Cardinality(R) <= MaxRecords
  /\ strict => Cardinality(Doubtful(R, strict)) <= MaxUnverified

LEMMA ListedRecords ==
  ASSUME NEW s, Fine(s)
  PROVE  Records(Listed(s))
<1>1. PICK R : R = Listed(s)
  OBVIOUS
<1>2. RecordsAt(R, s, DOMAIN s)
  BY <1>1 DEF RecordsAt, Listed
<1>3. IsFiniteSet(R)
  <2>1. DOMAIN s \in SUBSET DOMAIN s
    OBVIOUS
  <2> QED BY <1>2, <2>1, AsMany
<1>4. R \subseteq Descriptor
  <2>1. \A i \in DOMAIN s : s[i] \in Descriptor
    BY ElementOfSeq, LenProperties DEF Fine
  <2> QED BY <1>2, <2>1 DEF RecordsAt
<1>5. OneEach(R)
  BY <1>2 DEF RecordsAt, OneEach, Fine
<1> QED BY <1>1, <1>3, <1>4, <1>5 DEF Records

LEMMA FewerOf ==
  ASSUME NEW X, IsFiniteSet(X), NEW Y \in SUBSET X
  PROVE  IsFiniteSet(Y) /\ Cardinality(Y) <= Cardinality(X) /\ Cardinality(Y) \in Nat /\ Cardinality(X) \in Nat
BY FS_Subset, FS_CardinalityType

LEMMA FewerThan ==
  ASSUME NEW X, IsFiniteSet(X), NEW Y \in SUBSET X, NEW n \in Nat, Cardinality(X) <= n
  PROVE  Cardinality(Y) <= n
<1>1. PICK x \in Nat, y \in Nat : x = Cardinality(X) /\ y = Cardinality(Y) /\ y <= x
  BY FewerOf
<1> QED BY <1>1

LEMMA OneInstead ==
  ASSUME NEW X, IsFiniteSet(X), NEW n, NEW Y \in SUBSET (X \cup {n})
  PROVE  /\ Cardinality(Y) <= Cardinality(X) + 1
         /\ \A o \in X : Y \in SUBSET ((X \ {o}) \cup {n}) => Cardinality(Y) <= Cardinality(X)
<1>1. Cardinality(X) \in Nat
  BY FS_CardinalityType
<1>2. Cardinality(Y) <= Cardinality(X) + 1
  <2>1. IsFiniteSet(X \cup {n}) /\ (Cardinality(X \cup {n}) = Cardinality(X) \/ Cardinality(X \cup {n}) = Cardinality(X) + 1)
    BY FS_AddElement
  <2>2. PICK x \in Nat, y \in Nat, z \in Nat : x = Cardinality(X) /\ y = Cardinality(Y) /\ z = Cardinality(X \cup {n}) /\ y <= z
    BY <1>1, <2>1, FewerOf
  <2>3. y <= x + 1
    BY <2>1, <2>2
  <2> QED BY <2>2, <2>3
<1>3. ASSUME NEW o \in X, Y \in SUBSET ((X \ {o}) \cup {n}) PROVE Cardinality(Y) <= Cardinality(X)
  <2>1. IsFiniteSet(X \ {o}) /\ Cardinality(X \ {o}) = Cardinality(X) - 1
    BY FS_RemoveElement
  <2>2. IsFiniteSet((X \ {o}) \cup {n}) /\
        (Cardinality((X \ {o}) \cup {n}) = Cardinality(X \ {o}) \/ Cardinality((X \ {o}) \cup {n}) = Cardinality(X \ {o}) + 1)
    BY <2>1, FS_AddElement
  <2>3. PICK y \in Nat, z \in Nat : y = Cardinality(Y) /\ z = Cardinality((X \ {o}) \cup {n}) /\ y <= z
    BY <1>3, <2>2, FewerOf
  <2>4. PICK x \in Nat : x = Cardinality(X)
    BY <1>1
  <2>5. z = x - 1 \/ z = (x - 1) + 1
    BY <2>1, <2>2, <2>3, <2>4
  <2>6. y <= x
    BY <2>3, <2>5
  <2> QED BY <2>3, <2>4, <2>6
<1> QED BY <1>2, <1>3

LEMMA PartsOf ==
  ASSUME NEW R, IsFiniteSet(R), NEW T \in SUBSET R, NEW strict, NEW x
  PROVE  /\ IsFiniteSet(T)
         /\ Kept(OfIdentity(T, x), strict) \in SUBSET Kept(OfIdentity(R, x), strict) /\ IsFiniteSet(Kept(OfIdentity(R, x), strict))
         /\ InGroup(T, x) \in SUBSET InGroup(R, x) /\ IsFiniteSet(InGroup(R, x))
         /\ FromSource(T, x) \in SUBSET FromSource(R, x) /\ IsFiniteSet(FromSource(R, x))
         /\ Doubtful(T, strict) \in SUBSET Doubtful(R, strict) /\ IsFiniteSet(Doubtful(R, strict))
<1>1. Kept(OfIdentity(R, x), strict) \in SUBSET R /\ InGroup(R, x) \in SUBSET R /\ FromSource(R, x) \in SUBSET R
      /\ Doubtful(R, strict) \in SUBSET R
  BY DEF Kept, OfIdentity, InGroup, FromSource, Doubtful
<1>2. Kept(OfIdentity(T, x), strict) \in SUBSET Kept(OfIdentity(R, x), strict) /\ InGroup(T, x) \in SUBSET InGroup(R, x)
      /\ FromSource(T, x) \in SUBSET FromSource(R, x) /\ Doubtful(T, strict) \in SUBSET Doubtful(R, strict)
  BY DEF Kept, OfIdentity, InGroup, FromSource, Doubtful
<1>3. IsFiniteSet(T) /\ IsFiniteSet(Kept(OfIdentity(R, x), strict)) /\ IsFiniteSet(InGroup(R, x)) /\ IsFiniteSet(FromSource(R, x))
      /\ IsFiniteSet(Doubtful(R, strict))
  BY <1>1, FewerOf
<1> QED BY <1>2, <1>3

LEMMA WithinFewer ==
  ASSUME CeilingsOk, NEW R, Records(R), NEW T \in SUBSET R, NEW strict, Within(R, strict)
  PROVE  Within(T, strict) /\ Records(T)
<1>1. IsFiniteSet(R)
  BY DEF Records
<1>2. ASSUME NEW k \in Keys PROVE Cardinality(Kept(OfIdentity(T, k.peer), strict)) <= MaxEndpoints
  <2>1. MaxEndpoints \in Nat /\ Cardinality(Kept(OfIdentity(R, k.peer), strict)) <= MaxEndpoints
    BY DEF Within, CeilingsOk
  <2>2. Kept(OfIdentity(T, k.peer), strict) \in SUBSET Kept(OfIdentity(R, k.peer), strict) /\ IsFiniteSet(Kept(OfIdentity(R, k.peer), strict))
    BY <1>1, PartsOf
  <2> QED BY <2>1, <2>2, FewerThan
<1>3. ASSUME strict, NEW k \in Keys PROVE Cardinality(InGroup(T, Group(k))) <= MaxPerGroup
  <2>1. MaxPerGroup \in Nat /\ Cardinality(InGroup(R, Group(k))) <= MaxPerGroup
    BY <1>3 DEF Within, CeilingsOk
  <2>2. InGroup(T, Group(k)) \in SUBSET InGroup(R, Group(k)) /\ IsFiniteSet(InGroup(R, Group(k)))
    BY <1>1, PartsOf
  <2> QED BY <2>1, <2>2, FewerThan
<1>4. ASSUME strict, NEW source \in Sources \ {SelfSource} PROVE Cardinality(FromSource(T, source)) <= MaxPerSource
  <2>1. MaxPerSource \in Nat /\ Cardinality(FromSource(R, source)) <= MaxPerSource
    BY <1>4 DEF Within, CeilingsOk
  <2>2. FromSource(T, source) \in SUBSET FromSource(R, source) /\ IsFiniteSet(FromSource(R, source))
    BY <1>1, PartsOf
  <2> QED BY <2>1, <2>2, FewerThan
<1>5. Records(T)
  <2>1. IsFiniteSet(T)
    BY <1>1, FewerOf
  <2> QED BY <2>1 DEF Records, OneEach
<1>6. SelfIsOwn(T) /\ (~strict => \A e \in T : ~e.auth)
  BY DEF Within, SelfIsOwn
<1> QED BY <1>2, <1>3, <1>4, <1>5, <1>6 DEF Within

LEMMA HeldFewer ==
  ASSUME CeilingsOk, NEW R, Records(R), NEW T \in SUBSET R, NEW strict, Held(R, strict)
  PROVE  Held(T, strict)
<1>1. IsFiniteSet(R) /\ Within(R, strict) /\ MaxRecords \in Nat /\ MaxUnverified \in Nat /\ Cardinality(R) <= MaxRecords
  BY DEF Records, Held, CeilingsOk
<1>2. Cardinality(T) <= MaxRecords
  BY <1>1, FewerThan
<1>3. ASSUME strict PROVE Cardinality(Doubtful(T, strict)) <= MaxUnverified
  <2>1. Cardinality(Doubtful(R, strict)) <= MaxUnverified
    BY <1>3 DEF Held
  <2>2. Doubtful(T, strict) \in SUBSET Doubtful(R, strict) /\ IsFiniteSet(Doubtful(R, strict))
    BY <1>1, PartsOf
  <2> QED BY <1>1, <2>1, <2>2, FewerThan
<1> QED BY <1>1, <1>2, <1>3, WithinFewer DEF Held

(* At most one record is protected.                                         *)
LEMMA OneProtected ==
  ASSUME NEW R, Records(R), NEW strict, SelfIsOwn(R), NEW E \in SUBSET R
  PROVE  IsFiniteSet(E) /\ Cardinality(E \ Kept(E, strict)) \in {0, 1}
<1> DEFINE P == E \ Kept(E, strict)
<1>1. \A e \in P : e \in R /\ e.source = SelfSource
  BY DEF Kept, Directory!Protected
<1>2. \A e, f \in P : e = f
  BY <1>1 DEF SelfIsOwn, Records, OneEach
<1>3. IsFiniteSet(E)
  BY FewerOf DEF Records
<1> HIDE DEF P
<1>4. CASE P = {}
  BY <1>3, <1>4, FS_EmptySet DEF P
<1>5. CASE P # {}
  <2>1. PICK e \in P : P = {e}
    BY <1>2, <1>5
  <2>2. Cardinality({e}) = 1
    BY FS_Singleton
  <2> QED BY <1>3, <2>1, <2>2 DEF P
<1> QED BY <1>4, <1>5

(* Bounding the totals gives back all the ceilings.                         *)
LEMMA TotalsHold ==
  ASSUME CeilingsOk, NEW R, Records(R), NEW strict \in BOOLEAN, Within(R, strict), NEW C, NEW D,
         Cut(Doubtful(R, strict), C, Directory!Limit(strict, MaxUnverified), strict),
         Cut(R \ C, D, MaxRecords, strict)
  PROVE  Held((R \ C) \ D, strict) /\ Records((R \ C) \ D)
<1>1. PICK T \in SUBSET R : T = (R \ C) \ D
  OBVIOUS
<1>2. Within(T, strict) /\ Records(T)
  BY WithinFewer
<1>3. Cardinality(T) <= MaxRecords
  <2>1. R \ C \in SUBSET R
    OBVIOUS
  <2>2. Cardinality((R \ C) \ Kept(R \ C, strict)) \in {0, 1}
    BY <2>1, OneProtected DEF Within
  <2>3. Cardinality((R \ C) \ Kept(R \ C, strict)) <= MaxRecords
    BY <2>2 DEF CeilingsOk
  <2> QED BY <1>1, <2>3 DEF Cut
<1>4. ASSUME strict PROVE Cardinality(Doubtful(T, strict)) <= MaxUnverified
  <2>1. MaxUnverified \in Nat /\ Directory!Limit(strict, MaxUnverified) = MaxUnverified
    BY <1>4, LimitIs DEF CeilingsOk
  <2>2. PICK E : E = Doubtful(R, strict)
    OBVIOUS
  <2>3. Kept(E \ C, strict) = E \ C
    BY <2>2 DEF Kept, Doubtful, Directory!Unverified
  <2>4. Cardinality(E \ C) <= MaxUnverified /\ IsFiniteSet(E)
    BY <2>1, <2>2, <2>3 DEF Cut
  <2>5. Doubtful(T, strict) \in SUBSET (E \ C)
    BY <1>1, <2>2 DEF Doubtful
  <2>6. IsFiniteSet(E \ C)
    BY <2>4, FS_Difference
  <2> QED BY <2>1, <2>4, <2>5, <2>6, FewerThan
<1> QED BY <1>1, <1>2, <1>3, <1>4 DEF Held

(* A record that takes the place of another of its key, and comes from the  *)
(* same source or from the node itself.                                     *)
LEMMA Replaced ==
  ASSUME CeilingsOk, NEW R, Records(R), NEW strict \in BOOLEAN, Within(R, strict), NEW o \in R, NEW n \in Descriptor, n.key = o.key,
         n.source = o.source \/ (strict /\ n.source = SelfSource /\ n.key = Own_), ~strict => ~n.auth,
         NEW T, T = (R \ {o}) \cup {n}
  PROVE  /\ Records(T) /\ Within(T, strict) /\ Cardinality(T) <= Cardinality(R)
         /\ n.auth = o.auth => Cardinality(Doubtful(T, strict)) <= Cardinality(Doubtful(R, strict))
<1>1. IsFiniteSet(R) /\ T \in SUBSET (R \cup {n})
  BY DEF Records
<1>2. Records(T)
  <2>1. IsFiniteSet(R \ {o}) /\ IsFiniteSet(T)
    BY <1>1, FS_RemoveElement, FS_AddElement
  <2> QED BY <2>1 DEF Records, OneEach
<1>3. Directory!Protected(o, strict) => Directory!Protected(n, strict)
  BY DEF Directory!Protected
<1>4. ASSUME NEW X \in SUBSET R, NEW Y \in SUBSET T, o \in X \/ n \notin Y, \A e \in R \ {o} : e \in Y => e \in X
      PROVE  Cardinality(Y) <= Cardinality(X)
  <2>1. IsFiniteSet(X)
    BY <1>1, FewerOf
  <2>2. CASE o \in X
    <3>1. Y \in SUBSET ((X \ {o}) \cup {n}) /\ Y \in SUBSET (X \cup {n})
      BY <1>4
    <3> QED BY <2>1, <2>2, <3>1, OneInstead
  <2>3. CASE n \notin Y
    <3>1. Y \in SUBSET X
      BY <1>4, <2>3
    <3> QED BY <2>1, <3>1, FewerOf
  <2> QED BY <1>4, <2>2, <2>3
<1>5. ASSUME NEW k \in Keys PROVE Cardinality(Kept(OfIdentity(T, k.peer), strict)) <= MaxEndpoints
  <2>1. PICK X \in SUBSET R, Y \in SUBSET T : X = Kept(OfIdentity(R, k.peer), strict) /\ Y = Kept(OfIdentity(T, k.peer), strict)
    BY DEF Kept, OfIdentity
  <2>2. o \in X \/ n \notin Y
    BY <1>3, <2>1 DEF Kept, OfIdentity
  <2>3. \A e \in R \ {o} : e \in Y => e \in X
    BY <2>1 DEF Kept, OfIdentity
  <2>4. Cardinality(Y) <= Cardinality(X)
    BY <1>4, <2>2, <2>3
  <2>5. PICK x \in Nat, y \in Nat : x = Cardinality(X) /\ y = Cardinality(Y)
    BY <1>1, <1>2, FewerOf DEF Records
  <2>6. x <= MaxEndpoints /\ MaxEndpoints \in Nat /\ y <= x
    BY <2>1, <2>4, <2>5 DEF Within, CeilingsOk
  <2>7. y <= MaxEndpoints
    BY <2>6
  <2> QED BY <2>1, <2>5, <2>7
<1>6. ASSUME strict, NEW k \in Keys PROVE Cardinality(InGroup(T, Group(k))) <= MaxPerGroup
  <2>1. PICK X \in SUBSET R, Y \in SUBSET T : X = InGroup(R, Group(k)) /\ Y = InGroup(T, Group(k))
    BY DEF InGroup
  <2>2. o \in X \/ n \notin Y
    BY <2>1 DEF InGroup
  <2>3. \A e \in R \ {o} : e \in Y => e \in X
    BY <2>1 DEF InGroup
  <2>4. Cardinality(Y) <= Cardinality(X)
    BY <1>4, <2>2, <2>3
  <2>5. PICK x \in Nat, y \in Nat : x = Cardinality(X) /\ y = Cardinality(Y)
    BY <1>1, <1>2, FewerOf DEF Records
  <2>6. x <= MaxPerGroup /\ MaxPerGroup \in Nat /\ y <= x
    BY <1>6, <2>1, <2>4, <2>5 DEF Within, CeilingsOk
  <2>7. y <= MaxPerGroup
    BY <2>6
  <2> QED BY <2>1, <2>5, <2>7
<1>7. ASSUME strict, NEW source \in Sources \ {SelfSource} PROVE Cardinality(FromSource(T, source)) <= MaxPerSource
  <2>1. PICK X \in SUBSET R, Y \in SUBSET T : X = FromSource(R, source) /\ Y = FromSource(T, source)
    BY DEF FromSource
  <2>2. o \in X \/ n \notin Y
    BY <2>1 DEF FromSource
  <2>3. \A e \in R \ {o} : e \in Y => e \in X
    BY <2>1 DEF FromSource
  <2>4. Cardinality(Y) <= Cardinality(X)
    BY <1>4, <2>2, <2>3
  <2>5. PICK x \in Nat, y \in Nat : x = Cardinality(X) /\ y = Cardinality(Y)
    BY <1>1, <1>2, FewerOf DEF Records
  <2>6. x <= MaxPerSource /\ MaxPerSource \in Nat /\ y <= x
    BY <1>7, <2>1, <2>4, <2>5 DEF Within, CeilingsOk
  <2>7. y <= MaxPerSource
    BY <2>6
  <2> QED BY <2>1, <2>5, <2>7
<1>8. SelfIsOwn(T) /\ (~strict => \A e \in T : ~e.auth)
  BY DEF Within, SelfIsOwn
<1>9. Within(T, strict)
  BY <1>5, <1>6, <1>7, <1>8 DEF Within
<1>10. Cardinality(T) <= Cardinality(R)
  BY <1>1, OneInstead
<1>11. ASSUME n.auth = o.auth PROVE Cardinality(Doubtful(T, strict)) <= Cardinality(Doubtful(R, strict))
  <2>1. PICK X \in SUBSET R, Y \in SUBSET T : X = Doubtful(R, strict) /\ Y = Doubtful(T, strict)
    BY DEF Doubtful
  <2>2. o \in X \/ n \notin Y
    BY <1>3, <1>11, <2>1 DEF Doubtful, Directory!Unverified
  <2>3. \A e \in R \ {o} : e \in Y => e \in X
    BY <2>1 DEF Doubtful
  <2> QED BY <1>4, <2>1, <2>2, <2>3
<1> QED BY <1>2, <1>9, <1>10, <1>11

(* What a descriptor that is taken becomes, and the evictions after it.     *)
(* What register does: the record is made anew from the old one, if there   *)
(* is one, and the ceilings are enforced one after the other.               *)
Others(R, key) == {f \in R : f.key # key}
Renews(R, e, source, strict) ==
  \/ (\A f \in R : f.key # e.key) /\ ~e.auth /\ e.fails = 0 /\ e.source = source
  \/ \E f \in R : /\ f.key = e.key /\ e.auth = f.auth /\ e.fails = f.fails
                  /\ e.source = IF ~(strict /\ source = SelfSource) /\ (Directory!Protected(f, strict) \/ f.auth)
                                THEN f.source ELSE source
Evicts(R, T, key, source, strict, e, P, A, B, G, C, D) ==
  /\ e \in Descriptor /\ e.key = key /\ Renews(R, e, source, strict)
  /\ Cut(OfIdentity(Others(R, key), key.peer), A, MaxEndpoints - 1, strict)
  /\ P = (Others(R, key) \ A) \cup {e}
  /\ \A f \in B : ~Directory!Protected(f, strict)
  /\ strict /\ e.source = SelfSource => B = {}
  /\ ~(strict /\ e.source = SelfSource) => Cut(FromSource(P, e.source), B, Directory!Limit(strict, MaxPerSource), strict)
  /\ Cut(InGroup(P \ B, Group(key)), G, Directory!Limit(strict, MaxPerGroup), strict)
  /\ Cut(Doubtful((P \ B) \ G, strict), C, Directory!Limit(strict, MaxUnverified), strict)
  /\ Cut(((P \ B) \ G) \ C, D, MaxRecords, strict)
  /\ T = (((P \ B) \ G) \ C) \ D
Registered(R, T, key, source, strict) ==
  \E e, P, A, B, G, C, D : Evicts(R, T, key, source, strict, e, P, A, B, G, C, D)


(* All ceilings hold again after the evictions.                             *)
LEMMA RegisterHeld ==
  ASSUME CeilingsOk, NEW R, Records(R), NEW strict \in BOOLEAN, Held(R, strict), NEW key \in Keys, NEW source \in Sources,
         source = SelfSource => key = Own_, NEW T, Registered(R, T, key, source, strict)
  PROVE  Held(T, strict)
<1>1. PICK e, P, A, B, G, C, D : Evicts(R, T, key, source, strict, e, P, A, B, G, C, D)
  BY DEF Registered
<1>2. Within(R, strict) /\ SelfIsOwn(R) /\ IsFiniteSet(R) /\ R \subseteq Descriptor /\ OneEach(R)
  BY DEF Held, Within, Records
<1>3. PICK O \in SUBSET R : O = Others(R, key)
  BY DEF Others
<1>4. PICK S : S = (P \ B) \ G
  OBVIOUS
<1>5. P = (O \ A) \cup {e} /\ e.key = key /\ e \in Descriptor /\ Renews(R, e, source, strict)
  BY <1>1, <1>3 DEF Evicts
<1>6. (e.source = SelfSource => e.key = Own_) /\ (~strict => ~e.auth)
  <2>1. CASE \A f \in R : ~f.auth
    BY <1>2, <1>5, <2>1 DEF Renews, SelfIsOwn
  <2>2. CASE strict
    BY <1>2, <1>5, <2>2 DEF Renews, SelfIsOwn
  <2> QED BY <1>2, <2>1, <2>2 DEF Within
<1>7. Records(P)
  <2>1. IsFiniteSet(O \ A)
    BY <1>2, FewerOf
  <2>2. IsFiniteSet(P)
    BY <1>5, <2>1, FS_AddElement
  <2>3. \A f \in O : f.key # e.key
    BY <1>3, <1>5 DEF Others
  <2> QED BY <1>2, <1>5, <2>2, <2>3 DEF Records, OneEach
<1>8. SelfIsOwn(P)
  BY <1>2, <1>5, <1>6 DEF SelfIsOwn
<1>9. S \in SUBSET P /\ IsFiniteSet(P) /\ Records(S)
  <2>1. S \in SUBSET P /\ IsFiniteSet(P)
    BY <1>4, <1>7 DEF Records
  <2>2. IsFiniteSet(S)
    BY <2>1, FewerOf
  <2> QED BY <1>7, <2>1, <2>2 DEF Records, OneEach
<1>10. ASSUME NEW k \in Keys PROVE Cardinality(Kept(OfIdentity(S, k.peer), strict)) <= MaxEndpoints
  <2>1. MaxEndpoints \in Nat /\ MaxEndpoints # 0
    BY DEF CeilingsOk
  <2>2. CASE k.peer = key.peer
    <3>1. PICK X : X = OfIdentity(O, key.peer)
      OBVIOUS
    <3>2. Cut(X, A, MaxEndpoints - 1, strict)
      BY <1>1, <1>3, <3>1 DEF Evicts
    <3>3. IsFiniteSet(X) /\ Cardinality(Kept(X \ A, strict)) <= MaxEndpoints - 1
      BY <3>2 DEF Cut
    <3>4. Kept(X \ A, strict) \in SUBSET X
      BY DEF Kept
    <3>5. IsFiniteSet(Kept(X \ A, strict))
      BY <3>3, <3>4, FewerOf
    <3>6. PICK Y : Y = Kept(OfIdentity(S, k.peer), strict)
      OBVIOUS
    <3>7. Y \in SUBSET (Kept(X \ A, strict) \cup {e})
      BY <1>5, <1>9, <2>2, <3>1, <3>6 DEF Kept, OfIdentity
    <3>8. Cardinality(Y) <= Cardinality(Kept(X \ A, strict)) + 1 /\ IsFiniteSet(Y)
      <4>1. IsFiniteSet(Kept(X \ A, strict) \cup {e})
        BY <3>5, FS_AddElement
      <4>2. IsFiniteSet(Y)
        BY <3>7, <4>1, FewerOf
      <4> QED BY <3>5, <3>7, <4>2, OneInstead
    <3>9. PICK y \in Nat, z \in Nat : y = Cardinality(Y) /\ z = Cardinality(Kept(X \ A, strict))
      BY <3>5, <3>8, FS_CardinalityType
    <3>10. y <= z + 1 /\ z <= MaxEndpoints - 1
      BY <3>3, <3>8, <3>9
    <3>11. y <= MaxEndpoints
      BY <2>1, <3>10
    <3> QED BY <3>6, <3>9, <3>11
  <2>3. CASE k.peer # key.peer
    <3>1. PICK X : X = Kept(OfIdentity(R, k.peer), strict)
      OBVIOUS
    <3>2. Kept(OfIdentity(S, k.peer), strict) \in SUBSET X
      BY <1>5, <1>9, <2>3, <3>1 DEF Kept, OfIdentity
    <3>3. IsFiniteSet(X) /\ Cardinality(X) <= MaxEndpoints
      <4>1. X \in SUBSET R
        BY <3>1 DEF Kept, OfIdentity
      <4> QED BY <1>2, <3>1, <4>1, FewerOf DEF Within
    <3> QED BY <2>1, <3>2, <3>3, FewerThan
  <2> QED BY <2>2, <2>3
<1>11. ASSUME strict, NEW k \in Keys PROVE Cardinality(InGroup(S, Group(k))) <= MaxPerGroup
  <2>1. MaxPerGroup \in Nat /\ MaxPerGroup # 0 /\ Directory!Limit(strict, MaxPerGroup) = MaxPerGroup
    BY <1>11, LimitIs DEF CeilingsOk
  <2>2. CASE Group(k) = Group(key)
    <3>1. PICK E : E = InGroup(P \ B, Group(key))
      OBVIOUS
    <3>2. Cut(E, G, MaxPerGroup, strict) /\ E \in SUBSET P
      BY <1>1, <2>1, <3>1 DEF Evicts, InGroup
    <3>3. Cardinality(E \ Kept(E, strict)) \in {0, 1}
      BY <1>7, <1>8, <3>2, OneProtected
    <3>4. Cardinality(E \ Kept(E, strict)) <= MaxPerGroup
      BY <2>1, <3>3
    <3>5. Cardinality(E \ G) <= MaxPerGroup /\ IsFiniteSet(E)
      BY <3>2, <3>4 DEF Cut
    <3>6. InGroup(S, Group(k)) \in SUBSET (E \ G)
      BY <1>4, <2>2, <3>1 DEF InGroup
    <3>7. IsFiniteSet(E \ G)
      BY <3>5, FS_Difference
    <3> QED BY <2>1, <3>5, <3>6, <3>7, FewerThan
  <2>3. CASE Group(k) # Group(key)
    <3>1. PICK X : X = InGroup(R, Group(k))
      OBVIOUS
    <3>2. InGroup(S, Group(k)) \in SUBSET X
      BY <1>5, <1>9, <2>3, <3>1 DEF InGroup
    <3>3. IsFiniteSet(X) /\ Cardinality(X) <= MaxPerGroup
      <4>1. X \in SUBSET R
        BY <3>1 DEF InGroup
      <4> QED BY <1>2, <1>11, <3>1, <4>1, FewerOf DEF Within
    <3> QED BY <2>1, <3>2, <3>3, FewerThan
  <2> QED BY <2>2, <2>3
<1>12. ASSUME strict, NEW from \in Sources \ {SelfSource} PROVE Cardinality(FromSource(S, from)) <= MaxPerSource
  <2>1. MaxPerSource \in Nat /\ Directory!Limit(strict, MaxPerSource) = MaxPerSource
    BY <1>12, LimitIs DEF CeilingsOk
  <2>2. CASE from = e.source
    <3>1. PICK E : E = FromSource(P, from)
      OBVIOUS
    <3>2. Cut(E, B, MaxPerSource, strict)
      BY <1>1, <1>12, <2>1, <2>2, <3>1 DEF Evicts
    <3>3. Kept(E \ B, strict) = E \ B
      BY <1>12, <3>1 DEF Kept, FromSource, Directory!Protected
    <3>4. Cardinality(E \ B) <= MaxPerSource /\ IsFiniteSet(E)
      BY <3>2, <3>3 DEF Cut
    <3>5. FromSource(S, from) \in SUBSET (E \ B)
      BY <1>4, <3>1 DEF FromSource
    <3>6. IsFiniteSet(E \ B)
      BY <3>4, FS_Difference
    <3> QED BY <2>1, <3>4, <3>5, <3>6, FewerThan
  <2>3. CASE from # e.source
    <3>1. PICK X : X = FromSource(R, from)
      OBVIOUS
    <3>2. FromSource(S, from) \in SUBSET X
      BY <1>5, <1>9, <2>3, <3>1 DEF FromSource
    <3>3. IsFiniteSet(X) /\ Cardinality(X) <= MaxPerSource
      <4>1. X \in SUBSET R
        BY <3>1 DEF FromSource
      <4> QED BY <1>2, <1>12, <3>1, <4>1, FewerOf DEF Within
    <3> QED BY <2>1, <3>2, <3>3, FewerThan
  <2> QED BY <2>2, <2>3
<1>13. SelfIsOwn(S) /\ (~strict => \A f \in S : ~f.auth)
  BY <1>2, <1>5, <1>6, <1>8, <1>9 DEF SelfIsOwn, Within
<1>14. Within(S, strict)
  BY <1>10, <1>11, <1>12, <1>13 DEF Within
<1>15. Cut(Doubtful(S, strict), C, Directory!Limit(strict, MaxUnverified), strict) /\ Cut(S \ C, D, MaxRecords, strict)
       /\ T = (S \ C) \ D
  BY <1>1, <1>4 DEF Evicts
<1> QED BY <1>9, <1>14, <1>15, TotalsHold

(* An eviction of one too many does not take a record that is proven.       *)
(* An eviction for a new record spares the proven ones.                     *)
OneWeak(E, X, e, strict) == (~e.auth /\ ~Directory!Protected(e, strict)) \/ (\E o \in X : E \subseteq (X \ {o}) \cup {e})

LEMMA SparesProven ==
  ASSUME NEW E, NEW D, NEW limit \in Nat, NEW strict, Cut(E, D, limit, strict),
         NEW X, IsFiniteSet(X), Cardinality(X) <= limit, NEW e, E \subseteq X \cup {e},
         OneWeak(E, X, e, strict),
         NEW x \in D, x.auth
  PROVE  FALSE
<1>1. D # {} /\ x \in E /\ IsFiniteSet(E)
  BY DEF Cut
<1>2. PICK c \in Nat, n \in Nat : c = Cardinality(E) /\ n = Cardinality(X)
  BY <1>1, FS_CardinalityType
<1>3. ~(c <= limit) /\ n <= limit
  BY <1>1, <1>2 DEF Cut
<1>4. c <= n + 1
  BY <1>2, OneInstead
<1>5. ~(\E o \in X : E \subseteq (X \ {o}) \cup {e})
  <2>1. SUFFICES ASSUME NEW o \in X, E \subseteq (X \ {o}) \cup {e} PROVE FALSE
    OBVIOUS
  <2>2. c <= n
    BY <1>2, <2>1, OneInstead
  <2> QED BY <1>3, <2>2
<1>6. ~e.auth /\ ~Directory!Protected(e, strict)
  BY <1>5 DEF OneWeak
<1>7. e \in E
  <2>1. SUFFICES ASSUME e \notin E PROVE FALSE
    OBVIOUS
  <2>2. E \in SUBSET X
    BY <2>1
  <2>3. c <= n
    BY <1>2, <2>2, FewerOf
  <2> QED BY <1>3, <2>3
<1>8. c <= limit + 1
  BY <1>3, <1>4
<1>9. ~(Directory!Rank(e, strict) < Directory!Rank(x, strict))
  BY <1>2, <1>6, <1>7, <1>8 DEF Cut
<1>10. Directory!Rank(e, strict) = 1 /\ Directory!Rank(x, strict) \in {2, 3}
  BY <1>6 DEF Directory!Rank
<1> QED BY <1>9, <1>10

(* Gossip about one key leaves the records of other identities that are     *)
(* proven.                                                                  *)
LEMMA RegisterSpares ==
  ASSUME CeilingsOk, NEW R, Records(R), NEW strict \in BOOLEAN, Held(R, strict), NEW key \in Keys,
         NEW source \in Sources \ {SelfSource}, NEW T, Registered(R, T, key, source, strict),
         NEW x \in R, x.auth, x.key # key, x \notin T
  PROVE  key.peer = x.key.peer
<1> SUFFICES ASSUME key.peer # x.key.peer PROVE FALSE
  OBVIOUS
<1>1. PICK e, P, A, B, G, C, D : Evicts(R, T, key, source, strict, e, P, A, B, G, C, D)
  BY DEF Registered
<1>2. Within(R, strict) /\ SelfIsOwn(R) /\ IsFiniteSet(R) /\ R \subseteq Descriptor /\ OneEach(R) /\ Cardinality(R) <= MaxRecords
  BY DEF Held, Within, Records
<1>3. strict
  BY <1>2 DEF Within
<1>4. PICK O \in SUBSET R : O = Others(R, key)
  BY DEF Others
<1>5. P = (O \ A) \cup {e} /\ e.key = key /\ e \in Descriptor /\ Renews(R, e, source, strict)
  BY <1>1, <1>4 DEF Evicts
<1>6. x \in P
  <2>1. A \subseteq OfIdentity(Others(R, key), key.peer)
    BY <1>1 DEF Evicts, Cut
  <2>2. x \notin A
    BY <2>1 DEF OfIdentity
  <2>3. x \in O
    BY <1>4 DEF Others
  <2> QED BY <1>5, <2>2, <2>3
<1>7. \/ ~e.auth /\ ~Directory!Protected(e, strict)
      \/ \E f \in R : /\ f.key = key /\ f.key = e.key /\ f \notin O
                      /\ ~Directory!Protected(e, strict) => e.source = f.source
  <2>1. CASE \A f \in R : f.key # e.key
    BY <1>5, <2>1 DEF Renews, Directory!Protected
  <2>2. CASE \E f \in R : f.key = e.key
    <3>1. PICK f \in R : /\ f.key = e.key /\ e.auth = f.auth
                         /\ e.source = IF ~(strict /\ source = SelfSource) /\ (Directory!Protected(f, strict) \/ f.auth)
                                       THEN f.source ELSE source
      BY <1>5, <2>2 DEF Renews
    <3>2. f \notin O
      BY <1>4, <1>5, <3>1 DEF Others
    <3>3. CASE ~e.auth /\ ~Directory!Protected(e, strict)
      BY <3>3
    <3>4. CASE e.auth
      <4>1. e.source = f.source
        BY <3>1, <3>4
      <4> QED BY <1>5, <3>1, <3>2, <4>1
    <3>5. CASE Directory!Protected(e, strict)
      BY <1>5, <3>1, <3>2, <3>5
    <3> QED BY <3>3, <3>4, <3>5
  <2> QED BY <2>1, <2>2
<1>8. x \notin B
  <2>1. SUFFICES ASSUME x \in B PROVE FALSE
    OBVIOUS
  <2>2. ~(strict /\ e.source = SelfSource)
    BY <1>1, <2>1 DEF Evicts
  <2>3. MaxPerSource \in Nat /\ Directory!Limit(strict, MaxPerSource) = MaxPerSource
    BY <1>3, LimitIs DEF CeilingsOk
  <2>4. PICK E : E = FromSource(P, e.source)
    OBVIOUS
  <2>5. Cut(E, B, MaxPerSource, strict)
    BY <1>1, <2>2, <2>3, <2>4 DEF Evicts
  <2>6. PICK X \in SUBSET R : X = FromSource(R, e.source)
    BY DEF FromSource
  <2>7. e.source \in Sources \ {SelfSource}
    BY <1>3, <1>5, <2>2 DEF Descriptor
  <2>8. IsFiniteSet(X) /\ Cardinality(X) <= MaxPerSource
    BY <1>2, <1>3, <2>6, <2>7, FewerOf DEF Within
  <2>9. E \subseteq X \cup {e}
    BY <1>5, <2>4, <2>6 DEF FromSource
  <2>10. OneWeak(E, X, e, strict)
    <3>1. SUFFICES ASSUME NEW f \in R, f \notin O, e.source = f.source
                   PROVE  \E o \in X : E \subseteq (X \ {o}) \cup {e}
      BY <1>7, <2>2 DEF Directory!Protected, OneWeak
    <3>2. f \in X /\ E \subseteq (X \ {f}) \cup {e}
      BY <1>5, <2>4, <2>6, <3>1 DEF FromSource
    <3> QED BY <3>2
  <2> QED BY <2>1, <2>3, <2>5, <2>8, <2>9, <2>10, SparesProven
<1>9. x \notin G
  <2>1. SUFFICES ASSUME x \in G PROVE FALSE
    OBVIOUS
  <2>3. MaxPerGroup \in Nat /\ Directory!Limit(strict, MaxPerGroup) = MaxPerGroup
    BY <1>3, LimitIs DEF CeilingsOk
  <2>4. PICK E : E = InGroup(P \ B, Group(key))
    OBVIOUS
  <2>5. Cut(E, G, MaxPerGroup, strict)
    BY <1>1, <2>3, <2>4 DEF Evicts
  <2>6. PICK X \in SUBSET R : X = InGroup(R, Group(key))
    BY DEF InGroup
  <2>8. IsFiniteSet(X) /\ Cardinality(X) <= MaxPerGroup
    BY <1>2, <1>3, <2>6, FewerOf DEF Within
  <2>9. E \subseteq X \cup {e}
    BY <1>5, <2>4, <2>6 DEF InGroup
  <2>10. OneWeak(E, X, e, strict)
    <3>1. SUFFICES ASSUME NEW f \in R, f \notin O, f.key = key
                   PROVE  \E o \in X : E \subseteq (X \ {o}) \cup {e}
      BY <1>7 DEF OneWeak
    <3>2. f \in X /\ E \subseteq (X \ {f}) \cup {e}
      BY <1>5, <2>4, <2>6, <3>1 DEF InGroup
    <3> QED BY <3>2
  <2> QED BY <2>1, <2>3, <2>5, <2>8, <2>9, <2>10, SparesProven
<1>10. x \notin C
  BY <1>1 DEF Evicts, Cut, Doubtful, Directory!Unverified
<1>11. x \notin D
  <2>1. SUFFICES ASSUME x \in D PROVE FALSE
    OBVIOUS
  <2>3. MaxRecords \in Nat
    BY DEF CeilingsOk
  <2>4. PICK E : E = ((P \ B) \ G) \ C
    OBVIOUS
  <2>5. Cut(E, D, MaxRecords, strict)
    BY <1>1, <2>4 DEF Evicts
  <2>9. E \subseteq R \cup {e}
    BY <1>5, <2>4
  <2>10. OneWeak(E, R, e, strict)
    <3>1. SUFFICES ASSUME NEW f \in R, f \notin O
                   PROVE  \E o \in R : E \subseteq (R \ {o}) \cup {e}
      BY <1>7 DEF OneWeak
    <3>2. E \subseteq (R \ {f}) \cup {e}
      BY <1>5, <2>4, <3>1
    <3> QED BY <3>2
  <2> QED BY <1>2, <2>1, <2>3, <2>5, <2>9, <2>10, SparesProven
<1>12. T = (((P \ B) \ G) \ C) \ D
  BY <1>1 DEF Evicts
<1> QED BY <1>6, <1>8, <1>9, <1>10, <1>11, <1>12

(* Whoever registers, the record of the node itself stays its own.          *)
(* The record of the node itself is never cut.                              *)
OwnStays(R, T) == \A o \in R : o.key = Own_ /\ o.source = SelfSource => \E n \in T : n.key = Own_ /\ n.source = SelfSource

LEMMA RegisterKeepsSelf ==
  ASSUME NEW R, Records(R), NEW key, NEW source, NEW T, Registered(R, T, key, source, TRUE)
  PROVE  OwnStays(R, T)
<1> SUFFICES ASSUME NEW o \in R, o.key = Own_, o.source = SelfSource PROVE \E n \in T : n.key = Own_ /\ n.source = SelfSource
  BY DEF OwnStays
<1>1. PICK e, P, A, B, G, C, D : Evicts(R, T, key, source, TRUE, e, P, A, B, G, C, D)
  BY DEF Registered
<1>2. PICK n \in P : n.key = Own_ /\ n.source = SelfSource
  <2>1. P = (Others(R, key) \ A) \cup {e} /\ e.key = key /\ Renews(R, e, source, TRUE)
        /\ \A f \in A : ~Directory!Protected(f, TRUE)
    BY <1>1 DEF Evicts, Cut
  <2>2. CASE key # Own_
    <3>1. o \in Others(R, key) /\ o \notin A
      BY <2>1, <2>2 DEF Others, Directory!Protected
    <3> QED BY <2>1, <3>1
  <2>3. CASE key = Own_
    <3>1. \A f \in R : f.key = Own_ => f = o
      BY DEF Records, OneEach
    <3>2. e.source = SelfSource
      BY <2>1, <2>3, <3>1 DEF Renews, Directory!Protected
    <3> QED BY <2>1, <2>3, <3>2
  <2> QED BY <2>2, <2>3
<1>3. n \notin B /\ n \notin G /\ n \notin C /\ n \notin D
  BY <1>1, <1>2 DEF Evicts, Cut, Directory!Protected
<1>4. T = (((P \ B) \ G) \ C) \ D
  BY <1>1 DEF Evicts
<1> QED BY <1>2, <1>3, <1>4

(* From the lists of the handler to the sets above.                         *)
(* The lists of the model and their sets of records.                        *)
LEMMA OldIs ==
  ASSUME NEW s, Fine(s), NEW key, NEW old, old = Directory!Keep(s, Directory!Positions(s, key))
  PROVE  \/ old = <<>> /\ \A f \in Listed(s) : f.key # key
         \/ old # <<>> /\ old[1] \in Listed(s) /\ old[1].key = key
<1>1. PICK K \in SUBSET DOMAIN s : K = Directory!Positions(s, key) /\ \A i \in DOMAIN s : i \in K <=> s[i].key = key
  BY DEF Directory!Positions
<1>2. Fine(old) /\ Len(old) = Cardinality(K) /\ IsFiniteSet(K) /\ \A e : e \in Listed(old) <=> \E i \in K : e = s[i]
  BY <1>1, KeepIs
<1>3. old \in Seq(Descriptor)
  BY <1>2 DEF Fine
<1>4. CASE K = {}
  <2>1. Len(old) = 0
    BY <1>2, <1>4, FS_EmptySet
  <2>2. old = <<>>
    BY <1>3, <2>1, EmptySeq
  <2> QED BY <1>1, <1>4, <2>2 DEF Listed
<1>5. CASE K # {}
  <2>1. Cardinality(K) # 0 /\ Cardinality(K) \in Nat
    BY <1>2, <1>5, FS_EmptySet, FS_CardinalityType
  <2>2. 1 \in DOMAIN old /\ old # <<>>
    <3>1. DOMAIN old = 1..Len(old)
      BY <1>3, LenProperties
    <3>2. 1 \in DOMAIN old
      BY <1>2, <2>1, <3>1
    <3> QED BY <1>2, <2>1, <3>2, EmptySeq
  <2>3. old[1] \in Listed(old)
    BY <2>2 DEF Listed
  <2>4. PICK i \in K : old[1] = s[i]
    BY <1>2, <2>3
  <2> QED BY <1>1, <2>2, <2>4 DEF Listed
<1> QED BY <1>4, <1>5

LEMMA OthersAre ==
  ASSUME NEW s, Fine(s), NEW key, NEW others, others = Directory!Keep(s, DOMAIN s \ Directory!Positions(s, key))
  PROVE  Fine(others) /\ Listed(others) = Others(Listed(s), key)
<1>1. PICK K \in SUBSET DOMAIN s : K = DOMAIN s \ Directory!Positions(s, key) /\ \A i \in DOMAIN s : i \in K <=> s[i].key # key
  BY DEF Directory!Positions
<1>2. Fine(others) /\ \A e : e \in Listed(others) <=> \E i \in K : e = s[i]
  BY <1>1, KeepIs
<1>3. \A e : e \in Others(Listed(s), key) <=> \E i \in K : e = s[i]
  BY <1>1 DEF Others, Listed
<1> QED BY <1>2, <1>3

LEMMA OneMore ==
  ASSUME NEW s, Fine(s), NEW e \in Descriptor, \A f \in Listed(s) : f.key # e.key, NEW t, t = Append(s, e)
  PROVE  Fine(t) /\ Listed(t) = Listed(s) \cup {e} /\ t[Len(t)] = e
<1>1. s \in Seq(Descriptor) /\ Len(s) \in Nat /\ DOMAIN s = 1..Len(s)
  BY LenProperties DEF Fine
<1>2. t \in Seq(Descriptor) /\ Len(t) = Len(s) + 1 /\ t[Len(s) + 1] = e /\ \A i \in 1..Len(s) : t[i] = s[i]
  BY <1>1, AppendProperties
<1>3. DOMAIN t = 1..(Len(s) + 1)
  BY <1>2, LenProperties
<1>4. \A i \in DOMAIN t : i \in DOMAIN s \/ i = Len(s) + 1
  BY <1>1, <1>3
<1>5. \A i \in DOMAIN s : i \in DOMAIN t /\ t[i] = s[i] /\ t[i] \in Listed(s)
  BY <1>1, <1>2, <1>3 DEF Listed
<1>6. Len(s) + 1 \in DOMAIN t
  BY <1>1, <1>3
<1>7. ASSUME NEW i \in DOMAIN t, NEW j \in DOMAIN t, t[i].key = t[j].key PROVE i = j
  BY <1>2, <1>4, <1>5, <1>7 DEF Fine
<1>8. \A f : f \in Listed(t) <=> f \in Listed(s) \/ f = e
  BY <1>2, <1>4, <1>5, <1>6 DEF Listed
<1> QED BY <1>2, <1>7, <1>8 DEF Fine

ChangedAt(t, s, i, e) == t = [s EXCEPT ![i] = e]

LEMMA Changed ==
  ASSUME NEW s, Fine(s), NEW i \in DOMAIN s, NEW e \in Descriptor, e.key = s[i].key, NEW t, ChangedAt(t, s, i, e)
  PROVE  Fine(t) /\ s[i] \in Listed(s) /\ Listed(t) = (Listed(s) \ {s[i]}) \cup {e}
<1>1. s \in Seq(Descriptor) /\ DOMAIN s = 1..Len(s) /\ Len(s) \in Nat
  BY LenProperties DEF Fine
<1>2. t \in Seq(Descriptor)
  BY <1>1, ExceptSeq DEF ChangedAt
<1>3. DOMAIN t = DOMAIN s /\ t[i] = e /\ \A j \in DOMAIN s : j # i => t[j] = s[j]
  BY DEF ChangedAt
<1>4. \A j \in DOMAIN s : t[j].key = s[j].key
  BY <1>3
<1>5. Fine(t)
  BY <1>2, <1>3, <1>4 DEF Fine
<1>6. \A j \in DOMAIN s : j # i => s[j] # s[i]
  BY DEF Fine
<1>7. \A f : f \in Listed(t) <=> f = e \/ (f \in Listed(s) /\ f # s[i])
  <2>1. ASSUME NEW f \in Listed(t) PROVE f = e \/ (f \in Listed(s) /\ f # s[i])
    <3>1. PICK j \in DOMAIN s : f = t[j]
      BY <1>3 DEF Listed
    <3> QED BY <1>3, <1>6, <3>1 DEF Listed
  <2>2. ASSUME NEW f \in Listed(s), f # s[i] PROVE f \in Listed(t)
    <3>1. PICK j \in DOMAIN s : f = s[j]
      BY DEF Listed
    <3>2. j \in DOMAIN t /\ t[j] = f
      BY <1>3, <2>2, <3>1
    <3> QED BY <3>2 DEF Listed
  <2>3. e \in Listed(t)
    BY <1>3 DEF Listed
  <2> QED BY <2>1, <2>2, <2>3
<1>8. s[i] \in Listed(s)
  BY DEF Listed
<1> QED BY <1>5, <1>7, <1>8

(* An action of the model is one of those steps of the set.                 *)
PlacesFor(R, t, key, source, e, A) ==
  /\ e \in Descriptor /\ e.key = key /\ Renews(R, e, source, hardened)
  /\ Cut(OfIdentity(Others(R, key), key.peer), A, MaxEndpoints - 1, hardened)
  /\ Fine(t) /\ Listed(t) = (Others(R, key) \ A) \cup {e} /\ t[Len(t)] = e

LEMMA PlacedSays ==
  ASSUME CeilingsOk, Fine(entries), NEW key \in Keys, NEW issued \in Nat, NEW source \in Sources,
         NEW t, t = Directory!Placed(key, issued, source)
  PROVE  \E e, A : PlacesFor(Listed(entries), t, key, source, e, A)
<1>1. PICK R : R = Listed(entries)
  OBVIOUS
<1>2. Records(R)
  BY <1>1, ListedRecords
<1>3. PICK old : old = Directory!Keep(entries, Directory!Positions(entries, key))
  OBVIOUS
<1>4. PICK others : others = Directory!Keep(entries, DOMAIN entries \ Directory!Positions(entries, key))
  OBVIOUS
<1>5. Fine(others) /\ Listed(others) = Others(R, key)
  BY <1>1, <1>4, OthersAre
<1>6. PICK inside \in SUBSET DOMAIN others : inside = {i \in DOMAIN others : others[i].key.peer = key.peer}
  OBVIOUS
<1>7. PICK limit \in Nat : limit = MaxEndpoints - 1
  BY DEF CeilingsOk
<1>8. PICK fan : fan = Directory!Bound(others, inside, limit, hardened)
  OBVIOUS
<1>9. PICK e : e = [key |-> key, issued |-> issued, source |-> Directory!EffectiveSource(old, source),
                    auth |-> Directory!Evidence(old).auth, fails |-> Directory!Evidence(old).fails]
  OBVIOUS
<1>10. t = Append(fan, e)
  BY <1>3, <1>4, <1>6, <1>7, <1>8, <1>9 DEF Directory!Placed
<1>11. PICK E : E = OfIdentity(Others(R, key), key.peer)
  OBVIOUS
<1>12. RecordsAt(E, others, inside)
  <2>1. \A f : f \in E <=> f \in Listed(others) /\ f.key.peer = key.peer
    BY <1>5, <1>11 DEF OfIdentity
  <2> QED BY <1>6, <2>1 DEF Listed, RecordsAt
<1>13. PICK A : Cut(E, A, limit, hardened) /\ Fine(fan) /\ Listed(fan) = Listed(others) \ A
  BY <1>5, <1>8, <1>12, BoundSays
<1>14. e.key = key /\ e.issued = issued /\ e.source = Directory!EffectiveSource(old, source)
       /\ e.auth = Directory!Evidence(old).auth /\ e.fails = Directory!Evidence(old).fails
  BY <1>9
<1>15. e \in Descriptor /\ Renews(R, e, source, hardened)
  <2>1. CASE old = <<>> /\ \A f \in R : f.key # key
    <3>1. Directory!EffectiveSource(old, source) = source
      BY <2>1 DEF Directory!EffectiveSource
    <3>2. Directory!Evidence(old).auth = FALSE /\ Directory!Evidence(old).fails = 0
      BY <2>1 DEF Directory!Evidence
    <3>3. e \in Descriptor
      <4>1. e = [key |-> key, issued |-> issued, source |-> source, auth |-> FALSE, fails |-> 0]
        BY <1>9, <3>1, <3>2, Zenon
      <4> QED BY <4>1 DEF Descriptor
    <3> QED BY <1>14, <2>1, <3>1, <3>2, <3>3 DEF Renews
  <2>2. CASE old # <<>> /\ old[1] \in R /\ old[1].key = key
    <3>1. PICK f \in R : f = old[1] /\ f.key = key
      BY <2>2
    <3>2. Directory!EffectiveSource(old, source)
          = IF ~(hardened /\ source = SelfSource) /\ (Directory!Protected(f, hardened) \/ f.auth) THEN f.source ELSE source
      BY <2>2, <3>1 DEF Directory!EffectiveSource
    <3>3. Directory!Evidence(old).auth = f.auth /\ Directory!Evidence(old).fails = f.fails
      BY <2>2, <3>1 DEF Directory!Evidence
    <3>4. f \in Descriptor
      BY <1>2 DEF Records
    <3>5. f.source \in Sources /\ f.auth \in BOOLEAN /\ f.fails \in Nat
      BY <3>4 DEF Descriptor
    <3>6. Directory!EffectiveSource(old, source) \in Sources
      BY <3>2, <3>5
    <3>7. e \in Descriptor
      BY <1>9, <3>3, <3>5, <3>6 DEF Descriptor
    <3> QED BY <1>14, <3>1, <3>2, <3>3, <3>7 DEF Renews
  <2> QED BY <1>1, <1>3, <2>1, <2>2, OldIs
<1>16. \A f \in Listed(fan) : f.key # e.key
  BY <1>5, <1>13, <1>14 DEF Others
<1>17. Fine(t) /\ Listed(t) = Listed(fan) \cup {e} /\ t[Len(t)] = e
  BY <1>10, <1>13, <1>15, <1>16, OneMore
<1>18. Listed(t) = (Others(R, key) \ A) \cup {e}
  BY <1>5, <1>13, <1>17
<1> QED BY <1>1, <1>7, <1>11, <1>13, <1>14, <1>15, <1>17, <1>18 DEF PlacesFor

Lent(R, T, key) ==
  \E o \in R : o.key = key /\ T = (R \ {o}) \cup {[o EXCEPT !.source = SelfSource]}

LEMMA RegisterSays ==
  ASSUME CeilingsOk, Fine(entries), NEW key \in Keys, NEW issued \in Nat, NEW source \in Sources,
         Directory!Register(key, issued, source)
  PROVE  /\ hardened' = hardened /\ Fine(entries')
         /\ \/ entries' = entries
            \/ hardened /\ source = SelfSource /\ Lent(Listed(entries), Listed(entries'), key)
            \/ Registered(Listed(entries), Listed(entries'), key, source, hardened)
<1>1. hardened' = hardened
  BY DEF Directory!Register
<1>2. CASE \E i \in Directory!Positions(entries, key) : entries[i].issued > issued
  <2>1. PICK i \in DOMAIN entries : entries[i].key = key
    BY <1>2 DEF Directory!Positions
  <2>2. entries' = [j \in DOMAIN entries |-> IF entries[j].key = key /\ hardened /\ source = SelfSource
                                             THEN [entries[j] EXCEPT !.source = source] ELSE entries[j]]
    BY <1>2 DEF Directory!Register
  <2>3. entries \in Seq(Descriptor) /\ DOMAIN entries = 1..Len(entries)
    BY LenProperties DEF Fine
  <2>4. entries = [j \in DOMAIN entries |-> entries[j]]
    BY <2>3
  <2>5. CASE ~(hardened /\ source = SelfSource)
    <3>1. entries' = entries
      BY <2>2, <2>4, <2>5
    <3> QED BY <1>1, <3>1
  <2>6. CASE hardened /\ source = SelfSource
    <3>1. PICK n : n = [entries[i] EXCEPT !.source = SelfSource]
      OBVIOUS
    <3>2. \A j \in DOMAIN entries : entries[j].key = key <=> j = i
      BY <2>1 DEF Fine
    <3>3. entries' = [entries EXCEPT ![i] = n]
      BY <2>2, <2>4, <2>6, <3>1, <3>2
    <3>4. entries[i] \in Descriptor
      BY <2>3, ElementOfSeq
    <3>5. n \in Descriptor /\ n.key = entries[i].key
      BY <3>1, <3>4 DEF Descriptor, CeilingsOk
    <3>6. PICK w : w = entries'
      OBVIOUS
    <3>7. ChangedAt(w, entries, i, n)
      BY <3>3, <3>6 DEF ChangedAt
    <3>8. Fine(w) /\ entries[i] \in Listed(entries) /\ Listed(w) = (Listed(entries) \ {entries[i]}) \cup {n}
      BY <3>5, <3>7, Changed
    <3>9. Lent(Listed(entries), Listed(w), key)
      BY <2>1, <3>1, <3>8 DEF Lent
    <3> QED BY <1>1, <2>6, <3>6, <3>8, <3>9
  <2> QED BY <2>5, <2>6
<1>3. CASE ~\E i \in Directory!Positions(entries, key) : entries[i].issued > issued
  <2>1. PICK t : t = Directory!Placed(key, issued, source)
    OBVIOUS
  <2>2. PICK e, A : PlacesFor(Listed(entries), t, key, source, e, A)
    BY <2>1, PlacedSays
  <2>3. PICK u : u = Directory!BoundSource(t, t[Len(t)].source, hardened)
    OBVIOUS
  <2>4. PICK v : v = Directory!BoundGroup(u, Group(key), hardened)
    OBVIOUS
  <2>5. entries' = Directory!BoundTotals(v, hardened)
    BY <1>3, <2>1, <2>3, <2>4 DEF Directory!Register
  <2>6. Fine(t) /\ t[Len(t)] = e
    BY <2>2 DEF PlacesFor
  <2>7. PICK P : P = Listed(t)
    OBVIOUS
  <2>8. PICK B : /\ Fine(u) /\ Listed(u) = Listed(t) \ B /\ \A f \in B : ~Directory!Protected(f, hardened)
                 /\ IF hardened /\ e.source = SelfSource THEN B = {}
                    ELSE Cut(FromSource(Listed(t), e.source), B, Directory!Limit(hardened, MaxPerSource), hardened)
    BY <2>3, <2>6, SourceSays
  <2>9. PICK G : /\ Fine(v) /\ Listed(v) = Listed(u) \ G
                 /\ Cut(InGroup(Listed(u), Group(key)), G, Directory!Limit(hardened, MaxPerGroup), hardened)
    BY <2>4, <2>8, GroupSays
  <2>10. PICK w : w = entries'
    OBVIOUS
  <2>11. PICK C, D : /\ Fine(w) /\ Listed(w) = (Listed(v) \ C) \ D
                     /\ Cut(Doubtful(Listed(v), hardened), C, Directory!Limit(hardened, MaxUnverified), hardened)
                     /\ Cut(Listed(v) \ C, D, MaxRecords, hardened)
    BY <2>5, <2>9, <2>10, TotalsSay
  <2>12. Evicts(Listed(entries), Listed(w), key, source, hardened, e, P, A, B, G, C, D)
    BY <2>2, <2>7, <2>8, <2>9, <2>11 DEF Evicts, PlacesFor
  <2>13. Registered(Listed(entries), Listed(w), key, source, hardened)
    BY <2>12 DEF Registered
  <2> QED BY <1>1, <2>10, <2>11, <2>13
<1> QED BY <1>2, <1>3

(* A mark, a lent source, the new limits and an expiry keep the ceilings.   *)
LEMMA SelfUncut ==
  ASSUME NEW R, NEW T, NEW C, NEW D, OwnStays(R, T),
         \A f \in C \cup D : ~Directory!Protected(f, TRUE)
  PROVE  OwnStays(R, (T \ C) \ D)
<1> SUFFICES ASSUME NEW o \in R, o.key = Own_, o.source = SelfSource
             PROVE  \E n \in (T \ C) \ D : n.key = Own_ /\ n.source = SelfSource
  BY DEF OwnStays
<1>1. PICK n \in T : n.key = Own_ /\ n.source = SelfSource
  BY DEF OwnStays
<1>2. Directory!Protected(n, TRUE)
  BY <1>1 DEF Directory!Protected
<1> QED BY <1>1, <1>2

LEMMA MarkSays ==
  ASSUME CeilingsOk, Fine(entries), hardened \in BOOLEAN, Held(Listed(entries), hardened),
         NEW i \in DOMAIN entries, NEW e \in Descriptor, e.key = entries[i].key, e.source = entries[i].source,
         Directory!Mark(i, e)
  PROVE  /\ hardened /\ hardened' /\ Fine(entries') /\ Held(Listed(entries'), TRUE)
         /\ OwnStays(Listed(entries), Listed(entries'))
<1>1. hardened /\ hardened' = hardened
  BY DEF Directory!Mark
<1>2. PICK t : ChangedAt(t, entries, i, e)
  BY DEF ChangedAt
<1>3. PICK w : w = entries'
  OBVIOUS
<1>4. w = Directory!BoundTotals(t, hardened)
  BY <1>2, <1>3 DEF Directory!Mark, ChangedAt
<1>5. Fine(t) /\ entries[i] \in Listed(entries) /\ Listed(t) = (Listed(entries) \ {entries[i]}) \cup {e}
  BY <1>2, Changed
<1>6. PICK R : R = Listed(entries)
  OBVIOUS
<1>7. PICK T : T = Listed(t)
  OBVIOUS
<1>8. PICK o \in R : o = entries[i]
  BY <1>5, <1>6
<1>9. Records(R) /\ Within(R, hardened)
  BY <1>6, ListedRecords DEF Held
<1>10. e.key = o.key /\ e.source = o.source /\ T = (R \ {o}) \cup {e}
  BY <1>5, <1>6, <1>7, <1>8
<1>11. Records(T) /\ Within(T, hardened)
  BY <1>1, <1>9, <1>10, Replaced
<1>12. PICK C, D : /\ Fine(w) /\ Listed(w) = (Listed(t) \ C) \ D
                   /\ Cut(Doubtful(Listed(t), hardened), C, Directory!Limit(hardened, MaxUnverified), hardened)
                   /\ Cut(Listed(t) \ C, D, MaxRecords, hardened)
  BY <1>4, <1>5, TotalsSay
<1>13. /\ Cut(Doubtful(T, hardened), C, Directory!Limit(hardened, MaxUnverified), hardened)
       /\ Cut(T \ C, D, MaxRecords, hardened)
  BY <1>7, <1>12
<1>14. Held((T \ C) \ D, hardened)
  BY <1>11, <1>13, TotalsHold
<1>15. hardened = TRUE
  BY <1>1
<1>16. \A f \in C \cup D : ~Directory!Protected(f, TRUE)
  BY <1>13, <1>15 DEF Cut
<1>17. OwnStays(R, T)
  BY <1>8, <1>10 DEF OwnStays
<1>18. OwnStays(R, (T \ C) \ D)
  BY <1>16, <1>17, SelfUncut
<1> QED BY <1>1, <1>3, <1>6, <1>7, <1>12, <1>14, <1>15, <1>18

LEMMA LentSays ==
  ASSUME CeilingsOk, NEW R, Records(R), NEW T, Held(R, TRUE), Lent(R, T, Own_)
  PROVE  Held(T, TRUE) /\ OwnStays(R, T)
<1>1. PICK o \in R : o.key = Own_ /\ T = (R \ {o}) \cup {[o EXCEPT !.source = SelfSource]}
  BY DEF Lent
<1>2. PICK n : n = [o EXCEPT !.source = SelfSource]
  OBVIOUS
<1>3. o \in Descriptor
  BY DEF Records
<1>4. n \in Descriptor /\ n.key = Own_ /\ n.source = SelfSource /\ n.auth = o.auth
  BY <1>1, <1>2, <1>3 DEF Descriptor, CeilingsOk
<1>5. T = (R \ {o}) \cup {n}
  BY <1>1, <1>2
<1>6. Within(R, TRUE) /\ Cardinality(R) <= MaxRecords /\ Cardinality(Doubtful(R, TRUE)) <= MaxUnverified
  BY DEF Held
<1>7. /\ Records(T) /\ Within(T, TRUE) /\ Cardinality(T) <= Cardinality(R)
      /\ Cardinality(Doubtful(T, TRUE)) <= Cardinality(Doubtful(R, TRUE))
  BY <1>1, <1>4, <1>5, <1>6, Replaced
<1>8. IsFiniteSet(R) /\ IsFiniteSet(T) /\ IsFiniteSet(Doubtful(R, TRUE)) /\ IsFiniteSet(Doubtful(T, TRUE))
  <2>1. IsFiniteSet(R) /\ IsFiniteSet(T)
    BY <1>7 DEF Records
  <2>2. Doubtful(R, TRUE) \in SUBSET R /\ Doubtful(T, TRUE) \in SUBSET T
    BY DEF Doubtful
  <2> QED BY <2>1, <2>2, FS_Subset
<1>9. PICK a \in Nat, b \in Nat, c \in Nat, d \in Nat :
        a = Cardinality(R) /\ b = Cardinality(T) /\ c = Cardinality(Doubtful(R, TRUE)) /\ d = Cardinality(Doubtful(T, TRUE))
  BY <1>8, FS_CardinalityType
<1>10. b <= MaxRecords /\ d <= MaxUnverified
  <2>1. a <= MaxRecords /\ b <= a /\ c <= MaxUnverified /\ d <= c
    BY <1>6, <1>7, <1>9, Zenon
  <2>2. MaxRecords \in Nat /\ MaxUnverified \in Nat
    BY DEF CeilingsOk
  <2> QED BY <2>1, <2>2
<1>11. Held(T, TRUE)
  BY <1>7, <1>9, <1>10 DEF Held
<1>12. OwnStays(R, T)
  BY <1>4, <1>5 DEF OwnStays
<1> QED BY <1>11, <1>12

OverSources(s) == UNION {Directory!Gone(s, Directory!OfSource(s, from), MaxPerSource, TRUE) : from \in Sources \ {SelfSource}}
OverGroups(s) == UNION {Directory!Gone(s, Directory!OfGroup(s, Group(k)), MaxPerGroup, TRUE) : k \in Keys}

LEMMA SourcesCut ==
  ASSUME CeilingsOk, NEW s, Fine(s), NEW gone, gone = OverSources(s),
         NEW t, t = Directory!Keep(s, DOMAIN s \ gone)
  PROVE  /\ Fine(t) /\ Listed(t) \in SUBSET Listed(s)
         /\ \A source \in Sources \ {SelfSource} : Cardinality(FromSource(Listed(t), source)) <= MaxPerSource
<1>1. PICK K \in SUBSET DOMAIN s : K = DOMAIN s \ gone
  OBVIOUS
<1>2. Fine(t) /\ \A f : f \in Listed(t) <=> \E i \in K : f = s[i]
  <2>1. t = Directory!Keep(s, K)
    BY <1>1
  <2> QED BY <1>1, <2>1, KeepIs
<1>3. Listed(t) \in SUBSET Listed(s)
  BY <1>2 DEF Listed
<1>4. ASSUME NEW source \in Sources \ {SelfSource} PROVE Cardinality(FromSource(Listed(t), source)) <= MaxPerSource
  <2>1. PICK inside \in SUBSET DOMAIN s : inside = Directory!OfSource(s, source)
    BY DEF Directory!OfSource
  <2>2. PICK E : E = FromSource(Listed(s), source)
    OBVIOUS
  <2>3. RecordsAt(E, s, inside)
    <3>1. \A f : f \in E <=> f \in Listed(s) /\ f.source = source
      BY <2>2 DEF FromSource
    <3>2. \A i : i \in inside <=> i \in DOMAIN s /\ s[i].source = source
      BY <2>1 DEF Directory!OfSource
    <3> QED BY <3>1, <3>2 DEF Listed, RecordsAt
  <2>4. PICK these, strict : strict = TRUE /\ these = Directory!Gone(s, inside, MaxPerSource, strict)
    OBVIOUS
  <2>5. PICK D : D = {s[i] : i \in these}
    OBVIOUS
  <2>6. RecordsAt(D, s, these)
    BY <2>5 DEF RecordsAt
  <2>7. MaxPerSource \in Nat
    BY DEF CeilingsOk
  <2>8. Cut(E, D, MaxPerSource, TRUE) /\ these \in SUBSET inside
    <3>1. Cut(E, D, MaxPerSource, strict) /\ these \in SUBSET inside
      <4>1. inside \in SUBSET DOMAIN s
        BY <2>1
      <4>2. these = Directory!Gone(s, inside, MaxPerSource, strict)
        BY <2>4
      <4>3. RecordsAt(E, s, inside) /\ RecordsAt(D, s, these) /\ MaxPerSource \in Nat
        BY <2>3, <2>6, <2>7
      <4> QED BY <4>1, <4>2, <4>3, GoneCuts
    <3> QED BY <2>4, <3>1
  <2>9. these \subseteq gone
    BY <2>1, <2>4 DEF OverSources
  <2>10. FromSource(Listed(t), source) \in SUBSET (E \ D)
    <3>1. ASSUME NEW f \in FromSource(Listed(t), source) PROVE f \in E \ D
      <4>1. f \in Listed(t) /\ f.source = source
        BY DEF FromSource
      <4>2. PICK i \in K : f = s[i]
        BY <1>2, <4>1
      <4>3. f \in E
        BY <1>3, <2>2, <4>1 DEF FromSource
      <4>4. ASSUME f \in D PROVE FALSE
        <5>1. PICK j \in these : f = s[j]
          BY <2>5, <4>4
        <5>2. i \in DOMAIN s /\ j \in DOMAIN s /\ i \notin these
          BY <1>1, <2>8, <2>9
        <5> QED BY <4>2, <5>1, <5>2 DEF Fine
      <4> QED BY <4>3, <4>4
    <3> QED BY <3>1
  <2>11. Kept(E \ D, TRUE) = E \ D
    <3>1. \A f \in E : ~Directory!Protected(f, TRUE)
      BY <2>2 DEF FromSource, Directory!Protected
    <3> QED BY <3>1 DEF Kept
  <2>12. Cardinality(E \ D) <= MaxPerSource /\ IsFiniteSet(E)
    BY <2>8, <2>11 DEF Cut
  <2>13. PICK X : X = E \ D
    OBVIOUS
  <2>14. IsFiniteSet(X) /\ Cardinality(X) <= MaxPerSource /\ FromSource(Listed(t), source) \in SUBSET X
    <3>1. X \in SUBSET E
      BY <2>13
    <3> QED BY <2>10, <2>12, <2>13, <3>1, FS_Subset
  <2> QED BY <2>7, <2>14, FewerThan
<1> QED BY <1>2, <1>3, <1>4

LEMMA GroupsCut ==
  ASSUME CeilingsOk, NEW s, Fine(s), SelfIsOwn(Listed(s)), NEW gone, gone = OverGroups(s),
         NEW t, t = Directory!Keep(s, DOMAIN s \ gone)
  PROVE  /\ Fine(t) /\ Listed(t) \in SUBSET Listed(s)
         /\ \A k \in Keys : Cardinality(InGroup(Listed(t), Group(k))) <= MaxPerGroup
<1>1. PICK K \in SUBSET DOMAIN s : K = DOMAIN s \ gone
  OBVIOUS
<1>2. Fine(t) /\ \A f : f \in Listed(t) <=> \E i \in K : f = s[i]
  <2>1. t = Directory!Keep(s, K)
    BY <1>1
  <2> QED BY <1>1, <2>1, KeepIs
<1>3. Listed(t) \in SUBSET Listed(s)
  BY <1>2 DEF Listed
<1>4. ASSUME NEW k \in Keys PROVE Cardinality(InGroup(Listed(t), Group(k))) <= MaxPerGroup
  <2>1. PICK inside \in SUBSET DOMAIN s : inside = Directory!OfGroup(s, Group(k))
    BY DEF Directory!OfGroup
  <2>2. PICK E : E = InGroup(Listed(s), Group(k))
    OBVIOUS
  <2>3. RecordsAt(E, s, inside)
    <3>1. \A f : f \in E <=> f \in Listed(s) /\ Group(f.key) = Group(k)
      BY <2>2 DEF InGroup
    <3>2. \A i : i \in inside <=> i \in DOMAIN s /\ Group(s[i].key) = Group(k)
      BY <2>1 DEF Directory!OfGroup
    <3> QED BY <3>1, <3>2 DEF Listed, RecordsAt
  <2>4. PICK these, strict : strict = TRUE /\ these = Directory!Gone(s, inside, MaxPerGroup, strict)
    OBVIOUS
  <2>5. PICK D : D = {s[i] : i \in these}
    OBVIOUS
  <2>6. RecordsAt(D, s, these)
    BY <2>5 DEF RecordsAt
  <2>7. MaxPerGroup \in Nat /\ 1 <= MaxPerGroup
    BY DEF CeilingsOk
  <2>8. Cut(E, D, MaxPerGroup, TRUE) /\ these \in SUBSET inside
    <3>1. Cut(E, D, MaxPerGroup, strict) /\ these \in SUBSET inside
      <4>1. inside \in SUBSET DOMAIN s
        BY <2>1
      <4>2. these = Directory!Gone(s, inside, MaxPerGroup, strict)
        BY <2>4
      <4>3. RecordsAt(E, s, inside) /\ RecordsAt(D, s, these) /\ MaxPerGroup \in Nat
        BY <2>3, <2>6, <2>7
      <4> QED BY <4>1, <4>2, <4>3, GoneCuts
    <3> QED BY <2>4, <3>1
  <2>9. these \subseteq gone
    BY <2>1, <2>4 DEF OverGroups
  <2>10. InGroup(Listed(t), Group(k)) \in SUBSET (E \ D)
    <3>1. ASSUME NEW f \in InGroup(Listed(t), Group(k)) PROVE f \in E \ D
      <4>1. f \in Listed(t) /\ Group(f.key) = Group(k)
        BY DEF InGroup
      <4>2. PICK i \in K : f = s[i]
        BY <1>2, <4>1
      <4>3. f \in E
        BY <1>3, <2>2, <4>1 DEF InGroup
      <4>4. ASSUME f \in D PROVE FALSE
        <5>1. PICK j \in these : f = s[j]
          BY <2>5, <4>4
        <5>2. i \in DOMAIN s /\ j \in DOMAIN s /\ i \notin these
          BY <1>1, <2>8, <2>9
        <5> QED BY <4>2, <5>1, <5>2 DEF Fine
      <4> QED BY <4>3, <4>4
    <3> QED BY <3>1
  <2>11. Cardinality(E \ Kept(E, TRUE)) \in {0, 1}
    <3>1. E \in SUBSET Listed(s)
      BY <2>2 DEF InGroup
    <3>2. PICK R : R = Listed(s)
      OBVIOUS
    <3>3. Records(R) /\ SelfIsOwn(R) /\ E \in SUBSET R
      BY <3>1, <3>2, ListedRecords
    <3> QED BY <3>3, OneProtected
  <2>12. Cardinality(E \ Kept(E, TRUE)) <= MaxPerGroup
    BY <2>7, <2>11
  <2>13. Cardinality(E \ D) <= MaxPerGroup /\ IsFiniteSet(E)
    BY <2>8, <2>12 DEF Cut
  <2>14. PICK X : X = E \ D
    OBVIOUS
  <2>15. IsFiniteSet(X) /\ Cardinality(X) <= MaxPerGroup /\ InGroup(Listed(t), Group(k)) \in SUBSET X
    <3>1. X \in SUBSET E
      BY <2>14
    <3> QED BY <2>10, <2>13, <2>14, <3>1, FS_Subset
  <2> QED BY <2>7, <2>15, FewerThan
<1> QED BY <1>2, <1>3, <1>4

LEMMA ConfigureSays ==
  ASSUME CeilingsOk, Fine(entries), hardened \in BOOLEAN, Held(Listed(entries), hardened), Directory!ConfigureAdmission
  PROVE  ~hardened /\ hardened' /\ Fine(entries') /\ Held(Listed(entries'), TRUE)
<1>1. ~hardened /\ hardened' = TRUE
  BY DEF Directory!ConfigureAdmission
<1>2. PICK g : g = OverSources(entries)
  OBVIOUS
<1>3. PICK t : t = Directory!Keep(entries, DOMAIN entries \ g)
  OBVIOUS
<1>4. PICK h : h = OverGroups(t)
  OBVIOUS
<1>5. PICK u : u = Directory!Keep(t, DOMAIN t \ h)
  OBVIOUS
<1>6. PICK w : w = entries'
  OBVIOUS
<1>7. w = Directory!BoundTotals(u, TRUE)
  BY <1>2, <1>3, <1>4, <1>5, <1>6 DEF Directory!ConfigureAdmission, Directory!Tightened, OverSources, OverGroups
<1>8. /\ Fine(t) /\ Listed(t) \in SUBSET Listed(entries)
      /\ \A source \in Sources \ {SelfSource} : Cardinality(FromSource(Listed(t), source)) <= MaxPerSource
  BY <1>2, <1>3, SourcesCut
<1>9. PICK R : R = Listed(entries)
  OBVIOUS
<1>10. PICK S : S = Listed(t)
  OBVIOUS
<1>11. Records(R) /\ Within(R, hardened) /\ IsFiniteSet(R)
  BY <1>9, ListedRecords DEF Held, Records
<1>12. SelfIsOwn(S)
  BY <1>8, <1>9, <1>10, <1>11 DEF Within, SelfIsOwn
<1>13. /\ Fine(u) /\ Listed(u) \in SUBSET Listed(t)
       /\ \A k \in Keys : Cardinality(InGroup(Listed(u), Group(k))) <= MaxPerGroup
  BY <1>4, <1>5, <1>8, <1>10, <1>12, GroupsCut
<1>14. PICK T : T = Listed(u)
  OBVIOUS
<1>15. T \in SUBSET S /\ T \in SUBSET R /\ S \in SUBSET R /\ IsFiniteSet(S)
  <2>1. T \in SUBSET S /\ S \in SUBSET R
    BY <1>8, <1>9, <1>10, <1>13, <1>14
  <2> QED BY <1>11, <2>1, FS_Subset
<1>16. Records(T) /\ Within(T, hardened)
  BY <1>11, <1>15, WithinFewer
<1>17. Within(T, TRUE)
  <2>1. SelfIsOwn(T)
    BY <1>16 DEF Within
  <2>2. ASSUME NEW k \in Keys PROVE Cardinality(Kept(OfIdentity(T, k.peer), TRUE)) <= MaxEndpoints
    <3>1. PICK X : X = Kept(OfIdentity(T, k.peer), hardened)
      OBVIOUS
    <3>2. Cardinality(X) <= MaxEndpoints
      BY <1>16, <3>1 DEF Within
    <3>3. Kept(OfIdentity(T, k.peer), TRUE) \in SUBSET X
      <4>1. \A f : ~Directory!Protected(f, hardened)
        BY <1>1 DEF Directory!Protected
      <4> QED BY <3>1, <4>1 DEF Kept
    <3>4. IsFiniteSet(X)
      <4>1. X \in SUBSET T /\ IsFiniteSet(T)
        BY <1>16, <3>1 DEF Kept, OfIdentity, Records
      <4> QED BY <4>1, FS_Subset
    <3>5. MaxEndpoints \in Nat
      BY DEF CeilingsOk
    <3> QED BY <3>2, <3>3, <3>4, <3>5, FewerThan
  <2>3. \A k \in Keys : Cardinality(InGroup(T, Group(k))) <= MaxPerGroup
    BY <1>13, <1>14
  <2>4. ASSUME NEW source \in Sources \ {SelfSource} PROVE Cardinality(FromSource(T, source)) <= MaxPerSource
    <3>1. PICK X : X = FromSource(S, source)
      OBVIOUS
    <3>2. Cardinality(X) <= MaxPerSource
      BY <1>8, <1>10, <3>1
    <3>3. FromSource(T, source) \in SUBSET X /\ X \in SUBSET S
      BY <1>15, <3>1 DEF FromSource
    <3>4. IsFiniteSet(X) /\ MaxPerSource \in Nat
      BY <1>15, <3>3, FS_Subset DEF CeilingsOk
    <3> QED BY <3>2, <3>3, <3>4, FewerThan
  <2> QED BY <2>1, <2>2, <2>3, <2>4 DEF Within
<1>18. PICK C, D : /\ Fine(w) /\ Listed(w) = (Listed(u) \ C) \ D
                   /\ Cut(Doubtful(Listed(u), TRUE), C, Directory!Limit(TRUE, MaxUnverified), TRUE)
                   /\ Cut(Listed(u) \ C, D, MaxRecords, TRUE)
  BY <1>7, <1>13, TotalsSay
<1>19. /\ Cut(Doubtful(T, TRUE), C, Directory!Limit(TRUE, MaxUnverified), TRUE)
       /\ Cut(T \ C, D, MaxRecords, TRUE)
  BY <1>14, <1>18
<1>20. Held((T \ C) \ D, TRUE)
  BY <1>16, <1>17, <1>19, TotalsHold
<1> QED BY <1>1, <1>6, <1>14, <1>18, <1>20

(* A direct lemma per action, then the invariant.                           *)
LEMMA ExpireSays ==
  ASSUME CeilingsOk, Fine(entries), hardened \in BOOLEAN, Held(Listed(entries), hardened), NEW key, Directory!Expire(key)
  PROVE  /\ hardened' = hardened /\ Fine(entries') /\ Held(Listed(entries'), hardened)
         /\ key # Own_ => OwnStays(Listed(entries), Listed(entries'))
<1>1. PICK w : w = entries'
  OBVIOUS
<1>2. hardened' = hardened /\ w = Directory!Keep(entries, DOMAIN entries \ Directory!Positions(entries, key))
  BY <1>1 DEF Directory!Expire
<1>3. Fine(w) /\ Listed(w) = Others(Listed(entries), key)
  BY <1>2, OthersAre
<1>4. PICK R : R = Listed(entries)
  OBVIOUS
<1>5. Records(R) /\ Held(R, hardened) /\ Others(R, key) \in SUBSET R
  BY <1>4, ListedRecords DEF Others
<1>6. Held(Others(R, key), hardened)
  BY <1>5, HeldFewer
<1>7. key # Own_ => OwnStays(R, Others(R, key))
  BY DEF OwnStays, Others
<1> QED BY <1>1, <1>2, <1>3, <1>4, <1>6, <1>7

Settled(R, T) ==
  Fine(entries') /\ hardened' \in BOOLEAN /\ Held(T, hardened') /\ (hardened => OwnStays(R, T))

LEMMA RegisterStep ==
  ASSUME CeilingsOk, Fine(entries), hardened \in BOOLEAN, Held(Listed(entries), hardened),
         NEW key \in Keys, NEW issued \in Nat, NEW source \in Sources, source = SelfSource => key = Own_,
         Directory!Register(key, issued, source)
  PROVE  Settled(Listed(entries), Listed(entries'))
<1>1. PICK R : R = Listed(entries)
  OBVIOUS
<1>2. PICK T : T = Listed(entries')
  OBVIOUS
<1>3. /\ hardened' = hardened /\ Fine(entries')
      /\ \/ entries' = entries
         \/ hardened /\ source = SelfSource /\ Lent(R, T, key)
         \/ Registered(R, T, key, source, hardened)
  BY <1>1, <1>2, RegisterSays
<1>4. Records(R) /\ Held(R, hardened)
  BY <1>1, ListedRecords
<1>5. CASE entries' = entries
  <2>1. R = T
    BY <1>1, <1>2, <1>5
  <2>2. OwnStays(R, T)
    BY <2>1 DEF OwnStays
  <2> QED BY <1>1, <1>2, <1>3, <1>4, <2>1, <2>2 DEF Settled
<1>6. CASE hardened /\ source = SelfSource /\ Lent(R, T, key)
  <2>1. Held(R, TRUE) /\ Lent(R, T, Own_) /\ hardened = TRUE
    BY <1>4, <1>6
  <2>2. Held(T, TRUE) /\ OwnStays(R, T)
    BY <1>4, <2>1, LentSays
  <2> QED BY <1>1, <1>2, <1>3, <2>1, <2>2 DEF Settled
<1>7. CASE Registered(R, T, key, source, hardened)
  <2>1. Held(T, hardened)
    BY <1>4, <1>7, RegisterHeld
  <2>2. ASSUME hardened PROVE OwnStays(R, T)
    <3>1. Registered(R, T, key, source, TRUE)
      <4>1. hardened = TRUE
        BY <2>2
      <4> QED BY <1>7, <4>1
    <3> QED BY <1>4, <3>1, RegisterKeepsSelf
  <2> QED BY <1>1, <1>2, <1>3, <2>1, <2>2 DEF Settled
<1> QED BY <1>3, <1>5, <1>6, <1>7

LEMMA MarkStep ==
  ASSUME CeilingsOk, Fine(entries), hardened \in BOOLEAN, Held(Listed(entries), hardened), NEW key,
         Directory!MarkAuthenticated(key) \/ Directory!MarkProbeFailure(key)
  PROVE  Settled(Listed(entries), Listed(entries'))
<1>1. PICK i \in DOMAIN entries : \/ Directory!Mark(i, [entries[i] EXCEPT !.auth = TRUE, !.fails = 0])
                                  \/ Directory!Mark(i, Directory!Struck(entries[i]))
  BY DEF Directory!MarkAuthenticated, Directory!MarkProbeFailure, Directory!Positions
<1>2. PICK o : o = entries[i]
  OBVIOUS
<1>3. o \in Descriptor
  BY <1>2, ElementOfSeq DEF Fine
<1>4. PICK e : Directory!Mark(i, e) /\ (e = [o EXCEPT !.auth = TRUE, !.fails = 0] \/ e = Directory!Struck(o))
  BY <1>1, <1>2
<1>5. e \in Descriptor /\ e.key = o.key /\ e.source = o.source
  <2>1. CASE e = [o EXCEPT !.auth = TRUE, !.fails = 0]
    BY <1>3, <2>1 DEF Descriptor
  <2>2. CASE e = Directory!Struck(o)
    <3>1. o.fails \in Nat /\ Strikes \in Nat
      BY <1>3 DEF Descriptor, CeilingsOk
    <3>2. CASE o.fails + 1 < Strikes
      <4>1. e = [o EXCEPT !.fails = o.fails + 1] /\ o.fails + 1 \in Nat
        BY <2>2, <3>1, <3>2 DEF Directory!Struck
      <4> QED BY <1>3, <4>1 DEF Descriptor
    <3>3. CASE ~(o.fails + 1 < Strikes)
      <4>1. e = [o EXCEPT !.fails = Strikes, !.auth = FALSE]
        BY <2>2, <3>3 DEF Directory!Struck
      <4> QED BY <1>3, <3>1, <4>1 DEF Descriptor
    <3> QED BY <3>2, <3>3
  <2> QED BY <1>4, <2>1, <2>2
<1>6. /\ hardened /\ hardened' /\ Fine(entries') /\ Held(Listed(entries'), TRUE)
      /\ OwnStays(Listed(entries), Listed(entries'))
  <2>1. e.key = entries[i].key /\ e.source = entries[i].source /\ Directory!Mark(i, e)
    BY <1>2, <1>4, <1>5
  <2> QED BY <1>5, <2>1, MarkSays
<1>7. hardened' = TRUE
  BY <1>6 DEF Directory!Mark
<1> QED BY <1>6, <1>7 DEF Settled

DirInv == Fine(entries) /\ hardened \in BOOLEAN /\ Held(Listed(entries), hardened)

LEMMA DirInit ==
  ASSUME CeilingsOk, Directory!Init PROVE DirInv
<1>1. entries = <<>> /\ hardened = FALSE
  BY DEF Directory!Init
<1>2. Fine(entries)
  <2>1. entries \in Seq(Descriptor) /\ Len(entries) = 0
    BY <1>1, EmptySeq
  <2>2. DOMAIN entries = {}
    <3>1. DOMAIN entries = 1..Len(entries)
      BY <2>1, LenProperties
    <3> QED BY <2>1, <3>1
  <2> QED BY <2>1, <2>2 DEF Fine
<1>3. Listed(entries) = {}
  BY <1>1 DEF Listed
<1>4. Cardinality({}) = 0 /\ IsFiniteSet({})
  BY FS_EmptySet
<1>5. /\ \A k : OfIdentity({}, k) = {} /\ InGroup({}, k) = {} /\ FromSource({}, k) = {}
      /\ \A strict : Kept({}, strict) = {} /\ Doubtful({}, strict) = {}
  <2>1. ASSUME NEW k PROVE OfIdentity({}, k) = {} /\ InGroup({}, k) = {} /\ FromSource({}, k) = {}
    <3>1. \A f : f \notin OfIdentity({}, k) /\ f \notin InGroup({}, k) /\ f \notin FromSource({}, k)
      BY DEF OfIdentity, InGroup, FromSource
    <3> QED BY <3>1
  <2>2. ASSUME NEW strict PROVE Kept({}, strict) = {} /\ Doubtful({}, strict) = {}
    <3>1. \A f : f \notin Kept({}, strict) /\ f \notin Doubtful({}, strict)
      BY DEF Kept, Doubtful
    <3> QED BY <3>1
  <2> QED BY <2>1, <2>2
<1>6. Held({}, FALSE)
  <2>1. SelfIsOwn({})
    BY DEF SelfIsOwn
  <2>2. 0 <= MaxEndpoints /\ 0 <= MaxRecords
    BY DEF CeilingsOk
  <2>3. \A k \in Keys : Cardinality(Kept(OfIdentity({}, k.peer), FALSE)) <= MaxEndpoints
    <3>1. ASSUME NEW k \in Keys PROVE Kept(OfIdentity({}, k.peer), FALSE) = {}
      BY <1>5
    <3> QED BY <1>4, <2>2, <3>1
  <2> QED BY <1>4, <2>1, <2>2, <2>3 DEF Held, Within
<1> QED BY <1>1, <1>2, <1>3, <1>6 DEF DirInv

LEMMA DirSteps ==
  ASSUME CeilingsOk, MaxIssued \in Nat, DirInv, [Directory!Next]_Directory!vars
  PROVE  DirInv' /\ (hardened /\ ~Directory!Expire(Own_) => OwnStays(Listed(entries), Listed(entries')))
<1>1. Fine(entries) /\ hardened \in BOOLEAN /\ Held(Listed(entries), hardened)
  BY DEF DirInv
<1>2. ASSUME Settled(Listed(entries), Listed(entries'))
      PROVE  DirInv' /\ (hardened => OwnStays(Listed(entries), Listed(entries')))
  BY <1>2 DEF Settled, DirInv
<1>3. CASE Directory!Gossip
  <2>1. PICK key \in Keys, issued \in 1..MaxIssued, source \in Sources \ {SelfSource} : Directory!Register(key, issued, source)
    BY <1>3 DEF Directory!Gossip, Directory!Hear
  <2>2. issued \in Nat /\ source \in Sources /\ (source = SelfSource => key = Own_)
    BY <2>1
  <2> QED BY <1>1, <1>2, <2>1, <2>2, RegisterStep
<1>4. CASE Directory!RefreshSelf
  <2>1. PICK issued \in 1..MaxIssued : Directory!Register(Own_, issued, SelfSource)
    BY <1>4 DEF Directory!RefreshSelf
  <2>2. issued \in Nat /\ Own_ \in Keys /\ SelfSource \in Sources
    BY <2>1 DEF CeilingsOk
  <2> QED BY <1>1, <1>2, <2>1, <2>2, RegisterStep
<1>5. CASE Directory!ConfigureAdmission
  <2>1. ~hardened /\ hardened' /\ Fine(entries') /\ Held(Listed(entries'), TRUE)
    BY <1>1, <1>5, ConfigureSays
  <2>2. hardened' = TRUE
    BY <1>5 DEF Directory!ConfigureAdmission
  <2> QED BY <2>1, <2>2 DEF DirInv
<1>6. CASE \E key \in Keys : Directory!MarkAuthenticated(key) \/ Directory!MarkProbeFailure(key)
  BY <1>1, <1>2, <1>6, MarkStep
<1>7. CASE \E key \in Keys : Directory!Expire(key)
  <2>1. PICK key \in Keys : Directory!Expire(key)
    BY <1>7
  <2>2. /\ hardened' = hardened /\ Fine(entries') /\ Held(Listed(entries'), hardened)
        /\ key # Own_ => OwnStays(Listed(entries), Listed(entries'))
    BY <1>1, <2>1, ExpireSays
  <2> QED BY <1>1, <2>1, <2>2 DEF DirInv
<1>8. CASE UNCHANGED Directory!vars
  <2>1. entries' = entries /\ hardened' = hardened
    BY <1>8 DEF Directory!vars
  <2>2. OwnStays(Listed(entries), Listed(entries'))
    BY <2>1 DEF OwnStays
  <2> QED BY <1>1, <2>1, <2>2 DEF DirInv
<1> QED BY <1>3, <1>4, <1>5, <1>6, <1>7, <1>8 DEF Directory!Next

(* What the ceilings of TypeOK count are records of the set.                *)
LEMMA CountedIs ==
  ASSUME Fine(entries), NEW J \in SUBSET DOMAIN entries, NEW E, RecordsAt(E, entries, J)
  PROVE  Directory!Counted(J) = Cardinality(Kept(E, hardened)) /\ IsFiniteSet(E)
<1>1. PICK L \in SUBSET DOMAIN entries : L = Directory!Loose(entries, J, hardened)
  BY DEF Directory!Loose
<1>2. PICK T : T = Kept(E, hardened)
  OBVIOUS
<1>3. RecordsAt(T, entries, L)
  <2>1. \A f : f \in T <=> f \in E /\ ~Directory!Protected(f, hardened)
    BY <1>2 DEF Kept
  <2>2. \A i : i \in L <=> i \in J /\ ~Directory!Protected(entries[i], hardened)
    BY <1>1 DEF Directory!Loose
  <2> QED BY <2>1, <2>2 DEF RecordsAt
<1>4. L \in SUBSET DOMAIN entries
  BY <1>1
<1>5. Cardinality(T) = Cardinality(L)
  BY <1>3, <1>4, AsMany
<1>6. Directory!Counted(J) = Cardinality(L)
  BY <1>1, DirectorySets DEF Directory!Counted
<1>7. IsFiniteSet(E)
  BY AsMany
<1> QED BY <1>2, <1>5, <1>6, <1>7

LEMMA DirTyped ==
  ASSUME CeilingsOk, DirInv PROVE Directory!TypeOK
<1>1. Fine(entries) /\ Held(Listed(entries), hardened) /\ hardened \in BOOLEAN
  BY DEF DirInv
<1>2. PICK R : R = Listed(entries)
  OBVIOUS
<1>3. Within(R, hardened) /\ Cardinality(R) <= MaxRecords /\ (hardened => Cardinality(Doubtful(R, hardened)) <= MaxUnverified)
  BY <1>1, <1>2 DEF Held
<1>4. \A i, j \in DOMAIN entries : entries[i].key = entries[j].key => i = j
  BY <1>1 DEF Fine
<1>5. Len(entries) <= MaxRecords
  <2>1. PICK J \in SUBSET DOMAIN entries : J = DOMAIN entries
    OBVIOUS
  <2>2. RecordsAt(R, entries, J)
    BY <1>2, <2>1 DEF Listed, RecordsAt
  <2>3. Cardinality(R) = Cardinality(J)
    BY <1>1, <2>1, <2>2, AsMany
  <2>4. PICK n \in Nat : n = Len(entries)
    BY <1>1, LenProperties DEF Fine
  <2>5. J = 1..n
    BY <1>1, <2>1, <2>4, LenProperties DEF Fine
  <2>6. Cardinality(1..n) = n
    BY FS_Interval
  <2> QED BY <1>3, <2>3, <2>4, <2>5, <2>6
<1>6. ASSUME NEW k \in Keys
      PROVE  Directory!Counted({i \in DOMAIN entries : entries[i].key.peer = k.peer}) <= MaxEndpoints
  <2>1. PICK J \in SUBSET DOMAIN entries : J = {i \in DOMAIN entries : entries[i].key.peer = k.peer}
    OBVIOUS
  <2>2. PICK E : E = OfIdentity(R, k.peer)
    OBVIOUS
  <2>3. RecordsAt(E, entries, J)
    <3>1. \A f : f \in E <=> f \in Listed(entries) /\ f.key.peer = k.peer
      BY <1>2, <2>2 DEF OfIdentity
    <3> QED BY <2>1, <3>1 DEF Listed, RecordsAt
  <2>4. Directory!Counted(J) = Cardinality(Kept(E, hardened))
    BY <1>1, <2>1, <2>3, CountedIs
  <2> QED BY <1>3, <2>1, <2>2, <2>4 DEF Within
<1>7. ASSUME hardened PROVE Directory!Counted({i \in DOMAIN entries : ~entries[i].auth}) <= MaxUnverified
  <2>1. PICK J \in SUBSET DOMAIN entries : J = {i \in DOMAIN entries : ~entries[i].auth}
    OBVIOUS
  <2>2. PICK E : E = {f \in R : ~f.auth}
    OBVIOUS
  <2>3. RecordsAt(E, entries, J)
    <3>1. \A f : f \in E <=> f \in Listed(entries) /\ ~f.auth
      BY <1>2, <2>2
    <3> QED BY <2>1, <3>1 DEF Listed, RecordsAt
  <2>4. Directory!Counted(J) = Cardinality(Kept(E, hardened))
    BY <1>1, <2>1, <2>3, CountedIs
  <2>5. Kept(E, hardened) = Doubtful(R, hardened)
    BY <2>2 DEF Kept, Doubtful, Directory!Unverified
  <2> QED BY <1>3, <1>7, <2>1, <2>4, <2>5
<1>8. ASSUME hardened, NEW k \in Keys PROVE Directory!Counted(Directory!OfGroup(entries, Group(k))) <= MaxPerGroup
  <2>1. PICK J \in SUBSET DOMAIN entries : J = Directory!OfGroup(entries, Group(k))
    BY DEF Directory!OfGroup
  <2>2. PICK E : E = InGroup(R, Group(k))
    OBVIOUS
  <2>3. RecordsAt(E, entries, J)
    <3>1. \A f : f \in E <=> f \in Listed(entries) /\ Group(f.key) = Group(k)
      BY <1>2, <2>2 DEF InGroup
    <3>2. \A i : i \in J <=> i \in DOMAIN entries /\ Group(entries[i].key) = Group(k)
      BY <2>1 DEF Directory!OfGroup
    <3> QED BY <3>1, <3>2 DEF Listed, RecordsAt
  <2>4. Directory!Counted(J) = Cardinality(Kept(E, hardened)) /\ IsFiniteSet(E)
    BY <1>1, <2>1, <2>3, CountedIs
  <2>5. Cardinality(E) <= MaxPerGroup /\ MaxPerGroup \in Nat
    BY <1>3, <1>8, <2>2 DEF Within, CeilingsOk
  <2>6. Kept(E, hardened) \in SUBSET E
    BY DEF Kept
  <2>7. Cardinality(Kept(E, hardened)) <= MaxPerGroup
    BY <2>4, <2>5, <2>6, FewerThan
  <2> QED BY <2>1, <2>4, <2>7
<1>9. ASSUME hardened, NEW source \in Sources \ {SelfSource}
      PROVE  Directory!Counted(Directory!OfSource(entries, source)) <= MaxPerSource
  <2>1. PICK J \in SUBSET DOMAIN entries : J = Directory!OfSource(entries, source)
    BY DEF Directory!OfSource
  <2>2. PICK E : E = FromSource(R, source)
    OBVIOUS
  <2>3. RecordsAt(E, entries, J)
    <3>1. \A f : f \in E <=> f \in Listed(entries) /\ f.source = source
      BY <1>2, <2>2 DEF FromSource
    <3>2. \A i : i \in J <=> i \in DOMAIN entries /\ entries[i].source = source
      BY <2>1 DEF Directory!OfSource
    <3> QED BY <3>1, <3>2 DEF Listed, RecordsAt
  <2>4. Directory!Counted(J) = Cardinality(Kept(E, hardened)) /\ IsFiniteSet(E)
    BY <1>1, <2>1, <2>3, CountedIs
  <2>5. Cardinality(E) <= MaxPerSource /\ MaxPerSource \in Nat
    BY <1>3, <1>9, <2>2 DEF Within, CeilingsOk
  <2>6. Kept(E, hardened) \in SUBSET E
    BY DEF Kept
  <2>7. Cardinality(Kept(E, hardened)) <= MaxPerSource
    BY <2>4, <2>5, <2>6, FewerThan
  <2> QED BY <2>1, <2>4, <2>7
<1> QED BY <1>4, <1>5, <1>6, <1>7, <1>8, <1>9 DEF Directory!TypeOK

RowOf(f) == [auth |-> f.auth, fails |-> f.fails, source |-> f.source]
RowSays(s, X, key) ==
  \/ X = {} /\ \A f \in Listed(s) : f.key # key
  \/ \E f \in Listed(s) : f.key = key /\ X = {RowOf(f)}

(* A key has one row, of its record, or none.                               *)
LEMMA RowIs ==
  ASSUME NEW s, Fine(s), NEW key, NEW X, X = Directory!Row(s, key)
  PROVE  RowSays(s, X, key)
<1>1. \A x : x \in X <=> \E i \in DOMAIN s : s[i].key = key /\ x = RowOf(s[i])
  BY DEF Directory!Row, Directory!Positions, RowOf
<1>2. CASE \E i \in DOMAIN s : s[i].key = key
  <2>1. PICK i \in DOMAIN s : s[i].key = key
    BY <1>2
  <2>2. \A j \in DOMAIN s : s[j].key = key => j = i
    BY <2>1 DEF Fine
  <2>3. \A x : x \in X <=> x = RowOf(s[i])
    BY <1>1, <2>1, <2>2
  <2>4. X = {RowOf(s[i])}
    BY <2>3
  <2>5. s[i] \in Listed(s)
    BY <2>1 DEF Listed
  <2> QED BY <2>1, <2>4, <2>5 DEF RowSays
<1>3. CASE ~\E i \in DOMAIN s : s[i].key = key
  <2>1. X = {}
    BY <1>1, <1>3
  <2>2. \A f \in Listed(s) : f.key # key
    BY <1>3 DEF Listed
  <2> QED BY <2>1, <2>2 DEF RowSays
<1> QED BY <1>2, <1>3

LEMMA RegisteredLeaves ==
  ASSUME NEW R, NEW T, NEW key, NEW source, NEW strict, Registered(R, T, key, source, strict)
  PROVE  \E e \in Descriptor : e.key = key /\ Renews(R, e, source, strict) /\ T \subseteq Others(R, key) \cup {e}
<1>1. PICK e, P, A, B, G, C, D : Evicts(R, T, key, source, strict, e, P, A, B, G, C, D)
  BY DEF Registered
<1>2. e \in Descriptor /\ e.key = key /\ Renews(R, e, source, strict)
      /\ P = (Others(R, key) \ A) \cup {e} /\ T = (((P \ B) \ G) \ C) \ D
  BY <1>1 DEF Evicts
<1> QED BY <1>2

(* A step of gossip settles every key.                                      *)
LEMMA GossipIs ==
  ASSUME CeilingsOk, MaxIssued \in Nat, DirInv, Fine(entries'), NEW about \in Keys, Directory!Hear(about),
         NEW key \in Keys, Directory!Unsettled(key, Directory!Row(entries, key), Directory!Row(entries', key))
  PROVE  about.peer = key.peer /\ Directory!Row(entries', key) = {}
<1>1. PICK w : w = entries'
  OBVIOUS
<1>2. PICK X : X = Directory!Row(entries, key)
  OBVIOUS
<1>3. PICK Y : Y = Directory!Row(w, key)
  OBVIOUS
<1>4. Fine(entries) /\ Fine(w) /\ hardened \in BOOLEAN /\ Held(Listed(entries), hardened)
  BY <1>1 DEF DirInv
<1>5. RowSays(entries, X, key) /\ RowSays(w, Y, key)
  BY <1>2, <1>3, <1>4, RowIs
<1>6. /\ Y = {} => \E row \in X : row.auth
      /\ Y # {} => /\ X # {}
                   /\ \/ Directory!Marks(X) # Directory!Marks(Y)
                      \/ (\E row \in X : row.auth) /\ {x.source : x \in X} # {x.source : x \in Y}
  BY <1>1, <1>2, <1>3 DEF Directory!Unsettled, Directory!Proven
<1>7. X # Y
  BY <1>6
<1>8. PICK R : R = Listed(entries)
  OBVIOUS
<1>9. PICK T : T = Listed(w)
  OBVIOUS
<1>10. Records(R) /\ Records(T) /\ Held(R, hardened)
  BY <1>4, <1>8, <1>9, ListedRecords
<1>11. PICK issued \in 1..MaxIssued, source \in Sources \ {SelfSource} : Directory!Register(about, issued, source)
  BY DEF Directory!Hear
<1>12. Registered(R, T, about, source, hardened)
  <2>1. issued \in Nat /\ source \in Sources /\ source # SelfSource
    BY <1>11
  <2>2. \/ entries' = entries
        \/ hardened /\ source = SelfSource /\ Lent(Listed(entries), Listed(entries'), about)
        \/ Registered(Listed(entries), Listed(entries'), about, source, hardened)
    BY <1>4, <1>11, <2>1, RegisterSays
  <2> QED BY <1>1, <1>2, <1>3, <1>7, <1>8, <1>9, <2>1, <2>2
<1>13. PICK e \in Descriptor : e.key = about /\ Renews(R, e, source, hardened) /\ T \subseteq Others(R, about) \cup {e}
  BY <1>12, RegisteredLeaves
<1>14. CASE Y = {}
  <2>1. PICK x \in R : x.key = key /\ x.auth
    <3>1. PICK x \in R : x.key = key /\ X = {RowOf(x)}
      BY <1>5, <1>6, <1>8, <1>14 DEF RowSays
    <3>2. RowOf(x).auth
      BY <1>6, <1>14, <3>1
    <3> QED BY <3>1, <3>2 DEF RowOf
  <2>2. x \notin T
    BY <1>5, <1>9, <1>14, <2>1 DEF RowSays
  <2>3. CASE key = about
    BY <1>1, <1>3, <1>14, <2>3
  <2>4. CASE key # about
    <3>1. about.peer = x.key.peer
      BY <1>4, <1>10, <1>11, <1>12, <2>1, <2>2, <2>4, RegisterSpares
    <3> QED BY <1>1, <1>3, <1>14, <2>1, <3>1
  <2> QED BY <2>3, <2>4
<1>15. CASE Y # {}
  <2>1. PICK n \in T : n.key = key /\ Y = {RowOf(n)}
    BY <1>5, <1>9, <1>15 DEF RowSays
  <2>2. PICK f \in R : f.key = key /\ X = {RowOf(f)}
    BY <1>5, <1>6, <1>8, <1>15 DEF RowSays
  <2>3. CASE key # about
    <3>1. n \in R
      BY <1>13, <2>1, <2>3 DEF Others
    <3>2. n = f
      BY <1>10, <2>1, <2>2, <3>1 DEF Records, OneEach
    <3> QED BY <1>7, <2>1, <2>2, <3>2
  <2>4. CASE key = about
    <3>1. n = e
      BY <1>13, <2>1, <2>4 DEF Others
    <3>2. PICK g \in R : /\ g.key = e.key /\ e.auth = g.auth /\ e.fails = g.fails
                         /\ e.source = IF ~(hardened /\ source = SelfSource) /\ (Directory!Protected(g, hardened) \/ g.auth)
                                       THEN g.source ELSE source
      BY <1>13, <2>2, <2>4 DEF Renews
    <3>3. g = f
      BY <1>10, <1>13, <2>2, <2>4, <3>2 DEF Records, OneEach
    <3>4. RowOf(n).auth = RowOf(f).auth /\ RowOf(n).fails = RowOf(f).fails
      BY <3>1, <3>2, <3>3 DEF RowOf
    <3>5. Directory!Marks(X) = Directory!Marks(Y)
      BY <2>1, <2>2, <3>4 DEF Directory!Marks
    <3>6. ASSUME NEW row \in X, row.auth PROVE {x.source : x \in X} = {x.source : x \in Y}
      <4>1. f.auth
        BY <2>2, <3>6 DEF RowOf
      <4>2. source # SelfSource
        BY <1>11
      <4>3. n.source = f.source
        BY <3>1, <3>2, <3>3, <4>1, <4>2
      <4>4. RowOf(n).source = RowOf(f).source
        BY <4>3 DEF RowOf
      <4> QED BY <2>1, <2>2, <4>4
    <3> QED BY <1>6, <1>15, <3>5, <3>6
  <2> QED BY <2>3, <2>4
<1> QED BY <1>14, <1>15

LEMMA SelfIs ==
  ASSUME OwnStays(Listed(entries), Listed(entries')), NEW row \in Directory!Row(entries, Own_), row.source = SelfSource
  PROVE  \E next \in Directory!Row(entries', Own_) : next.source = SelfSource
<1>1. PICK i \in DOMAIN entries : entries[i].key = Own_ /\ row = RowOf(entries[i])
  BY DEF Directory!Row, Directory!Positions, RowOf
<1>2. PICK R : R = Listed(entries)
  OBVIOUS
<1>3. PICK w : w = entries'
  OBVIOUS
<1>4. PICK T : T = Listed(w)
  OBVIOUS
<1>5. entries[i] \in R /\ entries[i].source = SelfSource
  BY <1>1, <1>2 DEF Listed, RowOf
<1>6. PICK n \in T : n.key = Own_ /\ n.source = SelfSource
  BY <1>1, <1>2, <1>3, <1>4, <1>5 DEF OwnStays
<1>7. PICK j \in DOMAIN w : n = w[j]
  BY <1>4, <1>6 DEF Listed
<1>8. RowOf(n) \in Directory!Row(w, Own_)
  BY <1>6, <1>7 DEF Directory!Row, Directory!Positions, RowOf
<1>9. RowOf(n).source = SelfSource
  BY <1>6 DEF RowOf
<1> QED BY <1>3, <1>8, <1>9

(* One record per key, and after any sequence of gossip, probes and         *)
(* expiries, whatever the order, the total and the ceilings per identity,   *)
(* per source, per group and of unverified records hold at once             *)
(* (evictOldest, enforceBounds and configureAdmission of                    *)
(* peer-directory.mjs).                                                     *)
THEOREM DirectoryBounded ==
  ASSUME Directory!DirectoryAssumption
  PROVE  Directory!Spec => []Directory!TypeOK
<1>1. CeilingsOk /\ MaxIssued \in Nat
  BY CeilingsAre DEF Directory!DirectoryAssumption
<1>2. Directory!Init => DirInv
  BY <1>1, DirInit
<1>3. DirInv /\ [Directory!Next]_Directory!vars => DirInv'
  BY <1>1, DirSteps
<1>4. DirInv => Directory!TypeOK
  BY <1>1, DirTyped
<1> QED BY <1>2, <1>3, <1>4, PTL DEF Directory!Spec

(* What peers gossip about an endpoint neither proves nor unproves any      *)
(* record: one that stays keeps its evidence and, when it is proven, its    *)
(* source, a proven one is displaced by another endpoint of its own         *)
(* identity only, and what the node says of itself by itself only           *)
(* (register of peer-directory.mjs).                                        *)
THEOREM GossipIsNoProof ==
  ASSUME Directory!DirectoryAssumption
  PROVE  Directory!Spec => [][Directory!GossipProvesNothing /\ Directory!SelfStays]_Directory!vars
<1>1. CeilingsOk /\ MaxIssued \in Nat
  BY CeilingsAre DEF Directory!DirectoryAssumption
<1>2. Directory!Init => DirInv
  BY <1>1, DirInit
<1>3. DirInv /\ [Directory!Next]_Directory!vars => DirInv'
  BY <1>1, DirSteps
<1>4. DirInv /\ [Directory!Next]_Directory!vars => Directory!GossipProvesNothing
  <2> SUFFICES ASSUME DirInv, [Directory!Next]_Directory!vars PROVE Directory!GossipProvesNothing
    OBVIOUS
  <2>1. Fine(entries')
    BY <1>3 DEF DirInv
  <2> QED BY <1>1, <2>1, GossipIs DEF Directory!GossipProvesNothing
<1>5. DirInv /\ [Directory!Next]_Directory!vars => Directory!SelfStays
  <2> SUFFICES ASSUME DirInv, [Directory!Next]_Directory!vars PROVE Directory!SelfStays
    OBVIOUS
  <2>1. hardened /\ ~Directory!Expire(Own_) => OwnStays(Listed(entries), Listed(entries'))
    BY <1>1, DirSteps
  <2> QED BY <2>1, SelfIs DEF Directory!SelfStays
<1> QED BY <1>2, <1>3, <1>4, <1>5, PTL DEF Directory!Spec
=============================================================================
