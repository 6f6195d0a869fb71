---------------------- MODULE DashboardSession_proofs ----------------------
(***************************************************************************)
(* Proofs about DashboardSession, for any number of tabs, acts and         *)
(* minutes: the shape of its state; that in a browser with Web Locks the   *)
(* shared cookie stays good while nobody signs out and no answer is lost;  *)
(* and that the minute of grace makes up for the answers that are lost.    *)
(***************************************************************************)
EXTENDS DashboardSession, SequenceTheorems, WellFoundedInduction, TLAPS

Token == [state : {"unwritten", "live", "rotated", "ended"}, next : Nat, age : Nat]

PastOK == past \in [lost : BOOLEAN, out : BOOLEAN, late : BOOLEAN, alarm : BOOLEAN]

Fields == {"n", "tab", "what", "cookie", "target", "stage", "ok"}

TabRecs == [at : At, token : BOOLEAN, life : 0..Life, timer : BOOLEAN,
            turn : {"idle", "asked", "sent"}, tired : BOOLEAN]

TabsOK ==
    /\ tab \in [Tabs -> TabRecs]
    /\ lock # None => lock \in Tabs /\ tab[lock].turn = "sent"

\* A token's successors are later ones.
ChainsOK ==
    /\ tokens \in Seq(Token)
    /\ \A r \in 1..Len(tokens) : tokens[r].next \in {0} \cup (r + 1)..Len(tokens)

\* A request, when there are n tokens.
RequestOK(q, n) ==
    /\ DOMAIN q = Fields /\ q.tab \in Tabs \cup {None} /\ q.what \in {"refresh", "logout"}
    /\ q.stage \in {"sent", "read", "served", "stored"} /\ q.ok \in BOOLEAN
    /\ q.cookie \in 0..n /\ (q.stage = "read" => q.target \in 1..n)

WireOK == \A q \in wire : RequestOK(q, Len(tokens))

WritesOK ==
    \A w \in writes : w.old \in 1..Len(tokens) /\ w.new \in {0} \cup (w.old + 1)..Len(tokens)

TypeInv == TabsOK /\ ChainsOK /\ WireOK /\ WritesOK /\ jar \in 0..Len(tokens)

----------------------------------------------------------------------------
(* The chains of replaced tokens.                                          *)

Follow(f) == [i \in DOMAIN tokens |-> IF tokens[i].next = 0 THEN i ELSE f[tokens[i].next]]

\* Where the chain of each token ends, as ChainHead defines it.
End == LET end[i \in DOMAIN tokens] == IF tokens[i].next = 0 THEN i ELSE end[tokens[i].next]
       IN  end

LEMMA HeadIsEnd == \A r : ChainHead(r) = IF tokens[End[r]].state = "live" THEN End[r] ELSE 0
BY DEF ChainHead, End

LEMMA TokenAt ==
    ASSUME ChainsOK
    PROVE  /\ Len(tokens) \in Nat /\ DOMAIN tokens = 1..Len(tokens)
           /\ \A r \in 1..Len(tokens) : tokens[r] \in Token
BY LenProperties, ElementOfSeq DEF ChainsOK

\* A rotation is committed: the old token leads to the new one.
LEMMA Rotated ==
    ASSUME tokens \in Seq(Token), NEW o \in DOMAIN tokens, NEW m \in DOMAIN tokens, o # m,
           tokens' = [tokens EXCEPT ![o] = [state |-> "rotated", next |-> m, age |-> 0],
                                    ![m].state = "live"]
    PROVE  /\ tokens' \in Seq(Token) /\ Len(tokens') = Len(tokens) /\ DOMAIN tokens' = DOMAIN tokens
           /\ tokens'[o].state = "rotated" /\ tokens'[o].next = m /\ tokens'[o].age = 0
           /\ tokens'[m].state = "live" /\ tokens'[m].next = tokens[m].next
           /\ \A r \in DOMAIN tokens : r \notin {o, m} => tokens'[r] = tokens[r]
<1> DEFINE gone == [state |-> "rotated", next |-> m, age |-> 0]
           kept == [tokens[m] EXCEPT !.state = "live"]
           base == [tokens EXCEPT ![o] = gone]
<1>1. Len(tokens) \in Nat /\ DOMAIN tokens = 1..Len(tokens) /\ tokens[m] \in Token
  BY LenProperties, ElementOfSeq
<1>2. gone \in Token /\ gone.state = "rotated" /\ gone.next = m /\ gone.age = 0
  BY <1>1 DEF Token
<1>3. kept \in Token /\ kept.state = "live" /\ kept.next = tokens[m].next
  BY <1>1 DEF Token
<1>4. base[m] = tokens[m] /\ m \in DOMAIN base
  OBVIOUS
<1>5. tokens' = [base EXCEPT ![m].state = "live"]
  OBVIOUS
<1>6. tokens' = [base EXCEPT ![m] = kept]
  <2> HIDE DEF base
  <2> QED BY <1>4, <1>5
<1>7. base \in Seq(Token) /\ Len(base) = Len(tokens)
  <2> HIDE DEF gone
  <2> QED BY <1>1, <1>2, ExceptSeq
<1>8. tokens' \in Seq(Token) /\ Len(tokens') = Len(tokens) /\ DOMAIN tokens' = DOMAIN tokens
  <2> HIDE DEF base, kept
  <2>1. m \in 1..Len(base)
    BY <1>1, <1>7
  <2>2. [base EXCEPT ![m] = kept] \in Seq(Token) /\ Len([base EXCEPT ![m] = kept]) = Len(base)
    BY <1>3, <1>7, <2>1, ExceptSeq
  <2> QED BY <1>1, <1>6, <1>7, <2>2, LenProperties
<1>9. \A r \in DOMAIN tokens : tokens'[r] = IF r = m THEN kept ELSE IF r = o THEN gone ELSE tokens[r]
  <2> HIDE DEF gone, kept
  <2> QED BY <1>6
<1> HIDE DEF gone, kept, base
<1> QED BY <1>2, <1>3, <1>8, <1>9

\* Built from the last token backwards, as successors are later ones.
LEMMA EndExists == ASSUME ChainsOK PROVE End = Follow(End)
<1> DEFINE n == Len(tokens)
           To(k, f) == f = [i \in k..n |-> IF tokens[i].next = 0 THEN i ELSE f[tokens[i].next]]
           S == {k \in 1..(n + 1) : \E f : To(k, f)}
<1>1. n \in Nat /\ DOMAIN tokens = 1..n /\ \A i \in 1..n : tokens[i].next \in {0} \cup (i + 1)..n
  BY TokenAt DEF ChainsOK
<1>2. n + 1 \in S
  <2> DEFINE f == [i \in (n + 1)..n |-> i]
  <2>1. (n + 1)..n = {}
    BY <1>1
  <2>2. To(n + 1, f)
    BY <2>1
  <2> HIDE DEF f, To
  <2> QED BY <1>1, <2>2
<1>3. ASSUME NEW m \in S, m # 1
      PROVE  m - 1 \in S
  <2>1. m \in 2..(n + 1) /\ m - 1 \in 1..n
    BY <1>1, <1>3
  <2>2. PICK f : To(m, f)
    BY <1>3
  <2> DEFINE x == tokens[m - 1].next
             g == [i \in (m - 1)..n |-> IF i # m - 1 THEN f[i] ELSE IF x = 0 THEN m - 1 ELSE f[x]]
  <2>3. \A i \in m..n : f[i] = IF tokens[i].next = 0 THEN i ELSE f[tokens[i].next]
    BY <2>2
  <2>4. \A i \in m..n : g[i] = f[i]
    BY <1>1, <2>1
  <2>5. \A i \in (m - 1)..n : tokens[i].next # 0 => tokens[i].next \in m..n
    BY <1>1, <2>1
  <2>6. g[m - 1] = IF x = 0 THEN m - 1 ELSE g[x]
    BY <1>1, <2>1, <2>4, <2>5
  <2>7. \A i \in m..n : g[i] = IF tokens[i].next = 0 THEN i ELSE g[tokens[i].next]
    <3> HIDE DEF g
    <3> QED BY <1>1, <2>1, <2>3, <2>4, <2>5
  <2>8. \A i \in (m - 1)..n : g[i] = IF tokens[i].next = 0 THEN i ELSE g[tokens[i].next]
    <3> HIDE DEF g
    <3> QED BY <1>1, <2>1, <2>6, <2>7
  <2>9. To(m - 1, g)
    BY <2>8
  <2> HIDE DEF g, To
  <2> QED BY <2>1, <2>9
<1>4. 1 \in S
  <2> DEFINE R == OpToRel(<, Nat)
  <2>1. IsWellFoundedOn(R, Nat)
    BY NatLessThanWellFounded
  <2>2. \A x, y \in Nat : x < y => <<x, y>> \in R
    BY DEF OpToRel
  <2>3. S \subseteq Nat /\ S # {}
    BY <1>1, <1>2
  <2> HIDE DEF R, S
  <2>4. PICK m \in S : \A y \in S : ~(<<y, m>> \in R)
    BY <2>1, <2>3, WFMin
  <2>5. m \in Nat /\ m - 1 < m /\ (m # 1 => m - 1 \in S)
    BY <1>3, <2>3, <2>4
  <2> QED BY <2>2, <2>3, <2>4, <2>5
<1>5. \E f : f = Follow(f)
  BY <1>1, <1>4 DEF Follow
<1> QED BY <1>5 DEF End, Follow

\* A set that holds the successors of its tokens holds the ends of their chains.
LEMMA ChainStaysIn ==
    ASSUME ChainsOK, NEW S \in SUBSET (1..Len(tokens)),
           \A i \in S : tokens[i].next # 0 => tokens[i].next \in S
    PROVE  \A r \in S : End[r] \in S /\ tokens[End[r]].next = 0
<1> DEFINE Stays(r) == End[r] \in S /\ tokens[End[r]].next = 0
           n == Len(tokens)
           T == {k \in 0..n : n - k \in S /\ ~Stays(n - k)}
<1>1. n \in Nat /\ \A i \in 1..n : tokens[i].next # 0 => tokens[i].next \in (i + 1)..n
  BY TokenAt DEF ChainsOK
<1>2. \A i \in 1..n : End[i] = IF tokens[i].next = 0 THEN i ELSE End[tokens[i].next]
  BY EndExists, TokenAt DEF Follow
<1>3. \A i \in S : ~Stays(i) => tokens[i].next \in S /\ tokens[i].next > i /\ ~Stays(tokens[i].next)
  BY <1>1, <1>2
<1>4. \A k \in T : \E j \in T : j < k
  <2> SUFFICES ASSUME NEW k \in T PROVE \E j \in T : j < k
    OBVIOUS
  <2> DEFINE i == n - k
             x == tokens[i].next
  <2>1. i \in S /\ ~Stays(i) /\ k \in 0..n
    OBVIOUS
  <2>2. x \in S /\ x > i /\ ~Stays(x)
    BY <1>3, <2>1
  <2>3. x \in 1..n /\ n - x \in 0..n /\ n - (n - x) = x /\ n - x < k
    BY <1>1, <2>1, <2>2
  <2> HIDE DEF Stays, i, x
  <2>4. n - x \in T
    BY <2>2, <2>3
  <2> QED BY <2>3, <2>4
<1>5. T = {}
  <2> SUFFICES ASSUME T # {} PROVE FALSE
    OBVIOUS
  <2> DEFINE R == OpToRel(<, Nat)
  <2>1. IsWellFoundedOn(R, Nat)
    BY NatLessThanWellFounded
  <2>2. \A x, y \in Nat : x < y => <<x, y>> \in R
    BY DEF OpToRel
  <2>3. T \subseteq Nat
    BY <1>1
  <2> HIDE DEF R, T
  <2>4. PICK m \in T : \A y \in T : ~(<<y, m>> \in R)
    BY <2>1, <2>3, WFMin
  <2> QED BY <1>4, <2>2, <2>3, <2>4
<1> SUFFICES ASSUME NEW r \in S PROVE Stays(r)
  OBVIOUS
<1>6. n - r \in 0..n /\ n - (n - r) = r
  BY <1>1
<1> HIDE DEF Stays
<1> QED BY <1>5, <1>6

----------------------------------------------------------------------------
(* What keeps the shape of the state.                                      *)

LEMMA TabShapes ==
    ASSUME NEW x \in TabRecs, NEW ok \in BOOLEAN
    PROVE  /\ Adopt(x) \in TabRecs /\ Adopt(x).turn = x.turn
           /\ Refreshing(x) \in TabRecs /\ (x.turn = "sent" => Refreshing(x).turn = "sent")
           /\ Resolved(x, ok) \in TabRecs
           /\ Older(x) \in TabRecs /\ Older(x).turn = x.turn
<1>1. Adopt(x) \in TabRecs /\ Adopt(x).turn = x.turn
  <2>1. Life \in 0..Life
    BY DEF Life
  <2> QED BY <2>1 DEF TabRecs, Adopt
<1>2. Refreshing(x) \in TabRecs /\ (x.turn = "sent" => Refreshing(x).turn = "sent")
  BY DEF TabRecs, Refreshing
<1>3. Resolved(x, ok) \in TabRecs
  BY DEF TabRecs, Resolved, At
<1>4. Older(x) \in TabRecs /\ Older(x).turn = x.turn
  BY DEF TabRecs, Older, Life
<1> QED BY <1>1, <1>2, <1>3, <1>4

LEMMA TabChanges ==
    ASSUME TabsOK, NEW t \in Tabs, NEW x \in TabRecs, tab' = [tab EXCEPT ![t] = x],
           \/ lock' = None
           \/ lock' = lock /\ (lock = t => x.turn = "sent")
           \/ lock' = t /\ x.turn = "sent"
    PROVE  TabsOK'
BY DEF TabsOK

LEMMA TokensKeepPlaces ==
    ASSUME ChainsOK, tokens' \in [DOMAIN tokens -> Token],
           \A r \in DOMAIN tokens : tokens'[r].next = tokens[r].next
    PROVE  ChainsOK' /\ Len(tokens') = Len(tokens)
<1>1. tokens' \in Seq(Token) /\ Len(tokens') = Len(tokens)
  <2>1. Len(tokens) \in Nat /\ DOMAIN tokens = 1..Len(tokens)
    BY TokenAt
  <2>2. tokens' \in Seq(Token)
    BY <2>1
  <2> QED BY <2>1, <2>2, LenProperties
<1> QED BY <1>1, TokenAt DEF ChainsOK

\* Requests and writes stay as they are while the tokens grow in number.
LEMMA TokensGrow ==
    ASSUME TypeInv, ChainsOK', Len(tokens') >= Len(tokens)
    PROVE  /\ \A q \in wire : RequestOK(q, Len(tokens'))
           /\ writes' \subseteq writes => WritesOK'
           /\ jar' = jar => (jar \in 0..Len(tokens))'
<1>1. Len(tokens) \in Nat /\ Len(tokens') \in Nat
  BY TokenAt, LenProperties DEF TypeInv, ChainsOK
<1> QED BY <1>1 DEF TypeInv, WireOK, RequestOK, WritesOK

LEMMA AnswerShape ==
    ASSUME TypeInv, ChainsOK', Len(tokens') >= Len(tokens), NEW q \in wire,
           NEW ok \in BOOLEAN, NEW c \in 0..Len(tokens'), Answer(q, ok, c)
    PROVE  WireOK'
<1> DEFINE a == [q EXCEPT !.stage = "served", !.ok = ok, !.cookie = c]
<1>1. \A o \in wire : RequestOK(o, Len(tokens'))
  BY TokensGrow
<1>2. RequestOK(a, Len(tokens'))
  BY <1>1 DEF RequestOK, Fields
<1>3. wire' \subseteq wire \cup {a}
  BY DEF Answer
<1> HIDE DEF a
<1> QED BY <1>1, <1>2, <1>3 DEF WireOK

LEMMA SentShape ==
    ASSUME TypeInv, NEW t \in Tabs, NEW what \in {"refresh", "logout"}, wire' = Sent(t, what),
           tokens' = tokens
    PROVE  WireOK'
<1>1. PICK n : wire' = wire \cup {[n |-> n, tab |-> t, what |-> what, cookie |-> jar, target |-> 0,
                                   stage |-> "sent", ok |-> FALSE]}
  BY DEF Sent
<1>2. RequestOK([n |-> n, tab |-> t, what |-> what, cookie |-> jar, target |-> 0,
                 stage |-> "sent", ok |-> FALSE], Len(tokens))
  BY DEF RequestOK, TypeInv, Fields
<1> QED BY <1>1, <1>2 DEF TypeInv, WireOK

LEMMA LeaveShape ==
    ASSUME TypeInv, NEW t \in Tabs, NEW x \in TabRecs, Leave(t, x), UNCHANGED <<jar, tokens, writes>>
    PROVE  TypeInv'
<1>1. TabsOK'
  BY TabChanges DEF Leave, TypeInv
<1>2. \A q \in wire : RequestOK([q EXCEPT !.tab = None], Len(tokens))
  BY DEF TypeInv, WireOK, RequestOK, Fields
<1>3. WireOK'
  BY <1>2 DEF Leave, Abandoned, TypeInv, WireOK
<1> QED BY <1>1, <1>3 DEF TypeInv, ChainsOK, WritesOK

----------------------------------------------------------------------------
(* Every step keeps it.                                                    *)

LEMMA InitShape == Init => TypeInv
<1> SUFFICES ASSUME Init PROVE TypeInv
  OBVIOUS
<1>1. tokens = <<[state |-> "live", next |-> 0, age |-> 0]>> /\ jar = 1 /\ wire = {} /\ writes = {}
  BY DEF Init, NewToken
<1>2. tokens \in Seq(Token) /\ Len(tokens) = 1 /\ tokens[1].next = 0
  BY <1>1 DEF Token
<1>3. TabsOK
  <2>1. NoToken \in TabRecs
    BY DEF NoToken, TabRecs, At, Life
  <2>2. Adopt(NoToken) \in TabRecs
    BY <2>1, TabShapes
  <2>3. Left \in 0..Life
    BY SessionAssumption DEF Life
  <2>4. [Adopt(NoToken) EXCEPT !.at = "app", !.life = Left] \in TabRecs
    BY <2>2, <2>3 DEF TabRecs, At
  <2> QED BY <2>4 DEF Init, TabsOK
<1> QED BY <1>1, <1>2, <1>3 DEF TypeInv, ChainsOK, WireOK, WritesOK

\* The token that is replaced is one of the user's.
LEMMA TargetIsToken ==
    ASSUME ChainsOK, NEW c \in 1..Len(tokens), NEW r \in Targets(c)
    PROVE  r \in 0..Len(tokens)
<1>1. Len(tokens) \in Nat /\ \A i \in 1..Len(tokens) : tokens[i].next # 0 => tokens[i].next \in 1..Len(tokens)
  BY TokenAt DEF ChainsOK
<1>2. End[c] \in 1..Len(tokens)
  BY <1>1, ChainStaysIn
<1>3. ChainHead(c) \in 0..Len(tokens)
  BY <1>1, <1>2, HeadIsEnd
<1> QED BY <1>1, <1>3 DEF Targets

LEMMA ReadShape == TypeInv /\ Read => TypeInv'
<1> SUFFICES ASSUME TypeInv, Read PROVE TypeInv'
  OBVIOUS
<1>1. PICK q \in wire :
        /\ q.stage = "sent" /\ q.what = "refresh"
        /\ \/ q.cookie \notin Known /\ Refuse(q)
           \/ /\ q.cookie \in Known
              /\ \E r \in Targets(q.cookie) :
                    \/ r = 0 /\ Alarm(q)
                    \/ /\ r # 0 /\ UNCHANGED <<tokens, past>>
                       /\ wire' = (wire \ {q}) \cup {[q EXCEPT !.stage = "read", !.target = r]}
  BY DEF Read
<1>2. UNCHANGED <<tab, jar, lock, writes>>
  BY DEF Read
<1>3. ChainsOK /\ Len(tokens) \in Nat /\ DOMAIN tokens = 1..Len(tokens) /\ RequestOK(q, Len(tokens))
  BY TokenAt DEF TypeInv, WireOK
<1>4. TabsOK' /\ jar' = jar /\ writes' \subseteq writes
  BY <1>2 DEF TypeInv, TabsOK
<1>5. CASE Refuse(q)
  <2>1. tokens' = tokens /\ Answer(q, FALSE, 0)
    BY <1>5 DEF Refuse
  <2>2. ChainsOK' /\ 0 \in 0..Len(tokens') /\ Len(tokens') >= Len(tokens)
    BY <1>3, <2>1 DEF ChainsOK
  <2> QED BY <1>4, <2>1, <2>2, AnswerShape, TokensGrow DEF TypeInv
<1>6. CASE Alarm(q)
  <2> DEFINE T(r) == IF tokens[r].state = "live" /\ (\A w \in writes : w.old # r \/ w.new = 0)
                     THEN [tokens[r] EXCEPT !.state = "ended"] ELSE tokens[r]
  <2>1. tokens' = [r \in DOMAIN tokens |-> T(r)] /\ Answer(q, FALSE, 0)
    BY <1>6 DEF Alarm
  <2>2. \A r \in DOMAIN tokens : T(r) \in Token /\ T(r).next = tokens[r].next
    BY <1>3, TokenAt DEF Token
  <2> HIDE DEF T
  <2>3. ChainsOK' /\ Len(tokens') = Len(tokens)
    BY <1>3, <2>1, <2>2, TokensKeepPlaces
  <2>4. 0 \in 0..Len(tokens') /\ Len(tokens') >= Len(tokens)
    BY <1>3, <2>3
  <2>5. WireOK'
    BY <2>1, <2>3, <2>4, AnswerShape
  <2> QED BY <1>4, <2>3, <2>4, <2>5, TokensGrow DEF TypeInv
<1>7. ASSUME q.cookie \in Known, NEW r \in Targets(q.cookie), r # 0, tokens' = tokens,
             wire' = (wire \ {q}) \cup {[q EXCEPT !.stage = "read", !.target = r]}
      PROVE  TypeInv'
  <2>1. r \in 1..Len(tokens)
    BY <1>3, <1>7, TargetIsToken DEF Known
  <2>2. RequestOK([q EXCEPT !.stage = "read", !.target = r], Len(tokens))
    BY <1>3, <2>1 DEF RequestOK, Fields
  <2>3. WireOK'
    BY <1>7, <2>2 DEF TypeInv, WireOK
  <2> QED BY <1>2, <1>4, <1>7, <2>3 DEF TypeInv, ChainsOK, WritesOK
<1> QED BY <1>1, <1>5, <1>6, <1>7

LEMMA WriteShape == TypeInv /\ Write => TypeInv'
<1> SUFFICES ASSUME TypeInv, Write PROVE TypeInv'
  OBVIOUS
<1> DEFINE n == Len(tokens) + 1
<1>1. PICK q \in wire :
        /\ q.stage = "read"
        /\ tokens' = Append(tokens, NewToken)
        /\ writes' = writes \cup {[old |-> q.target, new |-> n]}
        /\ Answer(q, TRUE, n)
        /\ UNCHANGED <<tab, jar, lock>>
  BY DEF Write
<1>2. ChainsOK /\ Len(tokens) \in Nat /\ q.target \in 1..Len(tokens)
  BY <1>1, TokenAt DEF TypeInv, WireOK, RequestOK
<1>3. NewToken \in Token /\ NewToken.next = 0
  BY DEF NewToken, Token
<1>4. /\ tokens' \in Seq(Token) /\ Len(tokens') = n /\ tokens'[n] = NewToken
      /\ \A r \in 1..Len(tokens) : tokens'[r] = tokens[r]
  BY <1>1, <1>2, <1>3, AppendProperties DEF ChainsOK
<1>5. ChainsOK'
  BY <1>2, <1>3, <1>4 DEF ChainsOK
<1>6. Len(tokens') >= Len(tokens) /\ n \in 0..Len(tokens')
  BY <1>2, <1>4
<1>7. WireOK'
  BY <1>1, <1>5, <1>6, AnswerShape
<1>8. WritesOK'
  BY <1>1, <1>2, <1>4 DEF TypeInv, WritesOK
<1>9. TabsOK' /\ (jar \in 0..Len(tokens))'
  BY <1>1, <1>5, <1>6, TokensGrow DEF TypeInv, TabsOK
<1> QED BY <1>5, <1>7, <1>8, <1>9 DEF TypeInv

LEMMA CommitShape == TypeInv /\ Commit => TypeInv'
<1> SUFFICES ASSUME TypeInv, Commit PROVE TypeInv'
  OBVIOUS
<1>1. PICK w \in writes :
        /\ writes' = writes \ {w}
        /\ tokens' =
              IF w.new # 0
              THEN [tokens EXCEPT ![w.old] = [state |-> "rotated", next |-> w.new, age |-> 0],
                                  ![w.new].state = "live"]
              ELSE [tokens EXCEPT ![w.old].state = IF @ = "live" THEN "ended" ELSE @]
        /\ UNCHANGED <<tab, jar, lock, wire>>
  BY DEF Commit
<1> DEFINE n == Len(tokens)
<1>2. /\ ChainsOK /\ n \in Nat /\ DOMAIN tokens = 1..n /\ w.old \in 1..n
      /\ w.new \in {0} \cup (w.old + 1)..n /\ \A r \in 1..n : tokens[r] \in Token
  BY TokenAt DEF TypeInv, WritesOK
<1>3. TabsOK' /\ writes' \subseteq writes /\ jar' = jar /\ wire' = wire
  BY <1>1 DEF TypeInv, TabsOK
<1>4. ChainsOK' /\ Len(tokens') = n
  <2>1. CASE w.new = 0
    <3> DEFINE x == [tokens[w.old] EXCEPT !.state = IF @ = "live" THEN "ended" ELSE @]
    <3>1. x \in Token /\ x.next = tokens[w.old].next
      BY <1>2 DEF Token
    <3>2. tokens' = [tokens EXCEPT ![w.old] = x]
      BY <1>1, <2>1
    <3> HIDE DEF x
    <3>3. tokens' \in [DOMAIN tokens -> Token] /\ \A r \in DOMAIN tokens : tokens'[r].next = tokens[r].next
      BY <1>2, <3>1, <3>2 DEF ChainsOK
    <3> QED BY <1>2, <3>3, TokensKeepPlaces
  <2>2. CASE w.new # 0
    <3>1. w.new \in 1..n /\ w.new > w.old /\ tokens \in Seq(Token)
      BY <1>2, <2>2 DEF ChainsOK
    <3>2. tokens' = [tokens EXCEPT ![w.old] = [state |-> "rotated", next |-> w.new, age |-> 0],
                                   ![w.new].state = "live"]
      BY <1>1, <2>2
    <3>3. w.old \in DOMAIN tokens /\ w.new \in DOMAIN tokens /\ w.old # w.new
      BY <1>2, <3>1
    <3>4. /\ tokens' \in Seq(Token) /\ Len(tokens') = n
          /\ tokens'[w.old].next = w.new /\ tokens'[w.new].next = tokens[w.new].next
          /\ \A r \in DOMAIN tokens : r \notin {w.old, w.new} => tokens'[r] = tokens[r]
      BY <3>1, <3>2, <3>3, Rotated
    <3> QED BY <1>2, <3>1, <3>4 DEF ChainsOK
  <2> QED BY <2>1, <2>2
<1>5. WritesOK' /\ WireOK' /\ (jar \in 0..Len(tokens))'
  BY <1>2, <1>3, <1>4, TokensGrow DEF WireOK
<1> QED BY <1>3, <1>4, <1>5 DEF TypeInv

LEMMA ServeLogoutShape == TypeInv /\ ServeLogout => TypeInv'
<1> SUFFICES ASSUME TypeInv, ServeLogout PROVE TypeInv'
  OBVIOUS
<1>1. PICK q \in wire :
        /\ writes' = IF q.cookie \in Known /\ tokens[q.cookie].state = "live"
                     THEN writes \cup {[old |-> q.cookie, new |-> 0]} ELSE writes
        /\ Answer(q, TRUE, 0)
        /\ UNCHANGED <<tab, jar, lock, tokens>>
  BY DEF ServeLogout
<1>2. /\ ChainsOK' /\ Len(tokens) \in Nat /\ DOMAIN tokens = 1..Len(tokens) /\ tokens' = tokens
      /\ 0 \in 0..Len(tokens') /\ Len(tokens') >= Len(tokens)
  BY <1>1, TokenAt DEF TypeInv, ChainsOK
<1>3. WireOK'
  BY <1>1, <1>2, AnswerShape
<1>4. WritesOK'
  BY <1>1, <1>2 DEF TypeInv, WritesOK, Known
<1> QED BY <1>1, <1>2, <1>3, <1>4 DEF TypeInv, TabsOK

LEMMA StoreShape == TypeInv /\ Store => TypeInv'
<1> SUFFICES ASSUME TypeInv, Store PROVE TypeInv'
  OBVIOUS
<1>1. PICK q \in wire :
        /\ jar' = IF q.ok THEN q.cookie ELSE jar
        /\ wire' = (wire \ {q}) \cup {[q EXCEPT !.stage = "stored"]}
        /\ UNCHANGED <<tab, lock, tokens, writes>>
  BY DEF Store
<1>2. RequestOK(q, Len(tokens))
  BY DEF TypeInv, WireOK
<1>3. RequestOK([q EXCEPT !.stage = "stored"], Len(tokens))
  BY <1>2 DEF RequestOK, Fields
<1>4. WireOK'
  BY <1>1, <1>3 DEF TypeInv, WireOK
<1>5. (jar \in 0..Len(tokens))'
  BY <1>1, <1>2 DEF TypeInv, RequestOK
<1> QED BY <1>1, <1>4, <1>5 DEF TypeInv, TabsOK, ChainsOK, WritesOK

LEMMA LoseShape == TypeInv /\ Lose => TypeInv'
<1> SUFFICES ASSUME TypeInv, Lose PROVE TypeInv'
  OBVIOUS
<1>1. PICK q \in wire, served \in BOOLEAN :
        wire' = (wire \ {q}) \cup {[q EXCEPT !.stage = "stored", !.ok = FALSE]}
                   \cup (IF served THEN {[q EXCEPT !.tab = None]} ELSE {})
  BY DEF Lose
<1>2. UNCHANGED <<tab, jar, lock, tokens, writes>>
  BY DEF Lose
<1>3. RequestOK(q, Len(tokens))
  BY DEF TypeInv, WireOK
<1>4. /\ RequestOK([q EXCEPT !.stage = "stored", !.ok = FALSE], Len(tokens))
      /\ RequestOK([q EXCEPT !.tab = None], Len(tokens))
  BY <1>3 DEF RequestOK, Fields
<1>5. WireOK'
  BY <1>1, <1>2, <1>4 DEF TypeInv, WireOK
<1> QED BY <1>2, <1>5 DEF TypeInv, TabsOK, ChainsOK, WritesOK

LEMMA MinuteShape == TypeInv /\ Minute => TypeInv'
<1> SUFFICES ASSUME TypeInv, Minute PROVE TypeInv'
  OBVIOUS
<1> DEFINE aged(r) == IF tokens[r].age < 2 THEN [tokens[r] EXCEPT !.age = @ + 1] ELSE tokens[r]
<1>1. /\ tab' = [t \in Tabs |-> Older(tab[t])] /\ tokens' = [r \in DOMAIN tokens |-> aged(r)]
      /\ UNCHANGED <<jar, lock, wire, writes>>
  BY DEF Minute
<1>2. ChainsOK /\ Len(tokens) \in Nat /\ DOMAIN tokens = 1..Len(tokens)
  BY TokenAt DEF TypeInv
<1>3. \A r \in DOMAIN tokens : aged(r) \in Token /\ aged(r).next = tokens[r].next
  BY <1>2, TokenAt DEF Token
<1> HIDE DEF aged
<1>4. ChainsOK' /\ Len(tokens') = Len(tokens)
  BY <1>1, <1>2, <1>3, TokensKeepPlaces
<1>5. \A t \in Tabs : Older(tab[t]) \in TabRecs /\ Older(tab[t]).turn = tab[t].turn
  BY TabShapes DEF TypeInv, TabsOK
<1>6. TabsOK'
  BY <1>1, <1>5 DEF TypeInv, TabsOK
<1> QED BY <1>1, <1>2, <1>4, <1>6, TokensGrow DEF TypeInv, WireOK

\* A tab whose turn the step leaves alone, if it holds the lock.
LEMMA TabShape ==
    ASSUME TypeInv, NEW t \in Tabs, NEW x \in TabRecs, tab' = [tab EXCEPT ![t] = x],
           lock = t => x.turn = "sent", UNCHANGED <<lock, jar, wire, tokens, writes>>
    PROVE  TypeInv'
<1>1. TabsOK'
  BY TabChanges DEF TypeInv
<1> QED BY <1>1 DEF TypeInv, ChainsOK, WireOK, WritesOK

\* Whoever waits for its turn does not hold the lock.
LEMMA TakeTurnShape == ASSUME TypeInv, NEW t \in Tabs, TakeTurn(t) PROVE TypeInv'
<1>1. tab[t] \in TabRecs /\ tab[t].turn = "asked" /\ lock # t /\ UNCHANGED <<jar, tokens, writes>>
  BY SessionAssumption DEF TypeInv, TabsOK, TakeTurn, Granted
<1>2. CASE Locks /\ tab[t].token /\ tab[t].life > Margin
  <2>1. Resolved(tab[t], TRUE) \in TabRecs
    BY <1>1, TabShapes
  <2>2. tab' = [tab EXCEPT ![t] = Resolved(tab[t], TRUE)] /\ UNCHANGED <<lock, wire>>
    BY <1>2 DEF TakeTurn
  <2> QED BY <1>1, <2>1, <2>2, TabShape
<1>3. CASE ~(Locks /\ tab[t].token /\ tab[t].life > Margin)
  <2> DEFINE x == [tab[t] EXCEPT !.turn = "sent"]
  <2>1. x \in TabRecs /\ x.turn = "sent"
    BY <1>1 DEF TabRecs
  <2>2. /\ tab' = [tab EXCEPT ![t] = x] /\ wire' = Sent(t, "refresh")
        /\ lock' = IF Locks THEN t ELSE lock
    BY <1>3 DEF TakeTurn
  <2> HIDE DEF x
  <2>3. TabsOK'
    BY <2>1, <2>2, TabChanges DEF TypeInv
  <2>4. WireOK'
    BY <1>1, <2>2, SentShape
  <2> QED BY <1>1, <2>3, <2>4 DEF TypeInv, ChainsOK, WritesOK
<1> QED BY <1>2, <1>3

LEMMA ContinueShape == ASSUME TypeInv, NEW t \in Tabs, Continue(t) PROVE TypeInv'
<1>1. PICK q \in wire :
        CASE q.what = "refresh" -> RefreshDone(t, q)
          [] q.what = "logout" -> LogoutDone(t, q)
  BY DEF Continue
<1>2. UNCHANGED <<jar, tokens, writes>>
  BY DEF Continue
<1>3. RequestOK(q, Len(tokens)) /\ tab[t] \in TabRecs
  BY DEF TypeInv, WireOK, TabsOK
<1>4. CASE RefreshDone(t, q)
  <2> DEFINE x == IF q.ok THEN Resolved(Adopt(tab[t]), TRUE) ELSE Resolved(tab[t], FALSE)
  <2>1. x \in TabRecs
    <3>1. Adopt(tab[t]) \in TabRecs
      BY <1>3, TabShapes
    <3>2. Resolved(Adopt(tab[t]), TRUE) \in TabRecs
      BY <3>1, TabShapes
    <3>3. Resolved(tab[t], FALSE) \in TabRecs
      BY <1>3, TabShapes
    <3> QED BY <3>2, <3>3
  <2>2. tab' = [tab EXCEPT ![t] = x] /\ wire' = wire \ {q} /\ lock' = IF lock = t THEN None ELSE lock
    BY <1>4 DEF RefreshDone
  <2> HIDE DEF x
  <2>3. TabsOK'
    BY <2>1, <2>2, TabChanges DEF TypeInv
  <2> QED BY <1>2, <2>2, <2>3 DEF TypeInv, ChainsOK, WireOK, WritesOK
<1>5. CASE LogoutDone(t, q)
  <2> DEFINE x == [tab[t] EXCEPT !.at = "login", !.token = FALSE, !.life = 0, !.timer = FALSE]
  <2>1. x \in TabRecs /\ x.turn = tab[t].turn
    <3>1. 0 \in 0..Life
      BY DEF Life
    <3> QED BY <1>3, <3>1 DEF TabRecs, At
  <2>2. tab' = [tab EXCEPT ![t] = x] /\ wire' = wire \ {q} /\ lock' = lock
    BY <1>5 DEF LogoutDone
  <2> HIDE DEF x
  <2>3. lock = t => x.turn = "sent"
    BY <2>1, SessionAssumption DEF TypeInv, TabsOK
  <2>4. TabsOK'
    BY <2>1, <2>2, <2>3, TabChanges DEF TypeInv
  <2> QED BY <1>2, <2>2, <2>4 DEF TypeInv, ChainsOK, WireOK, WritesOK
<1> QED BY <1>1, <1>3, <1>4, <1>5 DEF RequestOK

LEMMA LeftShapes ==
    /\ NoToken \in TabRecs
    /\ [NoToken EXCEPT !.at = "gate", !.turn = "asked"] \in TabRecs
    /\ [NoToken EXCEPT !.at = "closed"] \in TabRecs
<1>1. NoToken \in TabRecs
  BY DEF NoToken, TabRecs, At, Life
<1>2. [NoToken EXCEPT !.at = "gate", !.turn = "asked"] \in TabRecs
  BY <1>1 DEF TabRecs, At
<1>3. [NoToken EXCEPT !.at = "closed"] \in TabRecs
  BY <1>1 DEF TabRecs, At
<1> QED BY <1>1, <1>2, <1>3

LEMMA HearShape == ASSUME TypeInv, NEW t \in Tabs, Hear(t) PROVE TypeInv'
<1>1. UNCHANGED <<jar, tokens, writes>>
  BY DEF Hear
<1>2. CASE Head(channel[t]) = "token"
  <2>1. Adopt(tab[t]) \in TabRecs /\ Adopt(tab[t]).turn = tab[t].turn
    BY TabShapes DEF TypeInv, TabsOK
  <2>2. tab' = [tab EXCEPT ![t] = Adopt(tab[t])] /\ UNCHANGED <<lock, wire>>
    BY <1>2 DEF Hear
  <2>3. lock = t => Adopt(tab[t]).turn = "sent"
    BY <2>1, SessionAssumption DEF TypeInv, TabsOK
  <2> QED BY <1>1, <2>1, <2>2, <2>3, TabShape
<1>3. CASE Head(channel[t]) # "token"
  BY <1>1, <1>3, LeaveShape, LeftShapes DEF Hear
<1> QED BY <1>2, <1>3

\* What asks for a refresh leaves one that is under way alone.
LEMMA AsksShape ==
    ASSUME TypeInv, NEW t \in Tabs, TimerFires(t) \/ BecomesVisible(t) \/ Refused(t)
    PROVE  TypeInv'
<1> DEFINE silent == [tab[t] EXCEPT !.timer = FALSE]
<1>1. UNCHANGED <<lock, jar, wire, tokens, writes>>
  BY DEF TimerFires, BecomesVisible, Refused
<1>2. tab[t] \in TabRecs /\ (lock = t => tab[t].turn = "sent")
  BY SessionAssumption DEF TypeInv, TabsOK
<1>3. silent \in TabRecs /\ silent.turn = tab[t].turn
  BY <1>2 DEF TabRecs
<1>4. PICK y \in TabRecs : tab' = [tab EXCEPT ![t] = Refreshing(y)] /\ y.turn = tab[t].turn
  <2>1. CASE TimerFires(t)
    BY <1>3, <2>1 DEF TimerFires
  <2>2. CASE BecomesVisible(t)
    BY <1>2, <2>2 DEF BecomesVisible
  <2>3. CASE Refused(t)
    BY <1>2, <2>3 DEF Refused
  <2> QED BY <2>1, <2>2, <2>3
<1>5. Refreshing(y) \in TabRecs /\ (lock = t => Refreshing(y).turn = "sent")
  BY <1>2, <1>4, TabShapes
<1> QED BY <1>1, <1>4, <1>5, TabShape

LEMMA UserShape ==
    ASSUME TypeInv, NEW t \in Tabs, Load(t) \/ Close(t) \/ LogsOut(t) PROVE TypeInv'
<1>1. CASE Load(t)
  BY <1>1, LeaveShape, LeftShapes DEF Load
<1>2. CASE Close(t)
  BY <1>2, LeaveShape, LeftShapes DEF Close
<1>3. CASE LogsOut(t)
  <2>1. WireOK'
    BY <1>3, SentShape DEF LogsOut
  <2> QED BY <1>3, <2>1 DEF LogsOut, TypeInv, TabsOK, ChainsOK, WritesOK
<1> QED BY <1>1, <1>2, <1>3

LEMMA NextShape == TypeInv /\ [Next]_vars => TypeInv'
<1> SUFFICES ASSUME TypeInv, [Next]_vars PROVE TypeInv'
  OBVIOUS
<1>1. CASE UNCHANGED vars
  BY <1>1 DEF vars, TypeInv, TabsOK, ChainsOK, WireOK, WritesOK
<1>2. CASE Read \/ Write \/ ServeLogout \/ Commit
  BY <1>2, ReadShape, WriteShape, ServeLogoutShape, CommitShape
<1>3. CASE Store \/ Lose \/ Minute
  BY <1>3, StoreShape, LoseShape, MinuteShape
<1>4. ASSUME NEW t \in Tabs, TakeTurn(t) \/ Continue(t) \/ Hear(t)
      PROVE TypeInv'
  BY <1>4, TakeTurnShape, ContinueShape, HearShape
<1>5. ASSUME NEW t \in Tabs, TimerFires(t) \/ BecomesVisible(t) \/ Refused(t)
      PROVE TypeInv'
  BY <1>5, AsksShape
<1>6. ASSUME NEW t \in Tabs, Load(t) \/ Close(t) \/ LogsOut(t)
      PROVE TypeInv'
  BY <1>6, UserShape
<1> QED BY <1>1, <1>2, <1>3, <1>4, <1>5, <1>6 DEF Next

\* The refresh tokens form chains that only lead to later tokens, the cookie is
\* one of them or none, and whoever holds the lock is refreshing (client.ts:104-141,
\* auth.py:186-245).
THEOREM TypeCorrect == Spec => []TypeOK
<1>1. TypeInv => TypeOK
  <2> SUFFICES ASSUME TypeInv PROVE TypeOK
    OBVIOUS
  <2>1. \A t \in Tabs : tab[t] \in TabRecs
    BY DEF TypeInv, TabsOK
  <2>2. \A t \in Tabs : tab[t].at \in At /\ tab[t].life \in 0..Life
                        /\ tab[t].turn \in {"idle", "asked", "sent"}
    BY <2>1 DEF TabRecs
  <2>3. DOMAIN tokens = 1..Len(tokens)
    BY TokenAt DEF TypeInv
  <2> QED BY <2>2, <2>3 DEF TypeInv, TypeOK, TabsOK, ChainsOK
<1> QED BY <1>1, InitShape, NextShape, PTL DEF Spec

----------------------------------------------------------------------------
(* The browser's cookie.                                                   *)

\* A browser with Web Locks, in which nobody has signed out and no answer is lost.
Sound == Locks /\ ~past.out /\ ~past.lost

\* Under way is one refresh at most, of the tab that holds the lock.
OneRefresh ==
    /\ \A q \in wire :
          /\ DOMAIN q = Fields
          /\ q.what = "refresh" /\ q.tab = lock /\ q.tab # None
          /\ q.stage \in {"sent", "read", "served", "stored"} /\ q.ok \in BOOLEAN
    /\ \A q, o \in wire : q = o

\* The token that is, or is about to be, the browser's.
Current(r) ==
    IF \E q \in wire : q.stage = "served" /\ q.ok
    THEN \E q \in wire : q.stage = "served" /\ q.ok /\ r = q.cookie
    ELSE r = jar

\* It is good, and what is not committed yet is the rotation that made it.
CurrentIsGood ==
    \A r : Current(r) =>
        /\ r \in DOMAIN tokens /\ Good(r)
        /\ \A w \in writes : w.new = r /\ w.old # r /\ tokens[r].state = "unwritten"

OneWrite ==
    /\ writes \subseteq [old : DOMAIN tokens, new : DOMAIN tokens]
    /\ \A w, v \in writes : w = v

\* The backend rotates the very token that is in the jar.
RotatesTheJar ==
    \A q \in wire :
        /\ q.stage = "sent" => q.cookie = jar
        /\ q.stage = "read" => q.target = jar /\ tokens[jar].state = "live"

Kept ==
    /\ tokens \in Seq(Token) /\ jar \in DOMAIN tokens
    /\ OneRefresh /\ CurrentIsGood /\ OneWrite /\ RotatesTheJar

IInv == PastOK /\ (Sound => Kept)

----------------------------------------------------------------------------
LEMMA KeptIsGood == Sound /\ Kept => CookieKept
<1> SUFFICES ASSUME Sound, Kept PROVE CookieKept
  OBVIOUS
<1>1. CASE \E q \in wire : q.stage = "served" /\ q.ok
  BY <1>1 DEF Kept, OneRefresh, CurrentIsGood, Current, CookieKept
<1>2. CASE ~\E q \in wire : q.stage = "served" /\ q.ok
  BY <1>2 DEF Kept, CurrentIsGood, Current, CookieKept
<1> QED BY <1>1, <1>2

LEMMA InitInv == Init => IInv
<1> SUFFICES ASSUME Init PROVE IInv
  OBVIOUS
<1>1. tokens = <<[state |-> "live", next |-> 0, age |-> 0]>> /\ jar = 1 /\ wire = {} /\ writes = {}
  BY DEF Init, NewToken
<1>2. tokens \in Seq(Token) /\ DOMAIN tokens = {1} /\ tokens[1].state = "live"
  BY <1>1 DEF Token
<1>3. PastOK
  BY DEF Init, PastOK
<1> QED BY <1>1, <1>2, <1>3 DEF IInv, Kept, OneRefresh, CurrentIsGood, Current, Good, OneWrite, RotatesTheJar

\* A step that leaves the cookie, the requests and the tokens alone.
LEMMA AsideKeeps ==
    ASSUME IInv, PastOK', Sound' => Sound, UNCHANGED <<jar, lock, wire, tokens, writes>>
    PROVE  IInv'
  BY DEF IInv, Kept, OneRefresh, CurrentIsGood, Current, Good, OneWrite, RotatesTheJar

\* A page goes away; if it loses no answer, its request was over.
LEMMA LeaveKeeps ==
    ASSUME IInv, NEW t \in Tabs, NEW next, Leave(t, next), UNCHANGED <<jar, tokens, writes>>
    PROVE  IInv'
<1>1. PastOK' /\ (Sound' => Sound /\ ~LosesOne(t))
  BY DEF IInv, PastOK, Leave, Sound, LosesOne
<1> SUFFICES ASSUME Sound' PROVE Kept'
  BY <1>1 DEF IInv
<1>2. Sound /\ Kept /\ \A q \in wire : q.tab = t => q.stage = "stored"
  BY <1>1 DEF IInv, LosesOne
<1>3. wire' \subseteq wire /\ \A q \in wire : q \in wire' <=> q.tab # t
  BY <1>2 DEF Leave, Abandoned
<1>4. \A q \in wire' : lock' = lock
  BY <1>2, <1>3 DEF Leave, Kept, OneRefresh
<1>5. OneRefresh'
  BY <1>2, <1>3, <1>4 DEF Kept, OneRefresh
<1>6. \A r : Current(r)' <=> Current(r)
  BY <1>2, <1>3 DEF Current
<1>7. CurrentIsGood'
  BY <1>2, <1>6 DEF Kept, CurrentIsGood, Good
<1> QED BY <1>2, <1>3, <1>5, <1>7 DEF Kept, OneWrite, RotatesTheJar

----------------------------------------------------------------------------
(* The backend.                                                            *)

LEMMA ReadKeeps == IInv /\ Read => IInv'
<1> SUFFICES ASSUME IInv, Read PROVE IInv'
  OBVIOUS
<1>1. PICK q \in wire :
        /\ q.stage = "sent" /\ q.what = "refresh"
        /\ \/ q.cookie \notin Known /\ Refuse(q)
           \/ /\ q.cookie \in Known
              /\ \E r \in Targets(q.cookie) :
                    \/ r = 0 /\ Alarm(q)
                    \/ /\ r # 0 /\ UNCHANGED <<tokens, past>>
                       /\ wire' = (wire \ {q}) \cup {[q EXCEPT !.stage = "read", !.target = r]}
        /\ UNCHANGED <<tab, jar, lock, channel, writes, events, minutes>>
  BY DEF Read
<1>2. PastOK' /\ (Sound' => Sound)
  BY <1>1 DEF IInv, PastOK, Sound, Refuse, Alarm
<1> SUFFICES ASSUME Sound' PROVE Kept'
  BY <1>2 DEF IInv
<1>3. Sound /\ Kept
  BY <1>2 DEF IInv
<1>4. q.cookie = jar /\ wire = {q} /\ q.tab # None /\ DOMAIN q = Fields
  BY <1>1, <1>3 DEF Kept, OneRefresh, RotatesTheJar
<1>5. Current(jar) /\ jar \in DOMAIN tokens /\ Good(jar)
  BY <1>1, <1>3, <1>4 DEF Current, Kept, CurrentIsGood
<1>6. CASE q.cookie \notin Known
  <2> DEFINE a == [q EXCEPT !.stage = "served", !.ok = FALSE, !.cookie = 0]
  <2>1. wire' = {a} /\ UNCHANGED <<tokens, past, jar, lock, writes>>
    BY <1>1, <1>4, <1>6 DEF Refuse, Answer
  <2>2. DOMAIN a = Fields /\ a.stage = "served" /\ a.ok = FALSE /\ a.what = q.what /\ a.tab = q.tab
    BY <1>4 DEF Fields
  <2>3. OneRefresh'
    BY <2>1, <2>2, <1>3, <1>4 DEF Kept, OneRefresh
  <2>4. \A r : Current(r)' <=> Current(r)
    BY <2>1, <2>2, <1>1, <1>4 DEF Current
  <2>5. CurrentIsGood'
    BY <2>1, <2>4, <1>3 DEF Kept, CurrentIsGood, Good
  <2> QED BY <2>1, <2>2, <2>3, <2>5, <1>3 DEF Kept, OneWrite, RotatesTheJar
<1>7. CASE q.cookie \in Known
  <2> DEFINE a == [q EXCEPT !.stage = "read", !.target = jar]
  <2>1. tokens[jar].state = "live"
    BY <1>4, <1>5, <1>7 DEF Known, Good
  <2>2. Targets(q.cookie) = {jar} /\ jar # 0
    BY <2>1, <1>3, <1>4 DEF Targets, Kept
  <2>3. wire' = {a} /\ UNCHANGED <<tokens, past, jar, lock, writes>>
    BY <2>2, <1>1, <1>4, <1>7
  <2>4. DOMAIN a = Fields /\ a.stage = "read" /\ a.target = jar /\ a.ok = q.ok /\ a.what = q.what
        /\ a.tab = q.tab
    BY <1>4 DEF Fields
  <2>5. OneRefresh'
    BY <2>3, <2>4, <1>3, <1>4 DEF Kept, OneRefresh
  <2>6. \A r : Current(r)' <=> Current(r)
    BY <2>3, <2>4, <1>1, <1>4 DEF Current
  <2>7. CurrentIsGood'
    BY <2>3, <2>6, <1>3 DEF Kept, CurrentIsGood, Good
  <2> QED BY <2>1, <2>3, <2>4, <2>5, <2>7, <1>3 DEF Kept, OneWrite, RotatesTheJar
<1> QED BY <1>6, <1>7

LEMMA WriteKeeps == IInv /\ Write => IInv'
<1> SUFFICES ASSUME IInv, Write PROVE IInv'
  OBVIOUS
<1>1. PICK q \in wire :
        /\ q.stage = "read"
        /\ tokens' = Append(tokens, NewToken)
        /\ writes' = writes \cup {[old |-> q.target, new |-> Len(tokens) + 1]}
        /\ Answer(q, TRUE, Len(tokens) + 1)
        /\ UNCHANGED <<tab, jar, lock, channel, past, events, minutes>>
  BY DEF Write
<1> SUFFICES ASSUME Sound' PROVE Kept'
  BY <1>1 DEF IInv, PastOK
<1>2. Sound /\ Kept
  BY <1>1 DEF IInv, Sound
<1> DEFINE n == Len(tokens) + 1
           a == [q EXCEPT !.stage = "served", !.ok = TRUE, !.cookie = n]
<1>3. q.target = jar /\ tokens[jar].state = "live" /\ wire = {q} /\ DOMAIN q = Fields /\ q.tab # None
  BY <1>1, <1>2 DEF Kept, OneRefresh, RotatesTheJar
<1>4. writes = {}
  BY <1>1, <1>2, <1>3 DEF Kept, CurrentIsGood, Current
<1>5. n \in Nat /\ DOMAIN tokens = 1..Len(tokens) /\ jar \in DOMAIN tokens /\ jar # n
  BY <1>2 DEF Kept
<1>6. NewToken \in Token /\ NewToken.state = "unwritten"
  BY DEF NewToken, Token
<1>7. tokens' \in Seq(Token) /\ DOMAIN tokens' = DOMAIN tokens \cup {n} /\ tokens'[n] = NewToken
  BY <1>1, <1>2, <1>5, <1>6 DEF Kept
<1>8. wire' = {a} /\ writes' = {[old |-> jar, new |-> n]} /\ jar' = jar /\ lock' = lock
  BY <1>1, <1>3, <1>4 DEF Answer
<1>9. DOMAIN a = Fields /\ a.stage = "served" /\ a.ok = TRUE /\ a.cookie = n /\ a.what = q.what
      /\ a.tab = q.tab
  BY <1>3 DEF Fields
<1>10. OneRefresh'
  BY <1>2, <1>3, <1>8, <1>9 DEF Kept, OneRefresh
<1>11. \A r : Current(r)' <=> r = n
  BY <1>8, <1>9 DEF Current
<1>12. CurrentIsGood'
  BY <1>5, <1>6, <1>7, <1>8, <1>11 DEF CurrentIsGood, Good
<1>13. OneWrite'
  BY <1>5, <1>7, <1>8 DEF OneWrite
<1> QED BY <1>5, <1>7, <1>8, <1>9, <1>10, <1>12, <1>13 DEF Kept, RotatesTheJar

\* What is committed is the rotation that made the browser's token.
LEMMA CommitKeeps == IInv /\ Commit => IInv'
<1> SUFFICES ASSUME IInv, Commit PROVE IInv'
  OBVIOUS
<1>1. PICK w \in writes :
        /\ writes' = writes \ {w}
        /\ tokens' =
              IF w.new # 0
              THEN [tokens EXCEPT ![w.old] = [state |-> "rotated", next |-> w.new, age |-> 0],
                                  ![w.new].state = "live"]
              ELSE [tokens EXCEPT ![w.old].state = IF @ = "live" THEN "ended" ELSE @]
        /\ UNCHANGED <<tab, jar, lock, wire, channel, past, events, minutes>>
  BY DEF Commit
<1> SUFFICES ASSUME Sound' PROVE Kept'
  BY <1>1 DEF IInv, PastOK
<1>2. Sound /\ Kept
  BY <1>1 DEF IInv, Sound
<1>3. w.old \in DOMAIN tokens /\ w.new \in DOMAIN tokens /\ writes' = {} /\ DOMAIN tokens = 1..Len(tokens)
  BY <1>1, <1>2 DEF Kept, OneWrite
<1>4. \A r : Current(r) => r = w.new
  BY <1>2 DEF Kept, CurrentIsGood
<1>5. \E r : Current(r)
  BY DEF Current
<1>6. Current(w.new) /\ w.old # w.new /\ tokens[w.new].state = "unwritten"
  BY <1>2, <1>4, <1>5 DEF Kept, CurrentIsGood
<1>7. tokens' \in Seq(Token) /\ DOMAIN tokens' = DOMAIN tokens /\ tokens'[w.new].state = "live"
  <2>1. tokens \in Seq(Token) /\ w.new # 0
    BY <1>2, <1>3 DEF Kept
  <2> QED BY <1>1, <1>3, <1>6, <2>1, Rotated
<1>8. \A r : Current(r)' <=> Current(r)
  BY <1>1 DEF Current
<1>9. CurrentIsGood'
  BY <1>3, <1>4, <1>7, <1>8 DEF CurrentIsGood, Good
<1>10. \A q \in wire : q.stage # "read"
  BY <1>2, <1>4, <1>6 DEF Kept, OneRefresh, RotatesTheJar, Current
<1> QED BY <1>1, <1>2, <1>3, <1>7, <1>9, <1>10 DEF Kept, OneRefresh, OneWrite, RotatesTheJar

\* No request to log out is under way.
LEMMA ServeLogoutKeeps == IInv /\ ServeLogout => IInv'
<1> SUFFICES ASSUME IInv, ServeLogout PROVE IInv'
  OBVIOUS
<1>1. PastOK' /\ (Sound' => Sound) /\ \E q \in wire : q.what = "logout"
  BY DEF ServeLogout, IInv, PastOK, Sound
<1>2. ~Sound
  BY <1>1 DEF IInv, Kept, OneRefresh
<1> QED BY <1>1, <1>2 DEF IInv

----------------------------------------------------------------------------
(* The browser and its tabs.                                               *)

LEMMA StoreKeeps == IInv /\ Store => IInv'
<1> SUFFICES ASSUME IInv, Store PROVE IInv'
  OBVIOUS
<1>1. PICK q \in wire :
        /\ q.stage = "served"
        /\ jar' = IF q.ok THEN q.cookie ELSE jar
        /\ wire' = (wire \ {q}) \cup {[q EXCEPT !.stage = "stored"]}
        /\ UNCHANGED <<tab, lock, channel, tokens, writes, past, events, minutes>>
  BY DEF Store
<1> SUFFICES ASSUME Sound' PROVE Kept'
  BY <1>1 DEF IInv, PastOK
<1>2. Sound /\ Kept
  BY <1>1 DEF IInv, Sound
<1> DEFINE a == [q EXCEPT !.stage = "stored"]
<1>3. wire = {q} /\ wire' = {a} /\ DOMAIN q = Fields
  BY <1>1, <1>2 DEF Kept, OneRefresh
<1>4. DOMAIN a = Fields /\ a.stage = "stored" /\ a.ok = q.ok /\ a.what = q.what /\ a.tab = q.tab
  BY <1>3 DEF Fields
<1>5. OneRefresh'
  BY <1>1, <1>2, <1>3, <1>4 DEF Kept, OneRefresh
<1>6. \A r : Current(r)' <=> r = jar'
  BY <1>3, <1>4 DEF Current
<1>7. Current(jar')
  BY <1>1, <1>3 DEF Current
<1>8. jar' \in DOMAIN tokens' /\ CurrentIsGood'
  BY <1>1, <1>2, <1>6, <1>7 DEF Kept, CurrentIsGood, Good
<1> QED BY <1>1, <1>2, <1>3, <1>4, <1>5, <1>8 DEF Kept, OneWrite, RotatesTheJar

LEMMA MinuteKeeps == IInv /\ Minute => IInv'
<1> SUFFICES ASSUME IInv, Minute PROVE IInv'
  OBVIOUS
<1>1. PastOK' /\ (Sound' => Sound)
  BY DEF IInv, PastOK, Minute, Sound
<1> SUFFICES ASSUME Sound' PROVE Kept'
  BY <1>1 DEF IInv
<1>2. Kept
  BY <1>1 DEF IInv
<1> DEFINE aged(r) == IF tokens[r].age < 2 THEN [tokens[r] EXCEPT !.age = @ + 1] ELSE tokens[r]
<1>3. tokens' = [r \in DOMAIN tokens |-> aged(r)] /\ UNCHANGED <<jar, lock, wire, writes>>
  BY DEF Minute
<1>4. Len(tokens) \in Nat /\ DOMAIN tokens = 1..Len(tokens) /\ \A r \in DOMAIN tokens : tokens[r] \in Token
  BY <1>2 DEF Kept
<1>5. \A r \in DOMAIN tokens : aged(r) \in Token /\ aged(r).state = tokens[r].state
  BY <1>4 DEF Token
<1>6. DOMAIN tokens' = DOMAIN tokens /\ \A r \in DOMAIN tokens : tokens'[r] = aged(r)
  BY <1>3
<1>7. tokens' \in Seq(Token)
  <2> HIDE DEF aged
  <2>1. tokens' \in [1..Len(tokens) -> Token]
    BY <1>3, <1>4, <1>5
  <2> QED BY <2>1, <1>4
<1>8. \A r \in DOMAIN tokens : tokens'[r].state = tokens[r].state
  BY <1>5, <1>6
<1>9. \A r : Current(r)' <=> Current(r)
  BY <1>3 DEF Current
<1>10. CurrentIsGood'
  BY <1>2, <1>3, <1>6, <1>8, <1>9 DEF Kept, CurrentIsGood, Good
<1> QED BY <1>2, <1>3, <1>6, <1>7, <1>8, <1>10 DEF Kept, OneRefresh, OneWrite, RotatesTheJar

\* Whoever gets the lock finds nothing under way.
LEMMA TakeTurnKeeps == ASSUME IInv, NEW t \in Tabs, TakeTurn(t) PROVE IInv'
<1>1. PastOK' /\ (Sound' => Sound) /\ UNCHANGED <<jar, tokens, writes>>
  BY DEF IInv, PastOK, TakeTurn, Sound
<1>2. CASE Locks /\ tab[t].token /\ tab[t].life > Margin
  BY <1>1, <1>2, AsideKeeps DEF TakeTurn
<1>3. CASE ~(Locks /\ tab[t].token /\ tab[t].life > Margin)
  <2> SUFFICES ASSUME Sound' PROVE Kept'
    BY <1>1 DEF IInv
  <2>1. Sound /\ Kept /\ lock = None /\ t # None
    BY <1>1, SessionAssumption DEF IInv, TakeTurn, Granted, Sound
  <2>2. wire = {} /\ lock' = t
    BY <1>3, <2>1 DEF Kept, OneRefresh, TakeTurn, Sound
  <2>3. PICK n : wire' = {[n |-> n, tab |-> t, what |-> "refresh", cookie |-> jar, target |-> 0,
                           stage |-> "sent", ok |-> FALSE]}
    BY <1>3, <2>2 DEF TakeTurn, Sent
  <2>4. OneRefresh'
    BY <2>1, <2>2, <2>3 DEF OneRefresh, Fields
  <2>5. \A r : Current(r)' <=> Current(r)
    BY <1>1, <2>2, <2>3 DEF Current
  <2>6. CurrentIsGood'
    BY <1>1, <2>1, <2>5 DEF Kept, CurrentIsGood, Good
  <2> QED BY <1>1, <2>1, <2>3, <2>4, <2>6 DEF Kept, OneWrite, RotatesTheJar
<1> QED BY <1>2, <1>3

\* A tab lets the lock go when its answer is in and stored.
LEMMA ContinueKeeps == ASSUME IInv, NEW t \in Tabs, Continue(t) PROVE IInv'
<1>1. PICK q \in wire :
        /\ q.tab = t /\ q.stage = "stored"
        /\ CASE q.what = "refresh" -> RefreshDone(t, q)
             [] q.what = "logout" -> LogoutDone(t, q)
  BY DEF Continue
<1>2. UNCHANGED <<jar, tokens, writes, past>>
  BY DEF Continue
<1> SUFFICES ASSUME Sound' PROVE Kept'
  BY <1>2 DEF IInv, PastOK
<1>3. Sound /\ Kept
  BY <1>2 DEF IInv, Sound
<1>4. wire = {q} /\ RefreshDone(t, q)
  BY <1>1, <1>3 DEF Kept, OneRefresh
<1>5. wire' = {}
  BY <1>4 DEF RefreshDone
<1>6. \A r : Current(r)' <=> Current(r)
  BY <1>1, <1>2, <1>4, <1>5 DEF Current
<1>7. CurrentIsGood'
  BY <1>2, <1>3, <1>6 DEF Kept, CurrentIsGood, Good
<1> QED BY <1>2, <1>3, <1>5, <1>7 DEF Kept, OneRefresh, OneWrite, RotatesTheJar

LEMMA HearKeeps == ASSUME IInv, NEW t \in Tabs, Hear(t) PROVE IInv'
<1>1. CASE Head(channel[t]) = "token"
  BY <1>1, AsideKeeps DEF Hear, IInv, PastOK, Sound
<1>2. CASE Head(channel[t]) # "token"
  BY <1>2, LeaveKeeps DEF Hear
<1> QED BY <1>1, <1>2

\* What a tab does between its turns.
LEMMA TabKeeps ==
    ASSUME IInv, NEW t \in Tabs,
           TimerFires(t) \/ BecomesVisible(t) \/ Refused(t) \/ Load(t) \/ Close(t) \/ LogsOut(t)
    PROVE  IInv'
<1>1. CASE TimerFires(t)
  BY <1>1, AsideKeeps DEF TimerFires, IInv, PastOK, Sound
<1>2. CASE BecomesVisible(t)
  BY <1>2, AsideKeeps DEF BecomesVisible, IInv, PastOK, Sound
<1>3. CASE Refused(t)
  BY <1>3, AsideKeeps DEF Refused, IInv, PastOK, Sound
<1>4. CASE Load(t)
  BY <1>4, LeaveKeeps DEF Load
<1>5. CASE Close(t)
  BY <1>5, LeaveKeeps DEF Close
<1>6. CASE LogsOut(t)
  BY <1>6 DEF LogsOut, IInv, PastOK, Sound
<1> QED BY <1>1, <1>2, <1>3, <1>4, <1>5, <1>6

----------------------------------------------------------------------------
LEMMA NextInv == IInv /\ [Next]_vars => IInv'
<1> SUFFICES ASSUME IInv, [Next]_vars PROVE IInv'
  OBVIOUS
<1>1. CASE UNCHANGED vars
  BY <1>1, AsideKeeps DEF vars, IInv, PastOK, Sound
<1>2. CASE Read \/ Write \/ ServeLogout \/ Commit
  BY <1>2, ReadKeeps, WriteKeeps, ServeLogoutKeeps, CommitKeeps
<1>3. CASE Store \/ Minute
  BY <1>3, StoreKeeps, MinuteKeeps
<1>4. CASE Lose
  BY <1>4 DEF Lose, IInv, PastOK, Sound
<1>5. ASSUME NEW t \in Tabs, TakeTurn(t) \/ Continue(t) \/ Hear(t)
      PROVE IInv'
  BY <1>5, TakeTurnKeeps, ContinueKeeps, HearKeeps
<1>6. ASSUME NEW t \in Tabs,
             TimerFires(t) \/ BecomesVisible(t) \/ Refused(t) \/ Load(t) \/ Close(t) \/ LogsOut(t)
      PROVE IInv'
  BY <1>6, TabKeeps
<1> QED BY <1>1, <1>2, <1>3, <1>4, <1>5, <1>6 DEF Next

\* With Web Locks, and as long as nobody signs out and no answer is lost, the
\* browser's refresh cookie is the live token or one that a tab is being handed,
\* whatever the number of tabs and however they load, close, renew and wait
\* (refreshSession, client.ts:104-141; rotate_refresh_token, auth.py:186-245).
THEOREM TheCookieIsKept == Spec => []CookieKept
<1>1. IInv => CookieKept
  BY KeptIsGood DEF IInv, Sound, CookieKept
<1> QED BY <1>1, InitInv, NextInv, PTL DEF Spec

----------------------------------------------------------------------------
(* The minute of grace.                                                    *)

\* Nobody has signed out, and no minute has passed while a refresh was unfinished.
InTime == ~past.out /\ ~past.late

\* The cookie has been replaced within the minute, if at all.
Timely(c) == c \in 1..Len(tokens) /\ (tokens[c].state = "rotated" => tokens[c].age = 0)

\* No chain was ended, and what is replaced leads on to a committed token.
ChainsLive ==
    \A r \in 1..Len(tokens) :
        /\ tokens[r].state # "ended" /\ (tokens[r].state = "rotated" <=> tokens[r].next # 0)
        /\ tokens[r].next # 0 => tokens[tokens[r].next].state # "unwritten"

\* What a request has brought, found or been given is still good.
Asked(q) ==
    /\ q.what = "refresh"
    /\ q.stage = "sent" => Timely(q.cookie)
    /\ q.stage = "served" => (q.ok => Timely(q.cookie))
    /\ q.stage = "read" => tokens[q.target].state # "unwritten"

\* Each write makes a token of its own.
Rotations ==
    /\ \A w \in writes :
          w.new # 0 /\ tokens[w.new].state = "unwritten" /\ tokens[w.old].state # "unwritten"
    /\ \A w, v \in writes : w.new = v.new => w = v

Graceful ==
    ~past.alarm /\ ChainsLive /\ Timely(jar) /\ (\A q \in wire : Asked(q)) /\ Rotations

GraceInv == TypeInv /\ PastOK /\ (InTime => Graceful)

\* The chain of a token that was committed ends in a live one.
LEMMA HeadLives ==
    ASSUME ChainsOK, ChainsLive, NEW c \in Known
    PROVE  ChainHead(c) \in 1..Len(tokens) /\ tokens[ChainHead(c)].state = "live"
<1>1. Len(tokens) \in Nat /\ DOMAIN tokens = 1..Len(tokens) /\ \A r \in 1..Len(tokens) : tokens[r] \in Token
  BY TokenAt
<1>2. /\ Known \in SUBSET (1..Len(tokens))
      /\ \A i \in Known : tokens[i].next # 0 => tokens[i].next \in Known
  BY <1>1 DEF Known, ChainsOK, ChainsLive
<1>3. End[c] \in Known /\ tokens[End[c]].next = 0
  BY <1>2, ChainStaysIn
<1>4. tokens[End[c]].state = "live"
  BY <1>1, <1>2, <1>3 DEF Known, ChainsLive, Token
<1> QED BY <1>2, <1>3, <1>4, HeadIsEnd

LEMMA GraceIsKept == TypeInv /\ Graceful => ~past.alarm /\ (Good(jar) \/ ChainHead(jar) # 0)
<1> SUFFICES ASSUME TypeInv, Graceful, ~Good(jar) PROVE ~past.alarm /\ ChainHead(jar) # 0
  BY DEF Graceful
<1>1. jar \in Known
  BY TokenAt DEF Known, Good, Graceful, Timely, TypeInv
<1>2. ChainHead(jar) \in 1..Len(tokens)
  BY <1>1, HeadLives DEF Graceful, TypeInv
<1> QED BY <1>2 DEF Graceful

\* A step that leaves the tokens and the writes alone.
LEMMA GraceStays ==
    ASSUME Graceful, UNCHANGED <<tokens, writes>>, past'.alarm = past.alarm, Timely(jar'),
           \A q \in wire' : q \in wire \/ Asked(q)
    PROVE  Graceful'
BY DEF Graceful, ChainsLive, Timely, Asked, Rotations

LEMMA LeaveGrace ==
    ASSUME TypeInv, Graceful, NEW t \in Tabs, NEW x, Leave(t, x), UNCHANGED <<jar, tokens, writes>>,
           past'.alarm = past.alarm
    PROVE  Graceful'
<1>1. \A q \in wire : Asked([q EXCEPT !.tab = None])
  BY DEF Graceful, Asked, TypeInv, WireOK, RequestOK, Fields
<1>2. \A q \in wire' : q \in wire \/ Asked(q)
  BY <1>1 DEF Leave, Abandoned
<1> QED BY <1>2, GraceStays DEF Graceful

\* A refresh within the minute finds a live token.
LEMMA ReadGrace ==
    ASSUME TypeInv, Graceful, Read PROVE Graceful'
<1>1. PICK q \in wire :
        /\ q.stage = "sent" /\ q.what = "refresh"
        /\ \/ q.cookie \notin Known /\ Refuse(q)
           \/ /\ q.cookie \in Known
              /\ \E r \in Targets(q.cookie) :
                    \/ r = 0 /\ Alarm(q)
                    \/ /\ r # 0 /\ UNCHANGED <<tokens, past>>
                       /\ wire' = (wire \ {q}) \cup {[q EXCEPT !.stage = "read", !.target = r]}
  BY DEF Read
<1>2. UNCHANGED <<jar, writes>>
  BY DEF Read
<1>3. DOMAIN q = Fields /\ Timely(q.cookie) /\ Timely(jar)
  BY <1>1 DEF Graceful, Asked, TypeInv, WireOK, RequestOK
<1>4. CASE q.cookie \notin Known
  <2> DEFINE a == [q EXCEPT !.stage = "served", !.ok = FALSE, !.cookie = 0]
  <2>1. Asked(a)
    BY <1>1, <1>3 DEF Asked, Fields
  <2>2. wire' \subseteq wire \cup {a} /\ UNCHANGED <<tokens, past>>
    BY <1>1, <1>4 DEF Refuse, Answer
  <2> HIDE DEF a
  <2> QED BY <1>2, <1>3, <2>1, <2>2, GraceStays
<1>5. CASE q.cookie \in Known
  <2>1. \A r \in Targets(q.cookie) : r # 0 /\ tokens[r].state = "live"
    <3>1. ChainHead(q.cookie) # 0 /\ tokens[ChainHead(q.cookie)].state = "live"
      BY <1>5, HeadLives DEF TypeInv, Graceful
    <3>2. tokens[q.cookie] \in Token /\ q.cookie \in 1..Len(tokens)
      BY <1>3, TokenAt DEF Timely, TypeInv
    <3>3. tokens[q.cookie].state \in {"live", "rotated"}
      BY <1>5, <3>2 DEF Known, Graceful, ChainsLive, Token
    <3>4. tokens[q.cookie].state = "rotated" => ~MayBeLate(q.cookie)
      BY <1>3 DEF Timely, MayBeLate
    <3> QED BY <3>1, <3>2, <3>3, <3>4 DEF Targets
  <2>2. PICK r \in Targets(q.cookie) :
           /\ UNCHANGED <<tokens, past>>
           /\ wire' = (wire \ {q}) \cup {[q EXCEPT !.stage = "read", !.target = r]}
    BY <1>1, <1>5, <2>1
  <2>3. Asked([q EXCEPT !.stage = "read", !.target = r])
    BY <1>1, <1>3, <2>1 DEF Asked, Fields
  <2> QED BY <1>2, <1>3, <2>2, <2>3, GraceStays
<1> QED BY <1>4, <1>5

LEMMA WriteGrace == ASSUME TypeInv, Graceful, Write PROVE Graceful'
<1> PICK n : n = Len(tokens) + 1
  OBVIOUS
<1>1. PICK q \in wire :
        /\ q.stage = "read"
        /\ tokens' = Append(tokens, NewToken)
        /\ writes' = writes \cup {[old |-> q.target, new |-> n]}
        /\ Answer(q, TRUE, n)
        /\ UNCHANGED <<jar, past>>
  BY DEF Write
<1>2. ChainsOK /\ Len(tokens) \in Nat /\ q.target \in 1..Len(tokens) /\ DOMAIN q = Fields
  BY <1>1, TokenAt DEF TypeInv, WireOK, RequestOK
<1>3. NewToken \in Token /\ NewToken.next = 0 /\ NewToken.state = "unwritten"
  BY DEF NewToken, Token
<1>4. /\ Len(tokens') = n /\ tokens'[n] = NewToken
      /\ \A r \in 1..Len(tokens) : tokens'[r] = tokens[r]
  BY <1>1, <1>2, <1>3, AppendProperties DEF ChainsOK
<1>5. \A c : Timely(c) => Timely(c)'
  BY <1>2, <1>4 DEF Timely
<1>6. Timely(n)'
  BY <1>2, <1>3, <1>4 DEF Timely
<1>7. ChainsLive'
  BY <1>2, <1>3, <1>4 DEF Graceful, ChainsLive, ChainsOK
<1>8. \A o \in wire : Asked(o)'
  BY <1>2, <1>4, <1>5 DEF Graceful, Asked, TypeInv, WireOK, RequestOK
<1>9. \A o \in wire' : Asked(o)'
  <2> PICK a : a = [q EXCEPT !.stage = "served", !.ok = TRUE, !.cookie = n]
    OBVIOUS
  <2>1. a.stage = "served" /\ a.cookie = n /\ a.what = "refresh"
    BY <1>2 DEF Fields, Graceful, Asked
  <2>2. wire' \subseteq wire \cup {a}
    BY <1>1 DEF Answer
  <2>3. Asked(a)'
    BY <1>6, <2>1 DEF Asked
  <2> QED BY <1>8, <2>2, <2>3
<1>10. Rotations'
  <2>1. \A w \in writes : w.new \in 1..Len(tokens) /\ w.old \in 1..Len(tokens) /\ w.new # n
    BY <1>2 DEF TypeInv, WritesOK, Graceful, Rotations
  <2>2. tokens[q.target].state # "unwritten"
    BY <1>1 DEF Graceful, Asked
  <2> QED BY <1>1, <1>2, <1>3, <1>4, <2>1, <2>2 DEF Graceful, Rotations
<1> QED BY <1>1, <1>5, <1>7, <1>9, <1>10 DEF Graceful

LEMMA CommitGrace == ASSUME TypeInv, Graceful, Commit PROVE Graceful'
<1>1. PICK w \in writes :
        /\ writes' = writes \ {w}
        /\ tokens' =
              IF w.new # 0
              THEN [tokens EXCEPT ![w.old] = [state |-> "rotated", next |-> w.new, age |-> 0],
                                  ![w.new].state = "live"]
              ELSE [tokens EXCEPT ![w.old].state = IF @ = "live" THEN "ended" ELSE @]
        /\ UNCHANGED <<jar, wire, past>>
  BY DEF Commit
<1> DEFINE n == Len(tokens)
<1>2. /\ w.new \in 1..n /\ w.old \in 1..n /\ w.new # w.old /\ n \in Nat /\ DOMAIN tokens = 1..n
      /\ tokens \in Seq(Token) /\ w.new # 0
      /\ tokens[w.new].state = "unwritten" /\ tokens[w.old].state # "unwritten"
  BY TokenAt DEF TypeInv, ChainsOK, WritesOK, Graceful, Rotations
<1>3. /\ Len(tokens') = n
      /\ tokens'[w.old].state = "rotated" /\ tokens'[w.old].next = w.new /\ tokens'[w.old].age = 0
      /\ tokens'[w.new].state = "live" /\ tokens'[w.new].next = tokens[w.new].next
      /\ \A r \in 1..n : r \notin {w.old, w.new} => tokens'[r] = tokens[r]
  BY <1>1, <1>2, Rotated
<1>4. \A c : Timely(c) => Timely(c)'
  BY <1>3 DEF Timely
<1>5. \A r \in 1..n : tokens[r].state # "unwritten" => tokens'[r].state # "unwritten"
  BY <1>3
<1>6. ChainsLive'
  <2>1. ChainsLive /\ \A r \in 1..n : tokens[r].next \in {0} \cup 1..n
    BY <1>2 DEF Graceful, TypeInv, ChainsOK
  <2>2. tokens[w.new].next = 0
    BY <1>2, <2>1 DEF ChainsLive
  <2> QED BY <1>2, <1>3, <1>5, <2>1, <2>2 DEF ChainsLive
<1>7. \A q \in wire : Asked(q)'
  BY <1>4, <1>5 DEF Graceful, Asked, TypeInv, WireOK, RequestOK
<1>8. Rotations'
  <2>1. \A v \in writes' : /\ v \in writes /\ v.new # w.new /\ v.new \in 1..n /\ v.old \in 1..n
                           /\ v.new # w.old
    BY <1>1, <1>2 DEF TypeInv, WritesOK, Graceful, Rotations
  <2> QED BY <1>3, <1>5, <2>1 DEF Graceful, Rotations
<1> QED BY <1>1, <1>4, <1>6, <1>7, <1>8 DEF Graceful

LEMMA StoreGrace == ASSUME TypeInv, Graceful, Store PROVE Graceful'
<1>1. PICK q \in wire :
        /\ q.stage = "served"
        /\ jar' = IF q.ok THEN q.cookie ELSE jar
        /\ wire' = (wire \ {q}) \cup {[q EXCEPT !.stage = "stored"]}
        /\ UNCHANGED <<tokens, writes, past>>
  BY DEF Store
<1>2. Asked(q) /\ DOMAIN q = Fields
  BY DEF Graceful, TypeInv, WireOK, RequestOK
<1>3. Asked([q EXCEPT !.stage = "stored"])
  BY <1>2 DEF Asked, Fields
<1>4. Timely(jar')
  BY <1>1, <1>2 DEF Asked, Graceful
<1> QED BY <1>1, <1>3, <1>4, GraceStays

LEMMA LoseGrace == ASSUME TypeInv, Graceful, Lose, past'.alarm = past.alarm PROVE Graceful'
<1>1. PICK q \in wire, served \in BOOLEAN :
        wire' = (wire \ {q}) \cup {[q EXCEPT !.stage = "stored", !.ok = FALSE]}
                   \cup (IF served THEN {[q EXCEPT !.tab = None]} ELSE {})
  BY DEF Lose
<1>2. UNCHANGED <<jar, tokens, writes>>
  BY DEF Lose
<1>3. Asked(q) /\ DOMAIN q = Fields
  BY DEF Graceful, TypeInv, WireOK, RequestOK
<1>4. Asked([q EXCEPT !.stage = "stored", !.ok = FALSE]) /\ Asked([q EXCEPT !.tab = None])
  BY <1>3 DEF Asked, Fields
<1>5. \A o \in wire' : o \in wire \/ Asked(o)
  BY <1>1, <1>4
<1> QED BY <1>2, <1>5, GraceStays DEF Graceful

\* A minute that passes while nothing is under way finds the cookie live.
LEMMA MinuteGrace == ASSUME TypeInv, PastOK, Graceful, Minute, InTime' PROVE Graceful'
<1> DEFINE aged(r) == IF tokens[r].age < 2 THEN [tokens[r] EXCEPT !.age = @ + 1] ELSE tokens[r]
<1>1. /\ tokens' = [r \in DOMAIN tokens |-> aged(r)] /\ UNCHANGED <<jar, wire, writes>>
      /\ past'.alarm = past.alarm /\ wire = {} /\ writes = {} /\ tokens[jar].state = "live"
  BY DEF Minute, PastOK, InTime
<1>2. DOMAIN tokens = 1..Len(tokens) /\ Len(tokens) \in Nat /\ jar \in 1..Len(tokens)
  BY TokenAt DEF TypeInv, Graceful, Timely
<1>3. \A r \in DOMAIN tokens : /\ aged(r) \in Token /\ aged(r).next = tokens[r].next
                               /\ aged(r).state = tokens[r].state
  BY <1>2, TokenAt DEF Token, TypeInv
<1> HIDE DEF aged
<1>4. Len(tokens') = Len(tokens)
  BY <1>1, <1>3, TokensKeepPlaces DEF TypeInv
<1>5. \A r \in 1..Len(tokens) : tokens'[r].state = tokens[r].state /\ tokens'[r].next = tokens[r].next
  BY <1>1, <1>2, <1>3
<1>6. ChainsLive'
  BY <1>2, <1>4, <1>5 DEF Graceful, ChainsLive, TypeInv, ChainsOK
<1>7. Timely(jar)'
  BY <1>1, <1>2, <1>4, <1>5 DEF Timely
<1> QED BY <1>1, <1>6, <1>7 DEF Graceful, Rotations

LEMMA TabGrace ==
    ASSUME TypeInv, Graceful, NEW t \in Tabs, past'.alarm = past.alarm,
           TakeTurn(t) \/ Continue(t) \/ Hear(t) \/ Load(t) \/ Close(t)
    PROVE  Graceful'
<1>1. CASE TakeTurn(t)
  <2>1. \A q \in wire' : q \in wire \/ Asked(q)
    <3>1. CASE wire' = wire
      BY <3>1
    <3>2. CASE wire' = Sent(t, "refresh")
      <4>1. PICK n : wire' = wire \cup {[n |-> n, tab |-> t, what |-> "refresh", cookie |-> jar,
                                         target |-> 0, stage |-> "sent", ok |-> FALSE]}
        BY <3>2 DEF Sent
      <4> QED BY <4>1 DEF Graceful, Asked
    <3> QED BY <1>1, <3>1, <3>2 DEF TakeTurn
  <2> QED BY <1>1, <2>1, GraceStays DEF TakeTurn, Graceful
<1>2. CASE Continue(t)
  <2>1. PICK q \in wire : CASE q.what = "refresh" -> RefreshDone(t, q)
                            [] q.what = "logout" -> LogoutDone(t, q)
    BY <1>2 DEF Continue
  <2>2. RefreshDone(t, q)
    BY <2>1 DEF Graceful, Asked
  <2> QED BY <1>2, <2>2, GraceStays DEF Continue, RefreshDone, Graceful
<1>3. CASE Hear(t)
  <2>1. CASE wire' = wire
    BY <1>3, <2>1, GraceStays DEF Hear, Graceful
  <2>2. CASE Leave(t, NoToken)
    BY <1>3, <2>2, LeaveGrace DEF Hear
  <2> QED BY <1>3, <2>1, <2>2 DEF Hear
<1>4. CASE Load(t)
  BY <1>4, LeaveGrace DEF Load
<1>5. CASE Close(t)
  BY <1>5, LeaveGrace DEF Close
<1> QED BY <1>1, <1>2, <1>3, <1>4, <1>5

LEMMA InitGrace == Init => GraceInv
<1> SUFFICES ASSUME Init PROVE GraceInv
  OBVIOUS
<1>1. /\ tokens = <<[state |-> "live", next |-> 0, age |-> 0]>> /\ jar = 1 /\ wire = {} /\ writes = {}
      /\ past = [lost |-> FALSE, out |-> FALSE, late |-> FALSE, alarm |-> FALSE]
  BY DEF Init, NewToken
<1> QED BY <1>1, InitShape DEF GraceInv, PastOK, Graceful, ChainsLive, Timely, Rotations

LEMMA NextGrace == GraceInv /\ [Next]_vars => GraceInv'
<1> SUFFICES ASSUME GraceInv, [Next]_vars PROVE GraceInv'
  OBVIOUS
<1>1. TypeInv /\ TypeInv' /\ PastOK
  BY NextShape DEF GraceInv
<1>2. CASE UNCHANGED vars
  BY <1>1, <1>2, GraceStays DEF vars, GraceInv, PastOK, InTime, Graceful
<1>3. CASE Read
  <2>1. PastOK' /\ (InTime' => InTime)
    BY <1>1, <1>3 DEF Read, Refuse, Alarm, PastOK, InTime
  <2> QED BY <1>1, <1>3, <2>1, ReadGrace DEF GraceInv
<1>4. CASE Write \/ Commit \/ Store
  <2>1. past' = past
    BY <1>4 DEF Write, Commit, Store
  <2> QED BY <1>1, <1>4, <2>1, WriteGrace, CommitGrace, StoreGrace DEF GraceInv, PastOK, InTime
<1>5. CASE ServeLogout
  <2>1. past' = past /\ ~(\A q \in wire : Asked(q))
    BY <1>5 DEF ServeLogout, Asked
  <2> QED BY <1>1, <2>1 DEF GraceInv, Graceful, PastOK, InTime
<1>6. CASE Lose
  <2>1. PastOK' /\ (InTime' => InTime) /\ past'.alarm = past.alarm
    BY <1>1, <1>6 DEF Lose, PastOK, InTime
  <2> QED BY <1>1, <1>6, <2>1, LoseGrace DEF GraceInv
<1>7. CASE Minute
  <2>1. PastOK' /\ (InTime' => InTime)
    BY <1>1, <1>7 DEF Minute, PastOK, InTime
  <2> QED BY <1>1, <1>7, <2>1, MinuteGrace DEF GraceInv
<1>8. ASSUME NEW t \in Tabs, TakeTurn(t) \/ Continue(t) \/ Hear(t) \/ Load(t) \/ Close(t)
      PROVE GraceInv'
  <2>1. PastOK' /\ (InTime' => InTime) /\ past'.alarm = past.alarm
    BY <1>1, <1>8 DEF TakeTurn, Continue, Hear, Load, Close, Leave, PastOK, InTime
  <2> QED BY <1>1, <1>8, <2>1, TabGrace DEF GraceInv
<1>9. ASSUME NEW t \in Tabs, TimerFires(t) \/ BecomesVisible(t) \/ Refused(t)
      PROVE GraceInv'
  <2>1. UNCHANGED <<jar, wire, tokens, writes, past>>
    BY <1>9 DEF TimerFires, BecomesVisible, Refused
  <2> QED BY <1>1, <2>1, GraceStays DEF GraceInv, PastOK, InTime, Graceful
<1>10. ASSUME NEW t \in Tabs, LogsOut(t)
       PROVE GraceInv'
  BY <1>1, <1>10 DEF LogsOut, GraceInv, PastOK, InTime
<1> QED BY <1>2, <1>3, <1>4, <1>5, <1>6, <1>7, <1>8, <1>9, <1>10 DEF Next

\* As long as nobody signs out and no minute passes over an unfinished refresh, the
\* chain of refresh tokens stays alive and no theft is detected, whichever answers
\* are lost, whichever pages are reloaded in the middle of a refresh, and however
\* many tabs refresh at once, with Web Locks or without them
\* (auth.py:152-156).
THEOREM GraceIsEnough == Spec => []GraceHolds
<1>1. GraceInv => GraceHolds
  BY GraceIsKept DEF GraceInv, InTime, GraceHolds
<1> QED BY <1>1, InitGrace, NextGrace, PTL DEF Spec
=============================================================================
