----------------------------- MODULE UrlPartsProofs -----------------------------
(******************************************************************************)
(* Theorems about URLParts::Parse and what Connect makes of its result, for   *)
(* urls over any tokens and of any length.                                    *)
(******************************************************************************)
EXTENDS MCConversions, WellFoundedInduction, SequenceTheorems, TLAPS

--------------------------------------------------------------------------------
(******************************************************************************)
(* std::string::find.                                                         *)
(******************************************************************************)
Less == {ss \in Nat \X Nat : ss[1] < ss[2]}

LEMMA LessWellFounded == IsWellFoundedOn(Less, Nat)
  BY NatLessThanWellFounded DEF Less, OpToRel

LEMMA MinIsLeast ==
  ASSUME NEW H, H \subseteq Nat, H # {}
  PROVE  Min(H) \in H /\ \A y \in H : Min(H) <= y
<1>1. PICK x \in H : \A y \in H : ~(<<y, x>> \in Less)
  BY LessWellFounded, WFMin
<1>2. ASSUME NEW y \in H PROVE x <= y
  <2>1. y \in Nat /\ x \in Nat /\ <<y, x>> \in Nat \X Nat
    OBVIOUS
  <2>2. ~(y < x)
    BY <1>1, <2>1 DEF Less
  <2> QED
    BY <2>1, <2>2
<1>3. \E z \in H : \A y \in H : z <= y
  BY <1>2
<1> QED
  BY <1>3 DEF Min

Hit(s, pattern, i) == SubSeq(s, i, i + Len(pattern) - 1) = pattern

\* Find returns the first hit, or npos when there is none.
LEMMA FindIsFirst ==
  ASSUME NEW T, NEW s \in Seq(T), NEW U, NEW pattern \in Seq(U)
  PROVE  LET m == Find(s, pattern, 1)
             places == 1..(Len(s) - Len(pattern) + 1)
         IN  \/ m = npos /\ \A i \in places : ~Hit(s, pattern, i)
             \/ /\ m \in places /\ Hit(s, pattern, m)
                /\ \A i \in 1..(m - 1) : ~Hit(s, pattern, i)
<1> DEFINE m == Find(s, pattern, 1)
           places == 1..(Len(s) - Len(pattern) + 1)
           hits == {i \in places : Hit(s, pattern, i)}
<1>1. Len(s) \in Nat /\ Len(pattern) \in Nat
  OBVIOUS
<1>2. m = IF hits = {} THEN npos ELSE Min(hits)
  BY DEF Find, Hit
<1>3. CASE hits = {}
  BY <1>2, <1>3
<1>4. CASE hits # {}
  <2>1. hits \subseteq Nat
    BY <1>1
  <2>2. m \in hits /\ \A y \in hits : m <= y
    BY <1>2, <1>4, <2>1, MinIsLeast
  <2>3. ASSUME NEW i \in 1..(m - 1) PROVE ~Hit(s, pattern, i)
    <3>1. i \in places /\ ~(m <= i)
      BY <1>1, <2>2
    <3> QED
      BY <2>2, <3>1
  <2> QED
    BY <2>2, <2>3
<1> QED
  BY <1>3, <1>4

\* The same for a single token.
LEMMA TokenHit ==
  ASSUME NEW T, NEW s \in Seq(T), NEW c, NEW i \in 1..Len(s)
  PROVE  Hit(s, <<c>>, i) <=> s[i] = c
<1>1. i \in Nat /\ i + Len(<<c>>) - 1 = i
  OBVIOUS
<1>2. Hit(s, <<c>>, i) <=> SubSeq(s, i, i) = <<c>>
  BY <1>1 DEF Hit
<1>3. SubSeq(s, i, i) \in Seq(T) /\ Len(SubSeq(s, i, i)) = 1 /\ SubSeq(s, i, i)[1] = s[i]
  OBVIOUS
<1>4. SubSeq(s, i, i) = <<s[i]>>
  <2>1. s[i] \in T
    OBVIOUS
  <2>2. <<s[i]>> \in Seq(T) /\ Len(<<s[i]>>) = 1 /\ <<s[i]>>[1] = s[i]
    BY <2>1
  <2>3. \A j \in 1..Len(SubSeq(s, i, i)) : SubSeq(s, i, i)[j] = <<s[i]>>[j]
    BY <1>3
  <2> QED
    BY <1>3, <2>2, <2>3, SeqEqual
<1> QED
  BY <1>2, <1>4

LEMMA FindToken ==
  ASSUME NEW T, NEW s \in Seq(T), NEW c
  PROVE  LET m == Find(s, <<c>>, 1)
         IN  \/ m = npos /\ \A i \in 1..Len(s) : s[i] # c
             \/ m \in 1..Len(s) /\ s[m] = c /\ \A i \in 1..(m - 1) : s[i] # c
<1> DEFINE m == Find(s, <<c>>, 1)
<1>1. <<c>> \in Seq({c}) /\ Len(<<c>>) = 1 /\ Len(s) \in Nat
  OBVIOUS
<1>2. 1..(Len(s) - Len(<<c>>) + 1) = 1..Len(s)
  BY <1>1
<1>3. \/ m = npos /\ \A i \in 1..Len(s) : ~Hit(s, <<c>>, i)
      \/ /\ m \in 1..Len(s) /\ Hit(s, <<c>>, m)
         /\ \A i \in 1..(m - 1) : ~Hit(s, <<c>>, i)
  BY <1>1, <1>2, FindIsFirst
<1> HIDE DEF m
<1>4. m \in 1..Len(s) => \A i \in 1..(m - 1) : i \in 1..Len(s)
  BY <1>1
<1>5. \/ m = npos /\ \A i \in 1..Len(s) : s[i] # c
      \/ m \in 1..Len(s) /\ s[m] = c /\ \A i \in 1..(m - 1) : s[i] # c
  BY <1>3, <1>4, TokenHit
<1> QED
  BY <1>5 DEF m

\* A text is what is in front of a place and what is from there on.
LEMMA CutAt ==
  ASSUME NEW T, NEW s \in Seq(T), NEW m \in 1..(Len(s) + 1)
  PROVE  /\ Before(s, m) \in Seq(T) /\ From(s, m) \in Seq(T)
         /\ s = Before(s, m) \o From(s, m)
         /\ m <= Len(s) => From(s, m) = <<s[m]>> \o From(s, m + 1)
<1>1. Len(s) \in Nat /\ m \in Nat
  OBVIOUS
<1>2. Before(s, m) \in Seq(T) /\ From(s, m) \in Seq(T)
  BY <1>1 DEF Before, From
<1>3. SubSeq(s, 1, m - 1) \o SubSeq(s, (m - 1) + 1, Len(s)) = SubSeq(s, 1, Len(s))
  <2>1. /\ 1 \in 1..Len(s) + 1 /\ m - 1 \in 1 - 1..Len(s)
        /\ Len(s) \in m - 1..Len(s)
    BY <1>1
  <2> QED
    BY <2>1, ConcatAdjacentSubSeq, Zenon
<1>4. SubSeq(s, 1, Len(s)) = s /\ (m - 1) + 1 = m
  BY <1>1, SubSeqFull
<1>5. s = Before(s, m) \o From(s, m)
  BY <1>3, <1>4, Zenon DEF Before, From
<1>6. m <= Len(s) => From(s, m) = <<s[m]>> \o From(s, m + 1)
  BY <1>1, SubSeqRecursiveFirst DEF From
<1> QED
  BY <1>2, <1>5, <1>6

\* The cut of two texts put together gives them back.
LEMMA JoinCut ==
  ASSUME NEW T, NEW a \in Seq(T), NEW b \in Seq(T)
  PROVE  LET s == a \o b
             n == Len(a) + 1
         IN  Before(s, n) = a /\ From(s, n) = b
<1> DEFINE s == a \o b
           n == Len(a) + 1
<1>1. /\ s \in Seq(T) /\ Len(s) = Len(a) + Len(b)
      /\ \A i \in 1..(Len(a) + Len(b)) :
            s[i] = IF i <= Len(a) THEN a[i] ELSE b[i - Len(a)]
  BY ConcatProperties
<1> HIDE DEF s
<1>2. Len(a) \in Nat /\ Len(b) \in Nat
  OBVIOUS
<1>3. \A i \in 1..Len(a) : s[i] = a[i]
  BY <1>1, <1>2
<1>4. ASSUME NEW i \in 1..Len(b) PROVE s[Len(a) + i] = b[i]
  <2>1. /\ Len(a) + i \in 1..(Len(a) + Len(b)) /\ ~(Len(a) + i <= Len(a))
        /\ (Len(a) + i) - Len(a) = i
    BY <1>2
  <2> QED
    BY <1>1, <2>1
<1>5. Before(s, n) = a
  <2>1. /\ Before(s, n) \in Seq(T) /\ Len(Before(s, n)) = Len(a)
        /\ \A i \in 1..Len(a) : Before(s, n)[i] = s[i]
    BY <1>1, <1>2 DEF Before
  <2>2. Len(Before(s, n)) = Len(a) /\ \A i \in 1..Len(Before(s, n)) : Before(s, n)[i] = a[i]
    BY <1>3, <2>1
  <2> QED
    BY <2>1, <2>2, SeqEqual, Zenon
<1>6. From(s, n) = b
  <2>1. /\ From(s, n) \in Seq(T) /\ Len(From(s, n)) = Len(b)
        /\ \A i \in 1..Len(b) : From(s, n)[i] = s[Len(a) + i]
    BY <1>1, <1>2 DEF From
  <2>2. Len(From(s, n)) = Len(b) /\ \A i \in 1..Len(From(s, n)) : From(s, n)[i] = b[i]
    BY <1>4, <2>1
  <2> QED
    BY <2>1, <2>2, SeqEqual, Zenon
<1> QED
  BY <1>5, <1>6 DEF s

\* The first c of a text ends what is free of it.
LEMMA CutAfter ==
  ASSUME NEW T, NEW a \in Seq(T), NEW b \in Seq(T), NEW c \in T, Free(a, {c})
  PROVE  LET s == a \o (<<c>> \o b)
             n == Len(a) + 1
         IN  /\ Find(s, <<c>>, 1) = n /\ n # npos
             /\ Before(s, n) = a /\ From(s, n) = <<c>> \o b /\ From(s, n + 1) = b
<1> DEFINE n == Len(a) + 1
           cb == <<c>> \o b
           s == a \o cb
<1>1. /\ Len(a) \in Nat /\ Len(b) \in Nat /\ <<c>> \in Seq(T) /\ Len(<<c>>) = 1
      /\ <<c>>[1] = c
  OBVIOUS
<1>2. /\ cb \in Seq(T) /\ Len(cb) = 1 + Len(b)
      /\ \A i \in 1..(1 + Len(b)) : cb[i] = IF i <= 1 THEN <<c>>[i] ELSE b[i - 1]
  BY <1>1, ConcatProperties
<1> HIDE DEF cb
<1>3. /\ s \in Seq(T) /\ Len(s) = Len(a) + Len(cb)
      /\ \A i \in 1..(Len(a) + Len(cb)) :
            s[i] = IF i <= Len(a) THEN a[i] ELSE cb[i - Len(a)]
  BY <1>2, ConcatProperties
<1> HIDE DEF s
<1>4. n \in 1..Len(s) /\ s[n] = c /\ \A i \in 1..Len(a) : s[i] # c
  <2>1. n \in 1..Len(s) /\ s[n] = c
    BY <1>1, <1>2, <1>3, SMTT(30)
  <2>2. \A i \in 1..Len(a) : s[i] = a[i]
    BY <1>1, <1>2, <1>3
  <2>3. \A i \in 1..Len(a) : a[i] # c
    BY DEF Free
  <2> QED
    BY <2>1, <2>2, <2>3
<1>5. Find(s, <<c>>, 1) = n
  <2> DEFINE m == Find(s, <<c>>, 1)
  <2>0. s \in Seq(T)
    BY <1>3
  <2>1. \/ m = npos /\ \A i \in 1..Len(s) : s[i] # c
        \/ m \in 1..Len(s) /\ s[m] = c /\ \A i \in 1..(m - 1) : s[i] # c
    BY <2>0, FindToken
  <2> HIDE DEF m
  <2>2. m \in 1..Len(s) /\ s[m] = c /\ \A i \in 1..(m - 1) : s[i] # c
    BY <1>4, <2>1
  <2>3. m \notin 1..Len(a) /\ n \notin 1..(m - 1)
    BY <1>4, <2>2
  <2>4. m = n
    BY <1>1, <2>2, <2>3
  <2> QED
    BY <2>4 DEF m
<1>6. Before(s, n) = a /\ From(s, n) = cb
  BY <1>2, JoinCut DEF s
<1>7. From(s, n + 1) = b
  <2> DEFINE ac == a \o <<c>>
  <2>1. ac \in Seq(T) /\ Len(ac) = n
    BY <1>1, ConcatProperties
  <2>2. ac \o b = s
    BY <1>1, ConcatAssociative DEF s, cb
  <2> HIDE DEF ac
  <2>3. From(ac \o b, Len(ac) + 1) = b
    BY <2>1, JoinCut
  <2> QED
    BY <2>1, <2>2, <2>3
<1> QED
  <2>1. n # npos
    BY <1>1 DEF npos
  <2>2. /\ Find(s, <<c>>, 1) = n /\ n # npos
        /\ Before(s, n) = a /\ From(s, n) = cb /\ From(s, n + 1) = b
    BY <1>5, <1>6, <1>7, <2>1
  <2> QED
    BY <2>2 DEF cb, s

--------------------------------------------------------------------------------
(******************************************************************************)
(* Parse loses nothing.                                                       *)
(******************************************************************************)

\* A url's text as Compositions writes it, and as Parse takes it apart.
Written(a, u, h, c, p) == a \o SchemeEnd \o u \o h \o c \o p
Taken(a, u, h, c, p) == a \o (SchemeEnd \o ((u \o (h \o c)) \o p))

LEMMA WrittenIsTaken ==
  \A T, a, u, h, c, p :
    (/\ SchemeEnd \in Seq(T) /\ a \in Seq(T) /\ u \in Seq(T)
     /\ h \in Seq(T) /\ c \in Seq(T) /\ p \in Seq(T)) =>
    Written(a, u, h, c, p) = Taken(a, u, h, c, p)
<1>0. SUFFICES ASSUME NEW T, NEW a, NEW u, NEW h, NEW c, NEW p,
                      /\ SchemeEnd \in Seq(T) /\ a \in Seq(T) /\ u \in Seq(T)
                      /\ h \in Seq(T) /\ c \in Seq(T) /\ p \in Seq(T)
               PROVE  Written(a, u, h, c, p) = Taken(a, u, h, c, p)
  BY Zenon
<1> DEFINE ae == a \o SchemeEnd
           aeu == ae \o u
           hc == h \o c
           uhc == u \o hc
           uhcp == uhc \o p
<1>1. ae \in Seq(T) /\ hc \in Seq(T)
  BY <1>0, ConcatProperties
<1> HIDE DEF ae, hc
<1>2. aeu \in Seq(T) /\ uhc \in Seq(T)
  BY <1>0, <1>1, ConcatProperties
<1> HIDE DEF aeu, uhc
<1>3. uhcp \in Seq(T)
  BY <1>0, <1>2, ConcatProperties
<1> HIDE DEF uhcp
<1>4. h \in Seq(T) /\ c \in Seq(T)
  BY <1>0
<1>5. (aeu \o h) \o c = aeu \o hc
  BY <1>2, <1>4, ConcatAssociative, SMTT(30) DEF hc
<1>6. u \in Seq(T) /\ p \in Seq(T)
  BY <1>0
<1>7. aeu \o hc = ae \o uhc
  BY <1>1, <1>6, ConcatAssociative, SMTT(30) DEF aeu, uhc
<1>8. (ae \o uhc) \o p = ae \o uhcp
  BY <1>1, <1>2, <1>6, ConcatAssociative, SMTT(30) DEF uhcp
<1>9. a \in Seq(T) /\ SchemeEnd \in Seq(T)
  BY <1>0
<1>10. ae \o uhcp = a \o (SchemeEnd \o uhcp)
  BY <1>3, <1>9, ConcatAssociative DEF ae
<1>11. ((aeu \o h) \o c) \o p = a \o (SchemeEnd \o uhcp)
  BY <1>5, <1>7, <1>8, <1>10, Zenon
<1> QED
  BY <1>11, Zenon DEF Written, Taken, ae, aeu, hc, uhc, uhcp

LEMMA CompositionsWritten ==
  ASSUME NEW p
  PROVE  Compositions(p) =
           {Written(p.scheme, u, p.host, c, p.path_query_fragment) :
               u \in Optional(p.user_pass, p.user_pass \o <<"@">>),
               c \in Optional(p.port, <<":">> \o p.port)}
  BY DEF Compositions, Written

LEMMA IsComposition ==
  ASSUME NEW p, NEW u \in Optional(p.user_pass, p.user_pass \o <<"@">>),
         NEW c \in Optional(p.port, <<":">> \o p.port)
  PROVE  Written(p.scheme, u, p.host, c, p.path_query_fragment) \in Compositions(p)
  BY CompositionsWritten

\* From the place of a token on: the token, and what Parse goes on with.
LEMMA CutOut ==
  ASSUME NEW T, NEW s \in Seq(T), NEW c, Find(s, <<c>>, 1) # npos
  PROVE  LET m == Find(s, <<c>>, 1)
         IN  /\ Before(s, m) \in Seq(T) /\ From(s, m) \in Seq(T)
             /\ From(s, m + 1) \in Seq(T)
             /\ s = Before(s, m) \o From(s, m)
             /\ s = Before(s, m) \o (<<c>> \o From(s, m + 1))
<1> DEFINE m == Find(s, <<c>>, 1)
<1>1. m \in 1..Len(s) /\ s[m] = c
  BY FindToken
<1> HIDE DEF m
<1>2. m \in 1..(Len(s) + 1) /\ m + 1 \in 1..(Len(s) + 1) /\ m <= Len(s) /\ Len(s) \in Nat
  BY <1>1
<1>3. /\ Before(s, m) \in Seq(T) /\ From(s, m) \in Seq(T) /\ From(s, m + 1) \in Seq(T)
      /\ From(s, m) = <<s[m]>> \o From(s, m + 1)
      /\ s = Before(s, m) \o From(s, m)
  BY <1>2, CutAt
<1>4. s = Before(s, m) \o (<<c>> \o From(s, m + 1))
  BY <1>1, <1>3, Zenon
<1> QED
  BY <1>1, <1>3, <1>4, Zenon DEF m

LEMMA PathSplit ==
  ASSUME NEW T, NEW rest \in Seq(T)
  PROVE  LET q == SplitPath(rest)
         IN  q[1] \in Seq(T) /\ q[2] \in Seq(T) /\ rest = q[1] \o q[2]
<1>1. CASE Find(rest, <<"/">>, 1) = npos
  <2>1. SplitPath(rest)[1] = rest /\ SplitPath(rest)[2] = <<>>
    BY <1>1 DEF SplitPath
  <2>2. rest \o <<>> = rest /\ <<>> \in Seq(T)
    BY ConcatEmptySeq
  <2> QED
    BY <2>1, <2>2
<1>2. CASE Find(rest, <<"/">>, 1) # npos
  <2> DEFINE m == Find(rest, <<"/">>, 1)
             a == Before(rest, m)
             b == From(rest, m)
  <2>1. SplitPath(rest)[1] = a /\ SplitPath(rest)[2] = b
    BY <1>2 DEF SplitPath
  <2>2. a \in Seq(T) /\ b \in Seq(T) /\ rest = a \o b
    BY <1>2, CutOut, ZenonT(40)
  <2> QED
    BY <2>1, <2>2, Zenon
<1> QED
  BY <1>1, <1>2

LEMMA UserPassSplit ==
  ASSUME NEW T, NEW authority \in Seq(T), "@" \in T
  PROVE  LET q == SplitUserPass(authority)
         IN  /\ q[1] \in Seq(T) /\ q[2] \in Seq(T)
             /\ \E u \in Optional(q[1], q[1] \o <<"@">>) :
                   u \in Seq(T) /\ authority = u \o q[2]
<1>1. CASE Find(authority, <<"@">>, 1) = npos
  <2>1. SplitUserPass(authority)[1] = <<>> /\ SplitUserPass(authority)[2] = authority
    BY <1>1 DEF SplitUserPass
  <2>2. <<>> \o authority = authority /\ <<>> \in Seq(T)
    BY ConcatEmptySeq
  <2>3. <<>> \in Optional(<<>>, <<>> \o <<"@">>)
    BY DEF Optional
  <2> QED
    BY <2>1, <2>2, <2>3, Zenon
<1>2. CASE Find(authority, <<"@">>, 1) # npos
  <2> DEFINE m == Find(authority, <<"@">>, 1)
             up == Before(authority, m)
             hp == From(authority, m + 1)
  <2>1. SplitUserPass(authority)[1] = up /\ SplitUserPass(authority)[2] = hp
    BY <1>2 DEF SplitUserPass
  <2>2. /\ up \in Seq(T) /\ hp \in Seq(T)
        /\ authority = up \o (<<"@">> \o hp)
    BY <1>2, CutOut, ZenonT(40)
  <2> HIDE DEF up, hp
  <2>3. <<"@">> \in Seq(T)
    OBVIOUS
  <2>4. up \o <<"@">> \in Seq(T)
    BY <2>2, <2>3, ConcatProperties
  <2>5. (up \o <<"@">>) \o hp = up \o (<<"@">> \o hp)
    BY <2>2, <2>3, ConcatAssociative
  <2>6. up \o <<"@">> \in Optional(up, up \o <<"@">>)
    BY DEF Optional
  <2>7. \E u \in Optional(up, up \o <<"@">>) : u \in Seq(T) /\ authority = u \o hp
    BY <2>2, <2>4, <2>5, <2>6
  <2> QED
    BY <2>1, <2>2, <2>7, Zenon
<1> QED
  BY <1>1, <1>2

LEMMA PortSplit ==
  ASSUME NEW T, NEW host_port \in Seq(T), ":" \in T
  PROVE  LET q == SplitPort(host_port)
         IN  /\ q[1] \in Seq(T) /\ q[2] \in Seq(T)
             /\ \E c \in Optional(q[2], <<":">> \o q[2]) :
                   c \in Seq(T) /\ host_port = q[1] \o c
<1>1. CASE Find(host_port, <<":">>, 1) = npos
  <2>1. SplitPort(host_port)[1] = host_port /\ SplitPort(host_port)[2] = <<>>
    BY <1>1 DEF SplitPort
  <2>2. host_port \o <<>> = host_port /\ <<>> \in Seq(T)
    BY ConcatEmptySeq
  <2>3. <<>> \in Optional(<<>>, <<":">> \o <<>>)
    BY DEF Optional
  <2> QED
    BY <2>1, <2>2, <2>3, Zenon
<1>2. CASE Find(host_port, <<":">>, 1) # npos
  <2> DEFINE m == Find(host_port, <<":">>, 1)
             host == Before(host_port, m)
             port == From(host_port, m + 1)
  <2>1. SplitPort(host_port)[1] = host /\ SplitPort(host_port)[2] = port
    BY <1>2 DEF SplitPort
  <2>2. /\ host \in Seq(T) /\ port \in Seq(T)
        /\ host_port = host \o (<<":">> \o port)
    BY <1>2, CutOut, ZenonT(40)
  <2> HIDE DEF host, port
  <2>3. <<":">> \in Seq(T)
    OBVIOUS
  <2>4. <<":">> \o port \in Seq(T)
    BY <2>2, <2>3, ConcatProperties
  <2>5. <<":">> \o port \in Optional(port, <<":">> \o port)
    BY DEF Optional
  <2>6. \E c \in Optional(port, <<":">> \o port) : c \in Seq(T) /\ host_port = host \o c
    BY <2>2, <2>4, <2>5
  <2> QED
    BY <2>1, <2>2, <2>6, Zenon
<1> QED
  BY <1>1, <1>2

LEMMA NothingIsLost ==
  ASSUME NEW T, {":", "/", "@"} \subseteq T, NEW text \in Seq(T), Parses(text)
  PROVE  text \in Compositions(Parse(text))
<1> DEFINE n == Find(text, SchemeEnd, 1)
           a == Before(text, n)
           rest == From(text, n + 3)
           q == SplitPath(rest)
           r == SplitUserPass(q[1])
           t == SplitPort(r[2])
<1>1. SchemeEnd \in Seq(T) /\ Len(SchemeEnd) = 3
  BY DEF SchemeEnd
<1>2. n \in 1..(Len(text) - 2) /\ Hit(text, SchemeEnd, n) /\ Len(text) \in Nat
  <2>1. n # npos
    BY DEF Parses
  <2>2. \/ n = npos
        \/ n \in 1..(Len(text) - Len(SchemeEnd) + 1) /\ Hit(text, SchemeEnd, n)
    BY <1>1, FindIsFirst
  <2> HIDE DEF n
  <2>3. Len(text) \in Nat /\ Len(text) - 3 + 1 = Len(text) - 2
    OBVIOUS
  <2> QED
    BY <1>1, <2>1, <2>2, <2>3
<1> HIDE DEF n
<1>3. /\ n \in 1..(Len(text) + 1) /\ n + 3 \in 1..(Len(text) + 1)
      /\ n \in Nat /\ (n + 2) + 1 = n + 3
  BY <1>2
<1>4. /\ a \in Seq(T) /\ From(text, n) \in Seq(T) /\ rest \in Seq(T)
      /\ text = a \o From(text, n)
  BY <1>3, CutAt
<1>5. From(text, n) = SchemeEnd \o rest
  <2>1. SubSeq(text, n, n + 2) = SchemeEnd
    BY <1>1, <1>2, <1>3 DEF Hit
  <2>2. /\ n \in 1..Len(text) + 1 /\ n + 2 \in n - 1..Len(text)
        /\ Len(text) \in n + 2..Len(text)
    BY <1>2
  <2>3. SubSeq(text, n, n + 2) \o SubSeq(text, (n + 2) + 1, Len(text))
           = SubSeq(text, n, Len(text))
    BY <2>2, ConcatAdjacentSubSeq
  <2> QED
    BY <1>3, <2>1, <2>3 DEF From
<1> HIDE DEF a, rest
<1>6. q[1] \in Seq(T) /\ q[2] \in Seq(T) /\ rest = q[1] \o q[2]
  BY <1>4, PathSplit
<1> HIDE DEF q
<1>7. /\ r[1] \in Seq(T) /\ r[2] \in Seq(T)
      /\ \E u \in Optional(r[1], r[1] \o <<"@">>) : u \in Seq(T) /\ q[1] = u \o r[2]
  BY <1>6, UserPassSplit
<1> HIDE DEF r
<1>8. /\ t[1] \in Seq(T) /\ t[2] \in Seq(T)
      /\ \E c \in Optional(t[2], <<":">> \o t[2]) : c \in Seq(T) /\ r[2] = t[1] \o c
  BY <1>7, PortSplit
<1> HIDE DEF t
<1>9. PICK u \in Optional(r[1], r[1] \o <<"@">>) : u \in Seq(T) /\ q[1] = u \o r[2]
  BY <1>7
<1>10. PICK c \in Optional(t[2], <<":">> \o t[2]) : c \in Seq(T) /\ r[2] = t[1] \o c
  BY <1>8
<1>11. text = Taken(a, u, t[1], c, q[2])
  BY <1>4, <1>5, <1>6, <1>9, <1>10, Zenon DEF Taken
<1>12. Written(a, u, t[1], c, q[2]) = Taken(a, u, t[1], c, q[2])
  BY <1>1, <1>4, <1>6, <1>8, <1>9, <1>10, WrittenIsTaken
<1>13. Parse(text) = [scheme |-> a, user_pass |-> r[1], host |-> t[1],
                      port |-> t[2], path_query_fragment |-> q[2]]
  BY Zenon DEF Parse, n, a, rest, q, r, t
<1>14. Written(a, u, t[1], c, q[2]) \in Compositions(Parse(text))
  <2> DEFINE p == Parse(text)
  <2>1. /\ p.scheme = a /\ p.user_pass = r[1] /\ p.host = t[1] /\ p.port = t[2]
        /\ p.path_query_fragment = q[2]
    BY <1>13
  <2> HIDE DEF p
  <2>2. /\ u \in Optional(p.user_pass, p.user_pass \o <<"@">>)
        /\ c \in Optional(p.port, <<":">> \o p.port)
    BY <2>1, Zenon
  <2>3. Written(p.scheme, u, p.host, c, p.path_query_fragment) \in Compositions(p)
    BY <2>2, IsComposition
  <2>4. Written(a, u, t[1], c, q[2]) \in Compositions(p)
    BY <2>1, <2>3
  <2> QED
    BY <2>4 DEF p
<1> QED
  BY <1>11, <1>12, <1>14

--------------------------------------------------------------------------------
(******************************************************************************)
(* What Connect reads in a url of the grammar.                                *)
(******************************************************************************)

LEMMA FindNone ==
  ASSUME NEW T, NEW s \in Seq(T), NEW c, Free(s, {c})
  PROVE  Find(s, <<c>>, 1) = npos
<1>1. \A i \in 1..Len(s) : s[i] # c
  BY DEF Free
<1> QED
  BY <1>1, FindToken

LEMMA FreeJoin ==
  ASSUME NEW T, NEW a \in Seq(T), NEW b \in Seq(T), NEW c, Free(a, {c}), Free(b, {c})
  PROVE  a \o b \in Seq(T) /\ Free(a \o b, {c})
<1> DEFINE s == a \o b
<1>1. /\ s \in Seq(T) /\ Len(s) = Len(a) + Len(b)
      /\ \A i \in 1..(Len(a) + Len(b)) :
            s[i] = IF i <= Len(a) THEN a[i] ELSE b[i - Len(a)]
  BY ConcatProperties
<1> HIDE DEF s
<1>2. Len(a) \in Nat /\ Len(b) \in Nat
  OBVIOUS
<1>3. (\A i \in 1..Len(a) : a[i] # c) /\ (\A i \in 1..Len(b) : b[i] # c)
  BY DEF Free
<1>4. ASSUME NEW i \in 1..Len(s) PROVE s[i] # c
  <2>1. CASE i <= Len(a)
    BY <1>1, <1>2, <1>3, <2>1, SMTT(30)
  <2>2. CASE ~(i <= Len(a))
    <3>1. i - Len(a) \in 1..Len(b) /\ s[i] = b[i - Len(a)]
      BY <1>1, <1>2, <2>2
    <3> QED
      BY <1>3, <3>1
  <2> QED
    BY <2>1, <2>2
<1>5. Free(s, {c})
  <2>1. DOMAIN s = 1..Len(s)
    BY <1>1
  <2> QED
    BY <1>4, <2>1 DEF Free
<1> QED
  BY <1>1, <1>5 DEF s

LEMMA SchemeHit ==
  ASSUME NEW T, NEW s \in Seq(T), NEW i \in 1..(Len(s) - 2)
  PROVE  Hit(s, SchemeEnd, i) <=> s[i] = ":" /\ s[i + 1] = "/" /\ s[i + 2] = "/"
<1> DEFINE w == SubSeq(s, i, i + 2)
<1>1. Len(s) \in Nat /\ i \in Nat /\ Len(SchemeEnd) = 3 /\ i + 3 - 1 = i + 2
  BY DEF SchemeEnd
<1>2. /\ w \in Seq(T) /\ Len(w) = 3
      /\ w[1] = s[i] /\ w[2] = s[i + 1] /\ w[3] = s[i + 2]
  <2>1. w \in Seq(T) /\ Len(w) = 3
    BY <1>1
  <2>2. \A j \in 1..3 : w[j] = s[i + j - 1]
    BY <1>1
  <2>3. i + 1 - 1 = i /\ i + 2 - 1 = i + 1 /\ i + 3 - 1 = i + 2
    BY <1>1
  <2> HIDE DEF w
  <2>4. w[1] = s[i + 1 - 1] /\ w[2] = s[i + 2 - 1] /\ w[3] = s[i + 3 - 1]
    BY <2>2
  <2> QED
    BY <2>1, <2>3, <2>4
<1>3. Hit(s, SchemeEnd, i) <=> w = SchemeEnd
  BY <1>1 DEF Hit
<1> HIDE DEF w
<1>4. SchemeEnd[1] = ":" /\ SchemeEnd[2] = "/" /\ SchemeEnd[3] = "/"
  BY DEF SchemeEnd
<1>5. w = <<w[1], w[2], w[3]>>
  BY <1>2
<1>6. w = SchemeEnd <=> w[1] = ":" /\ w[2] = "/" /\ w[3] = "/"
  BY <1>4, <1>5 DEF SchemeEnd
<1> QED
  BY <1>2, <1>3, <1>6

\* The first "://" of a url is the one after its scheme: no place in the scheme, and
\* none that overlaps the delimiter, comes first.
LEMMA SchemeCut ==
  ASSUME NEW T, SchemeEnd \in Seq(T), NEW a \in Seq(T), NEW r \in Seq(T),
         Find(a, SchemeEnd, 1) = npos
  PROVE  LET s == a \o (SchemeEnd \o r)
             n == Len(a) + 1
         IN  /\ Find(s, SchemeEnd, 1) = n /\ n # npos
             /\ Before(s, n) = a /\ From(s, n + 3) = r
<1> DEFINE er == SchemeEnd \o r
           s == a \o er
           n == Len(a) + 1
<1>1. Len(a) \in Nat /\ Len(r) \in Nat /\ Len(SchemeEnd) = 3
  BY DEF SchemeEnd
<1>2. SchemeEnd[1] = ":" /\ SchemeEnd[2] = "/" /\ SchemeEnd[3] = "/"
  BY DEF SchemeEnd
<1>3. /\ er \in Seq(T) /\ Len(er) = 3 + Len(r)
      /\ \A i \in 1..(3 + Len(r)) : er[i] = IF i <= 3 THEN SchemeEnd[i] ELSE r[i - 3]
  <2>1. /\ er \in Seq(T) /\ Len(er) = Len(SchemeEnd) + Len(r)
        /\ \A i \in 1..(Len(SchemeEnd) + Len(r)) :
              er[i] = IF i <= Len(SchemeEnd) THEN SchemeEnd[i] ELSE r[i - Len(SchemeEnd)]
    BY ConcatProperties
  <2> HIDE DEF er
  <2> QED
    BY <1>1, <2>1
<1> HIDE DEF er
<1>4. er[1] = ":" /\ er[2] = "/" /\ er[3] = "/"
  BY <1>1, <1>2, <1>3
<1>5. /\ s \in Seq(T) /\ Len(s) = Len(a) + Len(er)
      /\ \A i \in 1..(Len(a) + Len(er)) :
            s[i] = IF i <= Len(a) THEN a[i] ELSE er[i - Len(a)]
  BY <1>3, ConcatProperties
<1> HIDE DEF s
<1>6. /\ \A i \in 1..Len(a) : s[i] = a[i]
      /\ s[n] = ":" /\ s[n + 1] = "/" /\ s[n + 2] = "/"
      /\ n \in 1..(Len(s) - 2) /\ n \in Nat
  <2>1. /\ n \in 1..(Len(a) + Len(er)) /\ n + 1 \in 1..(Len(a) + Len(er))
        /\ n + 2 \in 1..(Len(a) + Len(er))
        /\ n - Len(a) = 1 /\ (n + 1) - Len(a) = 2 /\ (n + 2) - Len(a) = 3
        /\ ~(n <= Len(a)) /\ ~(n + 1 <= Len(a)) /\ ~(n + 2 <= Len(a))
    BY <1>1, <1>3
  <2>2. s[n] = er[1] /\ s[n + 1] = er[2] /\ s[n + 2] = er[3]
    BY <1>5, <2>1
  <2>3. \A i \in 1..Len(a) : s[i] = a[i]
    BY <1>1, <1>3, <1>5
  <2>4. n \in 1..(Len(s) - 2) /\ n \in Nat
    BY <1>1, <1>3, <1>5
  <2> QED
    BY <1>4, <2>2, <2>3, <2>4
<1>7. Hit(s, SchemeEnd, n)
  BY <1>5, <1>6, SchemeHit
<1>8. ASSUME NEW i \in 1..(n - 1) PROVE ~Hit(s, SchemeEnd, i)
  <2>1. i \in 1..Len(a) /\ i \in 1..(Len(s) - 2) /\ i \in Nat
    BY <1>1, <1>6
  <2>2. Hit(s, SchemeEnd, i) => s[i] = ":" /\ s[i + 1] = "/" /\ s[i + 2] = "/"
    BY <1>5, <2>1, SchemeHit
  <2>3. CASE i + 1 = n
    <3>1. s[i + 1] = ":"
      BY <1>6, <2>3
    <3> QED
      BY <2>2, <3>1
  <2>4. CASE i + 2 = n
    <3>1. s[i + 2] = ":"
      BY <1>6, <2>4
    <3> QED
      BY <2>2, <3>1
  <2>5. CASE i + 1 # n /\ i + 2 # n
    <3>1. /\ i \in 1..(Len(a) - 2) /\ i + 1 \in 1..Len(a) /\ i + 2 \in 1..Len(a)
          /\ 1..(Len(a) - Len(SchemeEnd) + 1) = 1..(Len(a) - 2)
      BY <1>1, <2>1, <2>5
    <3>2. Find(a, SchemeEnd, 1) = npos
            /\ \A k \in 1..(Len(a) - Len(SchemeEnd) + 1) : ~Hit(a, SchemeEnd, k)
      <4>1. npos \notin 1..(Len(a) - Len(SchemeEnd) + 1)
        BY <1>1 DEF npos
      <4> QED
        BY <4>1, FindIsFirst
    <3>3. ~Hit(a, SchemeEnd, i)
      BY <3>1, <3>2
    <3>4. ~(a[i] = ":" /\ a[i + 1] = "/" /\ a[i + 2] = "/")
      BY <3>1, <3>3, SchemeHit
    <3>5. s[i] = a[i] /\ s[i + 1] = a[i + 1] /\ s[i + 2] = a[i + 2]
      BY <1>6, <2>1, <3>1
    <3> QED
      BY <2>2, <3>4, <3>5
  <2> QED
    BY <2>3, <2>4, <2>5
<1>9. Find(s, SchemeEnd, 1) = n
  <2> DEFINE m == Find(s, SchemeEnd, 1)
  <2>1. s \in Seq(T) /\ Len(s) \in Nat /\ Len(s) - Len(SchemeEnd) + 1 = Len(s) - 2
    BY <1>1, <1>5
  <2>2. \/ m = npos /\ \A i \in 1..(Len(s) - 2) : ~Hit(s, SchemeEnd, i)
        \/ /\ m \in 1..(Len(s) - 2) /\ Hit(s, SchemeEnd, m)
           /\ \A i \in 1..(m - 1) : ~Hit(s, SchemeEnd, i)
    BY <2>1, FindIsFirst
  <2> HIDE DEF m
  <2>3. /\ m \in 1..(Len(s) - 2) /\ Hit(s, SchemeEnd, m)
        /\ \A i \in 1..(m - 1) : ~Hit(s, SchemeEnd, i)
    BY <1>6, <1>7, <2>2
  <2>4. m \notin 1..(n - 1) /\ n \notin 1..(m - 1)
    BY <1>7, <1>8, <2>3
  <2>5. m = n
    BY <1>6, <2>1, <2>3, <2>4
  <2> QED
    BY <2>5 DEF m
<1>10. Before(s, n) = a
  BY <1>3, JoinCut DEF s
<1>11. From(s, n + 3) = r
  <2> DEFINE ae == a \o SchemeEnd
  <2>1. ae \in Seq(T) /\ Len(ae) = Len(a) + Len(SchemeEnd)
    BY ConcatProperties
  <2>2. ae \o r = s
    BY ConcatAssociative DEF s, er
  <2> HIDE DEF ae
  <2>3. Len(ae) + 1 = n + 3
    BY <1>1, <2>1
  <2>4. From(ae \o r, Len(ae) + 1) = r
    BY <2>1, JoinCut
  <2> QED
    BY <2>2, <2>3, <2>4
<1> QED
  <2>1. n # npos
    BY <1>1 DEF npos
  <2>2. /\ Find(s, SchemeEnd, 1) = n /\ n # npos
        /\ Before(s, n) = a /\ From(s, n + 3) = r
    BY <1>9, <1>10, <1>11, <2>1
  <2> QED
    BY <2>2 DEF er, s

\* What the three splits make of the parts of an authority and of a path.
LEMMA PathRead ==
  ASSUME NEW T, NEW authority \in Seq(T), NEW p \in Seq(T), Free(authority, {"/"}),
         p # <<>> => p[1] = "/"
  PROVE  LET q == SplitPath(authority \o p) IN q[1] = authority /\ q[2] = p
<1>1. CASE p = <<>>
  <2>1. authority \o <<>> = authority
    BY ConcatEmptySeq
  <2>2. Find(authority, <<"/">>, 1) = npos
    BY FindNone
  <2>3. SplitPath(authority)[1] = authority /\ SplitPath(authority)[2] = <<>>
    BY <2>2 DEF SplitPath
  <2> QED
    BY <1>1, <2>1, <2>3, Zenon
<1>2. CASE p # <<>>
  <2> DEFINE b == Tail(p)
             s == authority \o p
             n == Len(authority) + 1
  <2>1. b \in Seq(T) /\ p = <<p[1]>> \o b /\ p[1] \in T
    BY <1>2
  <2>2. p = <<"/">> \o b /\ "/" \in T
    BY <1>2, <2>1
  <2> HIDE DEF b
  <2>3. Find(authority \o (<<"/">> \o b), <<"/">>, 1) = n /\ n # npos
    BY <2>1, <2>2, CutAfter
  <2>4. Before(s, n) = authority /\ From(s, n) = p
    BY JoinCut
  <2>5. Find(s, <<"/">>, 1) = n
    BY <2>2, <2>3, Zenon
  <2> HIDE DEF s, n
  <2>6. SplitPath(s)[1] = authority /\ SplitPath(s)[2] = p
    BY <2>3, <2>4, <2>5 DEF SplitPath
  <2> QED
    BY <2>6 DEF s
<1> QED
  BY <1>1, <1>2

LEMMA UserPassRead ==
  ASSUME NEW T, "@" \in T, NEW up \in Seq(T), NEW hp \in Seq(T),
         Free(up, {"@"}), Free(hp, {"@"}), NEW u \in Optional(up, up \o <<"@">>)
  PROVE  LET q == SplitUserPass(u \o hp) IN q[1] = up /\ q[2] = hp
<1>1. CASE u = <<>> /\ up = <<>>
  <2>1. <<>> \o hp = hp
    BY ConcatEmptySeq
  <2>2. Find(hp, <<"@">>, 1) = npos
    BY FindNone
  <2>3. SplitUserPass(hp)[1] = <<>> /\ SplitUserPass(hp)[2] = hp
    BY <2>2 DEF SplitUserPass
  <2> QED
    BY <1>1, <2>1, <2>3, Zenon
<1>2. CASE u = up \o <<"@">>
  <2> DEFINE s == up \o (<<"@">> \o hp)
             n == Len(up) + 1
  <2>1. /\ Find(s, <<"@">>, 1) = n /\ n # npos
        /\ Before(s, n) = up /\ From(s, n + 1) = hp
    BY CutAfter, SMTT(30)
  <2>2. <<"@">> \in Seq(T)
    OBVIOUS
  <2>3. (up \o <<"@">>) \o hp = s
    BY <2>2, ConcatAssociative
  <2> HIDE DEF s, n
  <2>4. SplitUserPass(s)[1] = up /\ SplitUserPass(s)[2] = hp
    BY <2>1 DEF SplitUserPass
  <2> QED
    BY <1>2, <2>3, <2>4, Zenon
<1> QED
  BY <1>1, <1>2 DEF Optional

LEMMA PortRead ==
  ASSUME NEW T, ":" \in T, NEW host \in Seq(T), NEW port \in Seq(T),
         Free(host, {":"}), NEW c \in Optional(port, <<":">> \o port)
  PROVE  LET q == SplitPort(host \o c) IN q[1] = host /\ q[2] = port
<1>1. CASE c = <<>> /\ port = <<>>
  <2>1. host \o <<>> = host
    BY ConcatEmptySeq
  <2>2. Find(host, <<":">>, 1) = npos
    BY FindNone
  <2>3. SplitPort(host)[1] = host /\ SplitPort(host)[2] = <<>>
    BY <2>2 DEF SplitPort
  <2> QED
    BY <1>1, <2>1, <2>3, Zenon
<1>2. CASE c = <<":">> \o port
  <2> DEFINE s == host \o (<<":">> \o port)
             n == Len(host) + 1
  <2>1. /\ Find(s, <<":">>, 1) = n /\ n # npos
        /\ Before(s, n) = host /\ From(s, n + 1) = port
    BY CutAfter, SMTT(30)
  <2> HIDE DEF s, n
  <2>2. SplitPort(s)[1] = host /\ SplitPort(s)[2] = port
    BY <2>1 DEF SplitPort
  <2> QED
    BY <1>2, <2>2, Zenon DEF s
<1> QED
  BY <1>1, <1>2 DEF Optional

\* Parse gives back the parts a url of the grammar was written from.
LEMMA ParseReadsGrammar ==
  ASSUME NEW T, {":", "/", "@"} \subseteq T,
         NEW p, p.scheme \in Seq(T), p.user_pass \in Seq(T), p.host \in Seq(T),
         p.port \in Seq(T), p.path_query_fragment \in Seq(T),
         Grammatical(p), NEW text \in Compositions(p)
  PROVE  /\ Parses(text) /\ Parse(text).scheme = p.scheme
         /\ Parse(text).host = p.host /\ Parse(text).port = p.port
         /\ Parse(text).path_query_fragment = p.path_query_fragment
<1> DEFINE a == p.scheme
           up == p.user_pass
           h == p.host
           d == p.port
           pq == p.path_query_fragment
<1>1. /\ a \in Seq(T) /\ up \in Seq(T) /\ h \in Seq(T) /\ d \in Seq(T) /\ pq \in Seq(T)
      /\ SchemeEnd \in Seq(T) /\ <<"@">> \in Seq(T) /\ <<":">> \in Seq(T)
  BY DEF SchemeEnd
<1>2. /\ Find(a, SchemeEnd, 1) = npos
      /\ Free(up, {"/"}) /\ Free(up, {"@"})
      /\ Free(h, {"/"}) /\ Free(h, {"@"}) /\ Free(h, {":"})
      /\ Free(d, {"/"}) /\ Free(d, {"@"})
      /\ pq # <<>> => pq[1] = "/"
  BY DEF Grammatical, Free
<1>3. PICK u \in Optional(up, up \o <<"@">>), c \in Optional(d, <<":">> \o d) :
         text = Written(a, u, h, c, pq)
  BY CompositionsWritten
<1> HIDE DEF a, up, h, d, pq
<1>4. u \in Seq(T) /\ Free(u, {"/"})
  <2>1. Free(<<"@">>, {"/"}) /\ Free(<<>>, {"/"}) /\ <<>> \in Seq(T)
    BY DEF Free
  <2>2. up \o <<"@">> \in Seq(T) /\ Free(up \o <<"@">>, {"/"})
    BY <1>1, <1>2, <2>1, FreeJoin
  <2>3. u = <<>> \/ u = up \o <<"@">>
    BY DEF Optional
  <2> QED
    BY <2>1, <2>2, <2>3
<1>5. c \in Seq(T) /\ Free(c, {"/"}) /\ Free(c, {"@"})
  <2>1. /\ Free(<<":">>, {"/"}) /\ Free(<<>>, {"/"}) /\ <<>> \in Seq(T)
        /\ Free(<<":">>, {"@"}) /\ Free(<<>>, {"@"})
    BY DEF Free
  <2>2. <<":">> \o d \in Seq(T) /\ Free(<<":">> \o d, {"/"})
    BY <1>1, <1>2, <2>1, FreeJoin
  <2>3. Free(<<":">> \o d, {"@"})
    BY <1>1, <1>2, <2>1, FreeJoin
  <2>4. c = <<>> \/ c = <<":">> \o d
    BY DEF Optional
  <2> QED
    BY <2>1, <2>2, <2>3, <2>4
<1> DEFINE hp == h \o c
           authority == u \o hp
           rest == authority \o pq
           n == Len(a) + 1
<1>6. hp \in Seq(T) /\ Free(hp, {"/"}) /\ Free(hp, {"@"})
  BY <1>1, <1>2, <1>5, FreeJoin
<1>7. SplitPort(hp)[1] = h /\ SplitPort(hp)[2] = d
  BY <1>1, <1>2, PortRead
<1> HIDE DEF hp
<1>8. authority \in Seq(T) /\ Free(authority, {"/"})
  BY <1>4, <1>6, FreeJoin
<1>9. SplitUserPass(authority)[1] = up /\ SplitUserPass(authority)[2] = hp
  BY <1>1, <1>2, <1>6, UserPassRead
<1> HIDE DEF authority
<1>10. SplitPath(rest)[1] = authority /\ SplitPath(rest)[2] = pq
  BY <1>1, <1>2, <1>8, PathRead
<1>11. rest \in Seq(T)
  BY <1>1, <1>8, ConcatProperties
<1>12. text = a \o (SchemeEnd \o rest)
  <2>1. text = Taken(a, u, h, c, pq)
    BY <1>1, <1>3, <1>4, <1>5, WrittenIsTaken
  <2> QED
    BY <2>1, Zenon DEF Taken, authority, hp
<1> HIDE DEF rest
<1>13. /\ Find(text, SchemeEnd, 1) = n /\ n # npos
       /\ Before(text, n) = a /\ From(text, n + 3) = rest
  BY <1>1, <1>2, <1>11, <1>12, SchemeCut
<1> HIDE DEF n
<1>14. Parse(text) = [scheme |-> a, user_pass |-> up, host |-> h, port |-> d,
                      path_query_fragment |-> pq]
  BY <1>7, <1>9, <1>10, <1>13, Zenon DEF Parse
<1>15. Parses(text)
  BY <1>13 DEF Parses
<1> QED
  BY <1>14, <1>15 DEF a, up, h, d, pq

--------------------------------------------------------------------------------
(******************************************************************************)
(* The theorems.                                                              *)
(******************************************************************************)
PartNames == {"scheme", "user_pass", "host", "port", "path_query_fragment"}

TextInv ==
    /\ url \in Seq(Tokens)
    /\ parts \in [PartNames -> Seq(Tokens)]
    /\ Grammatical(parts)

\* A url is a text, and the parts one is written from stay grammatical.
LEMMA TextInvariance == Spec => []TextInv
<1>1. Init => TextInv
  <2> SUFFICES ASSUME Init PROVE TextInv
    OBVIOUS
  <2>1. <<>> \in Seq(Tokens)
    OBVIOUS
  <2>2. /\ parts \in [PartNames -> Seq(Tokens)]
        /\ parts.scheme = <<>> /\ parts.user_pass = <<>> /\ parts.host = <<>>
        /\ parts.port = <<>> /\ parts.path_query_fragment = <<>>
    BY <2>1 DEF Init, NoParts, PartNames
  <2>3. Find(<<>>, SchemeEnd, 1) = npos
    <3>1. /\ <<>> \in Seq({}) /\ Len(<<>>) = 0
          /\ SchemeEnd \in Seq({":", "/"}) /\ Len(SchemeEnd) = 3
      BY DEF SchemeEnd
    <3>2. 1..(Len(<<>>) - Len(SchemeEnd) + 1) = {}
      BY <3>1
    <3> QED
      BY <3>1, <3>2, FindIsFirst
  <2>4. Free(<<>>, {"/", "@"}) /\ Free(<<>>, {"/", "@", ":"})
    BY DEF Free
  <2>5. Grammatical(parts)
    BY <2>2, <2>3, <2>4, Zenon DEF Grammatical
  <2> QED
    BY <2>1, <2>2, <2>5 DEF Init, TextInv
<1>2. TextInv /\ [Next]_vars => TextInv'
  <2> SUFFICES ASSUME TextInv, [Next]_vars PROVE TextInv'
    OBVIOUS
  <2>1. CASE TypeUrl
    BY <2>1 DEF TypeUrl, TextInv
  <2>2. CASE WriteParts
    <3>1. PICK f \in DOMAIN parts, token \in Tokens :
             parts' = [parts EXCEPT ![f] = Append(@, token)]
      BY <2>2 DEF WriteParts
    <3>2. parts' \in [PartNames -> Seq(Tokens)]
      BY <3>1 DEF TextInv
    <3> QED
      BY <2>2, <3>2 DEF WriteParts, TextInv
  <2>3. CASE Transfer
    BY <2>3 DEF Transfer, TextInv
  <2>4. CASE UNCHANGED vars
    BY <2>4 DEF vars, TextInv
  <2> QED
    BY <2>1, <2>2, <2>3, <2>4 DEF Next
<1> QED
  BY <1>1, <1>2, PTL DEF Spec

\* URLParts::Parse loses nothing of any text it accepts, of any length and over any
\* characters, grammatical or not (src/url_parts.h).
THEOREM ParseLosesNothing == Spec => []NothingLost
<1>1. TextInv => NothingLost
  <2> SUFFICES ASSUME TextInv, Parses(url) PROVE url \in Compositions(Parse(url))
    BY DEF NothingLost
  <2> DEFINE T == Tokens \cup {":", "/", "@"}
  <2>1. url \in Seq(T) /\ {":", "/", "@"} \subseteq T
    BY DEF TextInv
  <2> HIDE DEF T
  <2> QED
    BY <2>1, NothingIsLost
<1> QED
  BY <1>1, TextInvariance, PTL

\* Connect refuses every scheme but wss and otherwise resolves the host and the port
\* that were written, 443 for none, and asks for the path: for every url of the grammar
\* in the comment of URLParts::Parse, of any length and over any characters.
THEOREM ConnectReadsGrammar == Spec => []ConnectsAsWritten
<1>1. TextInv => ConnectsAsWritten
  <2> SUFFICES ASSUME TextInv, NEW text \in Compositions(parts)
               PROVE  /\ Connects(text) <=> parts.scheme = <<"wss">>
                      /\ Connects(text) =>
                           Connect(text) =
                             [host |-> parts.host,
                              port |-> IF parts.port = <<>> THEN <<"443">> ELSE parts.port,
                              target |-> parts.path_query_fragment]
    BY Zenon DEF ConnectsAsWritten
  <2> DEFINE T == Tokens \cup {":", "/", "@"}
  <2>1. /\ {":", "/", "@"} \subseteq T /\ Grammatical(parts)
        /\ parts.scheme \in Seq(T) /\ parts.user_pass \in Seq(T) /\ parts.host \in Seq(T)
        /\ parts.port \in Seq(T) /\ parts.path_query_fragment \in Seq(T)
    <3>1. \A s \in Seq(Tokens) : s \in Seq(T)
      OBVIOUS
    <3> QED
      BY <3>1 DEF TextInv, PartNames
  <2> HIDE DEF T
  <2>2. /\ Parses(text) /\ Parse(text).scheme = parts.scheme
        /\ Parse(text).host = parts.host /\ Parse(text).port = parts.port
        /\ Parse(text).path_query_fragment = parts.path_query_fragment
    BY <2>1, ParseReadsGrammar
  <2> QED
    BY <2>2, Zenon DEF Connects, Connect, PortOf
<1> QED
  BY <1>1, TextInvariance, PTL

=================================================================================
