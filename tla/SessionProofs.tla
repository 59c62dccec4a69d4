---------------------------- MODULE SessionProofs -----------------------------
(***************************************************************************)
(* The sessions of the server, for any number of questions, any number of  *)
(* turns an entry keeps and any number of failing calls of Redis.          *)
(***************************************************************************)
EXTENDS SessionStore, InductionLemmas

-----------------------------------------------------------------------------
(* The session in the two stores (SessionStore)                            *)

MessageRow == [role : {"user", "assistant"}, turn : Ask \union {OldTurn}]

RowsOf(turns) == {m \in MessageRow : m.turn \in turns}

\* What a query for the rows of some turns returns: rows of theirs,
LEMMA OfTurnsType ==
    ASSUME NEW X, NEW rows \in Seq(X), NEW turns
    PROVE  OfTurns(rows, turns) \in Seq({m \in X : m.turn \in turns})
<1> DEFINE Y == {m \in X : m.turn \in turns}
           r == [i \in DOMAIN rows |-> IF rows[i].turn \in turns THEN <<rows[i]>> ELSE <<>>]
<1>1. Len(rows) \in Nat /\ DOMAIN rows = 1 .. Len(rows) /\ \A i \in 1 .. Len(rows) : rows[i] \in X
  OBVIOUS
<1>2. \A i \in 1 .. Len(rows) :
         (IF rows[i].turn \in turns THEN <<rows[i]>> ELSE <<>>) \in Seq(Y)
  <2> SUFFICES ASSUME NEW i \in 1 .. Len(rows)
               PROVE  (IF rows[i].turn \in turns THEN <<rows[i]>> ELSE <<>>) \in Seq(Y)
    OBVIOUS
  <2>1. CASE rows[i].turn \in turns
    <3>1. rows[i] \in Y
      BY <1>1, <2>1
    <3> HIDE DEF Y
    <3>2. <<rows[i]>> \in Seq(Y)
      BY <3>1
    <3> QED BY <2>1, <3>2
  <2>2. CASE rows[i].turn \notin turns
    BY <2>2
  <2> QED BY <2>1, <2>2
<1>3. r \in Seq(Seq(Y))
  <2> HIDE DEF Y
  <2> QED BY <1>1, <1>2, IsASeq
<1>4. OfTurns(rows, turns) = FlattenSeq(r)
  BY DEF OfTurns
<1> HIDE DEF Y, r
<1>5. FlattenSeq(r) \in Seq(Y)
  BY <1>3, FlattenType
<1> QED BY <1>4, <1>5 DEF Y

\* all of them when no other rows are stored,
LEMMA OfTurnsAll ==
    ASSUME NEW turns, NEW rows \in Seq(RowsOf(turns))
    PROVE  OfTurns(rows, turns) = rows
<1> DEFINE r == [i \in DOMAIN rows |-> IF rows[i].turn \in turns THEN <<rows[i]>> ELSE <<>>]
<1>1. \A i \in DOMAIN rows : rows[i].turn \in turns
  BY DEF RowsOf
<1>2. r = [i \in DOMAIN rows |-> <<rows[i]>>]
  BY <1>1
<1>3. OfTurns(rows, turns) = FlattenSeq(r)
  BY DEF OfTurns
<1> HIDE DEF r
<1> QED BY <1>2, <1>3, FlattenUnits

\* and a row that is added at the end, or not.
LEMMA OfTurnsAppend ==
    ASSUME NEW rows \in Seq(MessageRow), NEW m \in MessageRow, NEW turns
    PROVE  OfTurns(Append(rows, m), turns)
              = OfTurns(rows, turns) \o (IF m.turn \in turns THEN <<m>> ELSE <<>>)
<1> DEFINE Piece1(x) == IF x.turn \in turns THEN <<x>> ELSE <<>>
           more == Append(rows, m)
           r == [i \in DOMAIN rows |-> Piece1(rows[i])]
           q == [i \in DOMAIN more |-> Piece1(more[i])]
           last == Piece1(m)
<1>1. \A x \in MessageRow : Piece1(x) \in Seq(MessageRow)
  <2> SUFFICES ASSUME NEW x \in MessageRow PROVE Piece1(x) \in Seq(MessageRow)
    OBVIOUS
  <2>1. <<x>> \in Seq(MessageRow) /\ <<>> \in Seq(MessageRow)
    OBVIOUS
  <2> QED BY <2>1
<1>2. OfTurns(rows, turns) = FlattenSeq(r) /\ OfTurns(more, turns) = FlattenSeq(q)
  BY DEF OfTurns
<1>3. last = IF m.turn \in turns THEN <<m>> ELSE <<>>
  OBVIOUS
<1> HIDE DEF Piece1
<1>4. /\ Len(rows) \in Nat /\ DOMAIN rows = 1 .. Len(rows)
      /\ more \in Seq(MessageRow) /\ Len(more) = Len(rows) + 1 /\ DOMAIN more = 1 .. Len(rows) + 1
      /\ \A i \in 1 .. Len(rows) : more[i] = rows[i]
      /\ more[Len(rows) + 1] = m
  BY AppendProperties
<1> HIDE DEF more
<1>5. /\ r \in Seq(Seq(MessageRow)) /\ Len(r) = Len(rows)
      /\ \A i \in 1 .. Len(rows) : r[i] = Piece1(rows[i])
  <2>1. \A i \in 1 .. Len(rows) : rows[i] \in MessageRow
    OBVIOUS
  <2>2. \A i \in 1 .. Len(rows) : Piece1(rows[i]) \in Seq(MessageRow)
    BY <1>1, <2>1
  <2>3. r = [i \in 1 .. Len(rows) |-> Piece1(rows[i])]
    BY <1>4
  <2>4. r \in Seq(Seq(MessageRow))
    <3> HIDE DEF r
    <3> QED BY <1>4, <2>2, <2>3, IsASeq
  <2>5. Len(r) = Len(rows)
    <3>1. DOMAIN r = 1 .. Len(rows)
      BY <1>4
    <3> HIDE DEF r
    <3> QED BY <1>4, <2>4, <3>1
  <2> QED BY <1>4, <2>4, <2>5
<1>6. last \in Seq(MessageRow) /\ <<last>> \in Seq(Seq(MessageRow)) /\ last = Piece1(m)
  <2>1. last \in Seq(MessageRow)
    BY <1>1
  <2> HIDE DEF last
  <2>2. <<last>> \in Seq(Seq(MessageRow))
    BY <2>1
  <2> QED BY <2>1, <2>2 DEF last
<1> HIDE DEF r, last
<1>7. q = r \o <<last>>
  <2>1. q = [i \in 1 .. Len(rows) + 1 |-> Piece1(more[i])]
    BY <1>4
  <2> HIDE DEF q
  <2>2. /\ r \o <<last>> \in Seq(Seq(MessageRow)) /\ Len(r \o <<last>>) = Len(rows) + 1
        /\ \A i \in 1 .. Len(rows) : (r \o <<last>>)[i] = r[i]
        /\ (r \o <<last>>)[Len(rows) + 1] = last
    <3>1. Len(<<last>>) = 1 /\ <<last>>[1] = last /\ 1 \in 1 .. 1
      OBVIOUS
    <3> QED BY <1>5, <1>6, <3>1, ConcatParts
  <2>3. \A i \in 1 .. Len(rows) + 1 : (r \o <<last>>)[i] = Piece1(more[i])
    <3> SUFFICES ASSUME NEW i \in 1 .. Len(rows) + 1 PROVE (r \o <<last>>)[i] = Piece1(more[i])
      OBVIOUS
    <3>1. CASE i = Len(rows) + 1
      BY <1>4, <1>6, <2>2, <3>1
    <3>2. CASE i # Len(rows) + 1
      <4>1. i \in 1 .. Len(rows)
        BY <1>4, <3>2
      <4>2. (r \o <<last>>)[i] = r[i]
        BY <2>2, <4>1
      <4>3. r[i] = Piece1(rows[i]) /\ more[i] = rows[i]
        BY <1>4, <1>5, <4>1
      <4> QED BY <4>2, <4>3
    <3> QED BY <3>1, <3>2
  <2> DEFINE s == r \o <<last>>
  <2>4. s = [i \in 1 .. Len(rows) + 1 |-> s[i]]
    <3>1. s \in Seq(Seq(MessageRow)) /\ Len(s) = Len(rows) + 1
      BY <2>2
    <3> HIDE DEF s
    <3> QED BY <3>1
  <2>5. \A i \in 1 .. Len(rows) + 1 : s[i] = Piece1(more[i])
    BY <2>3
  <2> HIDE DEF s
  <2>6. s = q
    BY <2>1, <2>4, <2>5
  <2> QED BY <2>6 DEF s
<1> HIDE DEF q
<1>8. FlattenSeq(q) = FlattenSeq(r) \o FlattenSeq(<<last>>)
  BY <1>5, <1>6, <1>7, FlattenConcat
<1>9. FlattenSeq(<<last>>) = last
  BY <1>6, FlattenOne
<1> QED BY <1>2, <1>3, <1>8, <1>9 DEF more

\* What rebuildTurns has read of the rows, row by row.
NothingRead == [query |-> NoAsk, turns |-> <<>>]

Reading(f, rows) ==
    f = [i \in 0 .. Len(rows) |->
            IF i = 0 THEN NothingRead ELSE ReadRow(f[i - 1], rows[i])]

ReadOf(rows) == (CHOOSE f : Reading(f, rows))[Len(rows)]

LEMMA ReadingExists ==
    ASSUME NEW rows, Len(rows) \in Nat
    PROVE  \E f : Reading(f, rows)
<1> DEFINE Makes(f, k) ==
              f = [i \in 0 .. k |-> IF i = 0 THEN NothingRead ELSE ReadRow(f[i - 1], rows[i])]
           S == {k \in Nat : \E f : Makes(f, k)}
<1>1. 0 \in S
  <2> DEFINE f == [i \in 0 .. 0 |-> NothingRead]
  <2>1. f = [i \in 0 .. 0 |-> IF i = 0 THEN NothingRead ELSE ReadRow(f[i - 1], rows[i])]
    OBVIOUS
  <2>2. Makes(f, 0)
    BY <2>1
  <2> QED BY <2>2
<1>2. ASSUME NEW k \in Nat, k \in S PROVE k + 1 \in S
  <2>1. PICK f : Makes(f, k)
    BY <1>2
  <2>2. \A i \in 0 .. k : f[i] = IF i = 0 THEN NothingRead ELSE ReadRow(f[i - 1], rows[i])
    <3>1. f = [i \in 0 .. k |-> IF i = 0 THEN NothingRead ELSE ReadRow(f[i - 1], rows[i])]
      BY <2>1
    <3> QED BY <3>1
  <2> DEFINE g == [i \in 0 .. k + 1 |-> IF i <= k THEN f[i] ELSE ReadRow(f[k], rows[i])]
  <2>3. ASSUME NEW i \in 0 .. k + 1
        PROVE  g[i] = IF i = 0 THEN NothingRead ELSE ReadRow(g[i - 1], rows[i])
    <3>1. CASE i <= k
      <4>1. i \in 0 .. k /\ g[i] = f[i]
        BY <3>1
      <4>2. i # 0 => g[i - 1] = f[i - 1]
        BY <4>1
      <4> QED BY <2>2, <4>1, <4>2
    <3>2. CASE ~(i <= k)
      <4>1. i = k + 1 /\ i # 0 /\ i - 1 = k
        BY <3>2
      <4>2. g[i] = ReadRow(f[k], rows[i]) /\ g[k] = f[k]
        BY <3>2, <4>1
      <4> QED BY <4>1, <4>2
    <3> QED BY <3>1, <3>2
  <2>4. g = [i \in 0 .. k + 1 |-> IF i = 0 THEN NothingRead ELSE ReadRow(g[i - 1], rows[i])]
    BY <2>3
  <2>5. Makes(g, k + 1)
    BY <2>4
  <2> HIDE DEF g, Makes
  <2> QED BY <2>5
<1>3. Len(rows) \in S
  <2> HIDE DEF S
  <2> QED BY <1>1, <1>2, NatSetInduction
<1> QED BY <1>3 DEF Reading

LEMMA ReadingIs ==
    ASSUME NEW rows, Len(rows) \in Nat
    PROVE  \E f : /\ \A i \in 0 .. Len(rows) :
                        f[i] = IF i = 0 THEN NothingRead ELSE ReadRow(f[i - 1], rows[i])
                  /\ ReadOf(rows) = f[Len(rows)]
                  /\ RebuildTurns(rows) = f[Len(rows)].turns
<1> DEFINE f == CHOOSE f : Reading(f, rows)
<1>1. Reading(f, rows)
  BY ReadingExists
<1>2. ReadOf(rows) = f[Len(rows)]
  BY DEF ReadOf
<1>3. RebuildTurns(rows) = f[Len(rows)].turns
  BY DEF RebuildTurns, Reading, NothingRead
<1> HIDE DEF f
<1>4. \A i \in 0 .. Len(rows) :
         f[i] = IF i = 0 THEN NothingRead ELSE ReadRow(f[i - 1], rows[i])
  <2>1. f = [i \in 0 .. Len(rows) |->
               IF i = 0 THEN NothingRead ELSE ReadRow(f[i - 1], rows[i])]
    BY <1>1 DEF Reading
  <2> QED BY <2>1
<1> QED BY <1>2, <1>3, <1>4

LEMMA ReadNothing == ReadOf(<<>>) = NothingRead /\ RebuildTurns(<<>>) = <<>>
<1>1. Len(<<>>) = 0
  OBVIOUS
<1>2. PICK f : /\ \A i \in 0 .. 0 : f[i] = IF i = 0 THEN NothingRead
                                           ELSE ReadRow(f[i - 1], <<>>[i])
               /\ ReadOf(<<>>) = f[0] /\ RebuildTurns(<<>>) = f[0].turns
  BY <1>1, ReadingIs
<1>3. f[0] = NothingRead
  BY <1>2
<1> QED BY <1>2, <1>3 DEF NothingRead

\* A row more is one step more.
LEMMA ReadOneMore ==
    ASSUME NEW rows \in Seq(MessageRow), NEW m \in MessageRow
    PROVE  ReadOf(Append(rows, m)) = ReadRow(ReadOf(rows), m)
<1> DEFINE more == Append(rows, m)
           n == Len(rows)
<1>1. n \in Nat /\ Len(more) = n + 1 /\ more[n + 1] = m /\ \A i \in 1 .. n : more[i] = rows[i]
  BY AppendProperties
<1> HIDE DEF more
<1>2. PICK f : /\ \A i \in 0 .. n : f[i] = IF i = 0 THEN NothingRead ELSE ReadRow(f[i - 1], rows[i])
               /\ ReadOf(rows) = f[n]
  BY <1>1, ReadingIs
<1>3. PICK g : /\ \A i \in 0 .. n + 1 :
                     g[i] = IF i = 0 THEN NothingRead ELSE ReadRow(g[i - 1], more[i])
               /\ ReadOf(more) = g[n + 1]
  BY <1>1, ReadingIs
<1> HIDE DEF n
<1> DEFINE S == {i \in Nat : i <= n => f[i] = g[i]}
<1>4. 0 \in S
  <2>1. 0 \in 0 .. n /\ 0 \in 0 .. n + 1
    BY <1>1
  <2>2. f[0] = NothingRead /\ g[0] = NothingRead
    BY <1>2, <1>3, <2>1
  <2> QED BY <2>2
<1>5. ASSUME NEW i \in Nat, i \in S PROVE i + 1 \in S
  <2>1. CASE i + 1 <= n
    <3>1. i + 1 \in 1 .. n /\ i + 1 \in 0 .. n /\ i + 1 \in 0 .. n + 1 /\ i + 1 # 0 /\ (i + 1) - 1 = i /\ i <= n
      BY <1>1, <2>1
    <3>2. f[i + 1] = ReadRow(f[i], rows[i + 1]) /\ g[i + 1] = ReadRow(g[i], more[i + 1])
      BY <1>2, <1>3, <3>1
    <3>3. f[i] = g[i] /\ rows[i + 1] = more[i + 1]
      BY <1>1, <1>5, <3>1
    <3>4. f[i + 1] = g[i + 1]
      BY <3>2, <3>3
    <3> QED BY <3>1, <3>4
  <2>2. CASE ~(i + 1 <= n)
    BY <2>2
  <2> QED BY <2>1, <2>2
<1>6. n \in S
  <2> HIDE DEF S
  <2> QED BY <1>1, <1>4, <1>5, NatSetInduction
<1>7. f[n] = g[n]
  BY <1>1, <1>6
<1>8. g[n + 1] = ReadRow(g[n], more[n + 1])
  <2>1. n + 1 \in 0 .. n + 1 /\ n + 1 # 0 /\ (n + 1) - 1 = n
    BY <1>1
  <2> QED BY <1>3, <2>1
<1> QED BY <1>1, <1>2, <1>3, <1>7, <1>8 DEF more

\* It reads turns of two known questions.
ReadState == [query : Ask \union {OldTurn, NoAsk}, turns : Seq(CachedTurn)]

LEMMA ReadType ==
    ASSUME NEW rows \in Seq(MessageRow)
    PROVE  /\ ReadOf(rows) \in ReadState /\ RebuildTurns(rows) = ReadOf(rows).turns
           /\ RebuildTurns(rows) \in Seq(CachedTurn)
<1> DEFINE n == Len(rows)
<1>1. n \in Nat /\ \A i \in 1 .. n : rows[i] \in MessageRow
  OBVIOUS
<1>2. PICK f : /\ \A i \in 0 .. n : f[i] = IF i = 0 THEN NothingRead ELSE ReadRow(f[i - 1], rows[i])
               /\ ReadOf(rows) = f[n] /\ RebuildTurns(rows) = f[n].turns
  BY <1>1, ReadingIs
<1> HIDE DEF n
<1> DEFINE S == {i \in Nat : i <= n => f[i] \in ReadState}
<1>3. 0 \in S
  <2>1. f[0] = NothingRead
    BY <1>1, <1>2
  <2>2. NothingRead \in ReadState
    BY DEF NothingRead, ReadState
  <2> QED BY <2>1, <2>2
<1>4. ASSUME NEW a \in ReadState, NEW m \in MessageRow PROVE ReadRow(a, m) \in ReadState
  <2>1. /\ a.query \in Ask \union {OldTurn, NoAsk} /\ a.turns \in Seq(CachedTurn)
        /\ m.turn \in Ask \union {OldTurn}
    BY DEF ReadState, MessageRow
  <2>2. CASE m.role = "user"
    BY <2>1, <2>2 DEF ReadRow, ReadState
  <2>3. CASE m.role # "user" /\ a.query = NoAsk
    BY <2>3 DEF ReadRow
  <2>4. CASE m.role # "user" /\ a.query # NoAsk
    <3>1. <<a.query, m.turn>> \in CachedTurn
      BY <2>1, <2>4 DEF CachedTurn
    <3>2. Append(a.turns, <<a.query, m.turn>>) \in Seq(CachedTurn)
      BY <2>1, <3>1, AppendProperties
    <3>3. ReadRow(a, m) = [query |-> NoAsk, turns |-> Append(a.turns, <<a.query, m.turn>>)]
      BY <2>4 DEF ReadRow
    <3> QED BY <3>2, <3>3 DEF ReadState
  <2> QED BY <2>2, <2>3, <2>4
<1>5. ASSUME NEW i \in Nat, i \in S PROVE i + 1 \in S
  <2>1. CASE i + 1 <= n
    <3>1. i + 1 \in 1 .. n /\ i + 1 \in 0 .. n /\ i + 1 # 0 /\ (i + 1) - 1 = i /\ i <= n
      BY <1>1, <2>1
    <3>2. f[i + 1] = ReadRow(f[i], rows[i + 1])
      BY <1>2, <3>1
    <3>3. f[i + 1] \in ReadState
      BY <1>1, <1>4, <1>5, <3>1, <3>2
    <3> QED BY <3>1, <3>3
  <2>2. CASE ~(i + 1 <= n)
    BY <2>2
  <2> QED BY <2>1, <2>2
<1>6. n \in S
  <2> HIDE DEF S
  <2> QED BY <1>1, <1>3, <1>5, NatSetInduction
<1>7. ReadOf(rows) \in ReadState
  BY <1>1, <1>2, <1>6
<1>8. ReadOf(rows).turns \in Seq(CachedTurn)
  BY <1>7 DEF ReadState
<1> QED BY <1>2, <1>7, <1>8

\* A question with its answer at the end is a turn more, whatever rows a broken
\* append has left before (rebuildTurns of rag-service).
THEOREM RebuildsTheLastTurn ==
    ASSUME SessionAssumption, NEW rows \in Seq(MessageRow), NEW r \in Ask \union {OldTurn}
    PROVE  RebuildTurns(rows \o <<Said("user", r), Said("assistant", r)>>)
              = Append(RebuildTurns(rows), <<r, r>>)
<1> DEFINE q == Said("user", r)
           a == Said("assistant", r)
<1>1. q \in MessageRow /\ a \in MessageRow
  BY DEF Said, MessageRow
<1>2. q.role = "user" /\ q.turn = r /\ a.role # "user" /\ a.turn = r /\ r # NoAsk
  BY DEF Said, SessionAssumption
<1> HIDE DEF q, a
<1>3. rows \o <<q, a>> = Append(Append(rows, q), a)
  BY <1>1
<1>4. Append(rows, q) \in Seq(MessageRow) /\ Append(Append(rows, q), a) \in Seq(MessageRow)
  BY <1>1
<1>5. ReadOf(Append(Append(rows, q), a)) = ReadRow(ReadRow(ReadOf(rows), q), a)
  BY <1>1, <1>4, ReadOneMore
<1> DEFINE acc == ReadOf(rows)
           acc1 == [query |-> r, turns |-> acc.turns]
<1>6. ReadRow(acc, q) = acc1
  BY <1>2 DEF ReadRow
<1>7. ReadRow(acc1, a).turns = Append(acc.turns, <<r, r>>)
  <2>1. acc1.query = r /\ acc1.turns = acc.turns
    OBVIOUS
  <2> HIDE DEF acc1
  <2> QED BY <1>2, <2>1 DEF ReadRow
<1>8. RebuildTurns(rows) = acc.turns
  BY ReadType
<1> HIDE DEF acc1, acc
<1>9. RebuildTurns(rows \o <<q, a>>) = ReadRow(acc1, a).turns
  BY <1>3, <1>4, <1>5, <1>6, ReadType DEF acc
<1> QED BY <1>7, <1>8, <1>9 DEF q, a

\* A suffix, by its elements.
LEMMA SuffixIs ==
    ASSUME NEW X, NEW s \in Seq(X), NEW t \in Seq(X)
    PROVE  IsSuffix(s, t) <=> /\ Len(s) <= Len(t)
                              /\ \A i \in 1 .. Len(s) : s[i] = t[Len(t) - Len(s) + i]
<1> DEFINE n == Len(s)
           k == Len(t)
           a == Reverse(s)
           b == Reverse(t)
<1>1. /\ n \in Nat /\ k \in Nat
      /\ \A i \in 1 .. n : s[i] \in X
      /\ \A i \in 1 .. k : t[i] \in X
  OBVIOUS
<1>2. /\ a = [i \in 1 .. n |-> s[n - i + 1]]
      /\ b = [i \in 1 .. k |-> t[k - i + 1]]
  BY DEF Reverse
<1>3. IsSuffix(s, t) <=> Len(a) <= Len(b) /\ SubSeq(a, 1, Len(a)) = SubSeq(b, 1, Len(a))
  BY DEF IsSuffix, IsPrefix
<1> HIDE DEF n, k, a, b
<1>4. /\ a \in Seq(X) /\ Len(a) = n /\ \A i \in 1 .. n : a[i] = s[n - i + 1]
      /\ b \in Seq(X) /\ Len(b) = k /\ \A i \in 1 .. k : b[i] = t[k - i + 1]
  <2>1. (\A i \in 1 .. n : s[n - i + 1] \in X) /\ (\A i \in 1 .. k : t[k - i + 1] \in X)
    <3>1. \A i \in 1 .. n : n - i + 1 \in 1 .. n
      BY <1>1
    <3>2. \A i \in 1 .. k : k - i + 1 \in 1 .. k
      BY <1>1
    <3> QED BY <1>1, <3>1, <3>2
  <2>2. a \in Seq(X) /\ b \in Seq(X)
    BY <1>1, <1>2, <2>1, IsASeq
  <2>3. DOMAIN a = 1 .. n /\ DOMAIN b = 1 .. k
    BY <1>2
  <2>4. Len(a) = n /\ Len(b) = k
    BY <1>1, <2>2, <2>3
  <2>5. (\A i \in 1 .. n : a[i] = s[n - i + 1]) /\ (\A i \in 1 .. k : b[i] = t[k - i + 1])
    BY <1>2
  <2> QED BY <2>2, <2>4, <2>5
<1>5. ASSUME n <= k
      PROVE  SubSeq(a, 1, n) = SubSeq(b, 1, n) <=> \A i \in 1 .. n : a[i] = b[i]
  <2> DEFINE u == SubSeq(a, 1, n)
             v == SubSeq(b, 1, n)
  <2>1. /\ u \in Seq(X) /\ Len(u) = n /\ \A i \in 1 .. n : u[i] = a[i]
        /\ v \in Seq(X) /\ Len(v) = n /\ \A i \in 1 .. n : v[i] = b[i]
    <3>1. n \in 0 .. Len(a) /\ n \in 0 .. Len(b)
      BY <1>1, <1>4, <1>5
    <3> QED BY <1>4, <3>1
  <2> HIDE DEF u, v
  <2>2. u = v <=> \A i \in 1 .. n : u[i] = v[i]
    BY <2>1, SeqEqual
  <2> QED BY <2>1, <2>2 DEF u, v
<1>6. ASSUME n <= k
      PROVE  (\A i \in 1 .. n : a[i] = b[i]) <=> \A i \in 1 .. n : s[i] = t[k - n + i]
  <2>1. ASSUME \A i \in 1 .. n : a[i] = b[i], NEW i \in 1 .. n
        PROVE  s[i] = t[k - n + i]
    <3> DEFINE j == n - i + 1
    <3>1. j \in 1 .. n /\ j \in 1 .. k /\ n - j + 1 = i /\ k - j + 1 = k - n + i
      BY <1>1, <1>6
    <3> HIDE DEF j
    <3>2. a[j] = s[i] /\ b[j] = t[k - n + i]
      BY <1>4, <3>1
    <3> QED BY <2>1, <3>1, <3>2
  <2>2. ASSUME \A i \in 1 .. n : s[i] = t[k - n + i], NEW i \in 1 .. n
        PROVE  a[i] = b[i]
    <3> DEFINE j == n - i + 1
    <3>1. j \in 1 .. n /\ i \in 1 .. k /\ k - i + 1 = k - n + j
      BY <1>1, <1>6
    <3>2. a[i] = s[j] /\ b[i] = t[k - i + 1]
      BY <1>4, <3>1
    <3> HIDE DEF j
    <3> QED BY <2>2, <3>1, <3>2
  <2> QED BY <2>1, <2>2
<1>7. IsSuffix(s, t) <=> n <= k /\ SubSeq(a, 1, n) = SubSeq(b, 1, n)
  BY <1>3, <1>4
<1>8. IsSuffix(s, t) <=> n <= k /\ \A i \in 1 .. n : s[i] = t[k - n + i]
  <2>1. CASE n <= k
    BY <1>5, <1>6, <1>7, <2>1
  <2>2. CASE ~(n <= k)
    BY <1>7, <2>2
  <2> QED BY <2>1, <2>2
<1> QED BY <1>8 DEF n, k

\* What EntryAgrees says of an entry and the turns of the rows.
Agrees(c, turns) ==
    /\ IsSuffix(c, turns)
    /\ Len(c) >= IF Len(turns) > MaxTurns THEN MaxTurns ELSE Len(turns)

LEMMA AgreesWithItself ==
    ASSUME SessionAssumption, NEW turns \in Seq(CachedTurn)
    PROVE  Agrees(turns, turns)
<1>1. Len(turns) \in Nat /\ MaxTurns \in Nat
  BY DEF SessionAssumption
<1>2. \A i \in 1 .. Len(turns) : Len(turns) - Len(turns) + i = i
  BY <1>1
<1>3. IsSuffix(turns, turns)
  BY <1>1, <1>2, SuffixIs
<1> QED BY <1>1, <1>3 DEF Agrees

\* The end that is kept of turns, of any kind.
LEMMA LastTurnsAre ==
    ASSUME SessionAssumption, NEW X, NEW turns \in Seq(X)
    PROVE  /\ LastTurns(turns) \in Seq(X) /\ Len(LastTurns(turns)) <= Len(turns)
           /\ Len(LastTurns(turns)) = IF Len(turns) > MaxTurns THEN MaxTurns ELSE Len(turns)
           /\ \A i \in 1 .. Len(LastTurns(turns)) :
                 LastTurns(turns)[i] = turns[Len(turns) - Len(LastTurns(turns)) + i]
<1> DEFINE n == Len(turns)
           last == SubSeq(turns, n - MaxTurns + 1, n)
<1>1. n \in Nat /\ MaxTurns \in Nat /\ MaxTurns # 0
  BY DEF SessionAssumption
<1>2. CASE n > MaxTurns
  <2>1. LastTurns(turns) = last
    BY <1>2 DEF LastTurns
  <2> DEFINE m == n - MaxTurns + 1
  <2>2. m \in Int /\ n \in Int /\ m <= n /\ n - m + 1 = MaxTurns /\ m \in 1 .. n
    BY <1>1, <1>2
  <2>3. \A i \in m .. n : turns[i] \in X
    <3>1. \A i \in m .. n : i \in 1 .. n
      BY <1>1, <2>2
    <3> QED BY <3>1
  <2>4. /\ last \in Seq(X) /\ Len(last) = n - m + 1
        /\ \A i \in 1 .. n - m + 1 : last[i] = turns[m + i - 1]
    <3> HIDE DEF m
    <3>1. /\ SubSeq(turns, m, n) \in Seq(X)
          /\ Len(SubSeq(turns, m, n)) = n - m + 1
          /\ \A i \in 1 .. n - m + 1 : SubSeq(turns, m, n)[i] = turns[m + i - 1]
      BY <2>2, <2>3, SubSeqProperties
    <3> QED BY <3>1 DEF m
  <2> HIDE DEF last
  <2>5. \A i \in 1 .. MaxTurns : m + i - 1 = n - MaxTurns + i
    BY <1>1
  <2> QED BY <1>1, <1>2, <2>1, <2>2, <2>4, <2>5
<1>3. CASE ~(n > MaxTurns)
  <2>1. LastTurns(turns) = turns
    BY <1>3 DEF LastTurns
  <2>2. \A i \in 1 .. n : n - n + i = i
    BY <1>1
  <2> QED BY <1>1, <1>3, <2>1, <2>2
<1> QED BY <1>2, <1>3

\* An entry that agrees does so with a turn more on both sides.
LEMMA AgreesGoesOn ==
    ASSUME SessionAssumption, NEW c \in Seq(CachedTurn), NEW turns \in Seq(CachedTurn),
           NEW t \in CachedTurn, Agrees(c, turns)
    PROVE  Agrees(LastTurns(Append(c, t)), Append(turns, t))
<1> DEFINE d == Append(c, t)
           more == Append(turns, t)
           last == LastTurns(d)
           n == Len(c)
           k == Len(turns)
<1>1. /\ d \in Seq(CachedTurn) /\ Len(d) = n + 1 /\ d[n + 1] = t /\ \A i \in 1 .. n : d[i] = c[i]
      /\ more \in Seq(CachedTurn) /\ Len(more) = k + 1 /\ more[k + 1] = t
      /\ \A i \in 1 .. k : more[i] = turns[i]
      /\ n \in Nat /\ k \in Nat /\ MaxTurns \in Nat
  BY AppendProperties DEF SessionAssumption
<1>2. /\ n <= k /\ \A i \in 1 .. n : c[i] = turns[k - n + i]
      /\ n >= IF k > MaxTurns THEN MaxTurns ELSE k
  BY SuffixIs DEF Agrees
<1> HIDE DEF d, more
<1>3. /\ last \in Seq(CachedTurn) /\ Len(last) <= n + 1
      /\ Len(last) = IF n + 1 > MaxTurns THEN MaxTurns ELSE n + 1
      /\ \A i \in 1 .. Len(last) : last[i] = d[n + 1 - Len(last) + i]
  <2>1. /\ last \in Seq(CachedTurn) /\ Len(last) <= Len(d)
        /\ Len(last) = IF Len(d) > MaxTurns THEN MaxTurns ELSE Len(d)
        /\ \A i \in 1 .. Len(last) : last[i] = d[Len(d) - Len(last) + i]
    BY <1>1, LastTurnsAre
  <2> HIDE DEF last, n
  <2> QED BY <1>1, <2>1
<1> HIDE DEF last, n, k
<1> DEFINE m == Len(last)
<1>4. m \in Nat /\ m <= n + 1 /\ m <= k + 1
  BY <1>1, <1>2, <1>3
<1> HIDE DEF m
<1>5. \A j \in 1 .. n + 1 : d[j] = more[k - n + j]
  <2> SUFFICES ASSUME NEW j \in 1 .. n + 1 PROVE d[j] = more[k - n + j]
    OBVIOUS
  <2>1. CASE j = n + 1
    <3>1. k - n + j = k + 1
      BY <1>1, <2>1
    <3> QED BY <1>1, <2>1, <3>1
  <2>2. CASE j # n + 1
    <3>1. j \in 1 .. n /\ k - n + j \in 1 .. k
      BY <1>1, <1>2, <2>2
    <3> QED BY <1>1, <1>2, <3>1
  <2> QED BY <2>1, <2>2
<1>6. ASSUME NEW i \in 1 .. m PROVE last[i] = more[(k + 1) - m + i]
  <2> DEFINE j == n + 1 - m + i
  <2>1. j \in 1 .. n + 1 /\ k - n + j = (k + 1) - m + i
    BY <1>1, <1>2, <1>4
  <2>2. last[i] = d[j]
    BY <1>3 DEF m
  <2> HIDE DEF j
  <2> QED BY <1>5, <2>1, <2>2
<1>7. IsSuffix(last, more)
  BY <1>1, <1>3, <1>4, <1>6, SuffixIs DEF m
<1>8. m >= IF k + 1 > MaxTurns THEN MaxTurns ELSE k + 1
  BY <1>1, <1>2, <1>3 DEF m
<1> QED BY <1>1, <1>7, <1>8 DEF Agrees, m, last, d, more

-----------------------------------------------------------------------------
AtWork == {r \in Ask : asking[r].pc \in Open}

TheTurns == RebuildTurns(Visible)

\* The rows an open append has added so far.
Added(r) ==
    IF asking[r].pc = "answer" THEN <<Said("user", r)>>
    ELSE <<Said("user", r), Said("assistant", r)>>

\* The rows are those of committed turns and of open transactions.
SessionTypes ==
    /\ sessionRow \in {"stored", "leaving", "gone"}
    /\ keptTurns \subseteq Ask \union {OldTurn}
    /\ messageRows \in Seq(RowsOf(keptTurns \union AtWork))
    /\ sessionTitle \in Ask \union {OldTurn, NoAsk}
    /\ sessionCache = NoCache \/ sessionCache \in Seq(CachedTurn)
    /\ asking \in [Ask -> [pc : AskPc, turns : Seq(CachedTurn)]]
    /\ removal \in {"idle", "cache", "commit", "over"}
    /\ redisLeft \in 0 .. RedisFaults
    /\ doubt \in BOOLEAN /\ interleaved \in BOOLEAN /\ phantom \in BOOLEAN

\* A request commits last, and a delete waits for the appends.
SessionOrder ==
    /\ \A r \in Ask : r \in keptTurns => asking[r].pc = "over"
    /\ sessionRow = "leaving" <=> removal \in {"cache", "commit"}
    /\ sessionRow # "stored" => AtWork = {}
    /\ sessionRow = "gone" => keptTurns = {}

\* Without doubt the cache has one user at a time.
OneUser ==
    ~doubt => \A r \in Ask : asking[r].pc \in Window =>
        /\ removal \notin {"cache", "commit"}
        /\ \A q \in Ask : asking[q].pc \in Window => q = r

\* The rows of an append that is alone are the last ones.
LastRows ==
    ~doubt \/ ~interleaved => \A r \in AtWork :
        AtWork = {r} /\ messageRows = Visible \o Added(r)

\* Without doubt the entry agrees with the rows, from one commit to the next,
\* and so does what a request has read of it.
EntryInv ==
    ~doubt =>
        /\ sessionCache # NoCache /\ (\A r \in Ask : asking[r].pc # "commit") =>
              /\ Agrees(sessionCache, TheTurns)
              /\ sessionRow = "stored" \/ removal = "cache"
        /\ \A r \in Ask : asking[r].pc \in {"fillLoad", "fillSave"} =>
              asking[r].turns = TheTurns /\ sessionRow = "stored"
        /\ \A r \in Ask : asking[r].pc \in {"insert"} \union Open /\ sessionRow = "stored" =>
              Agrees(asking[r].turns, TheTurns)
        /\ \A r \in Ask : asking[r].pc = "commit" =>
              \/ sessionCache = NoCache
              \/ sessionCache = LastTurns(Append(asking[r].turns, <<r, r>>))

IsPaired(turns) == \A i \in DOMAIN turns : turns[i][1] = turns[i][2]

\* No question gets the answer of another one.
PairsInv ==
    ~interleaved => /\ IsPaired(TheTurns)
                    /\ sessionCache # NoCache => IsPaired(sessionCache)
                    /\ \A r \in Ask : IsPaired(asking[r].turns)

\* The first turn that can be read anywhere is about to give the title.
TitleInv ==
    /\ sessionRow # "gone" /\ sessionTitle = NoAsk /\ ~phantom
    /\ \/ keptTurns # {} \/ (sessionCache # NoCache /\ sessionCache # <<>>)
       \/ \E r \in Ask : asking[r].turns # <<>>
    => \E q \in Ask : asking[q].pc = "commit" /\ asking[q].turns = <<>>

SessionInv ==
    /\ SessionTypes /\ SessionOrder /\ OneUser /\ LastRows /\ EntryInv /\ PairsInv /\ TitleInv

LEMMA SeqOfMore ==
    ASSUME NEW X, NEW Y, X \subseteq Y, NEW s \in Seq(X)
    PROVE  s \in Seq(Y)
OBVIOUS

\* What can be read of the rows.
LEMMA SessionFacts ==
    ASSUME SessionAssumption, SessionInv
    PROVE  /\ messageRows \in Seq(MessageRow)
           /\ Visible \in Seq(RowsOf(keptTurns)) /\ Visible \in Seq(MessageRow)
           /\ TheTurns \in Seq(CachedTurn)
           /\ AtWork = {} => Visible = messageRows
           /\ keptTurns = {} => TheTurns = <<>>
           /\ \A r \in Ask : /\ asking[r].pc \in AskPc /\ asking[r].turns \in Seq(CachedTurn)
                             /\ asking[r].pc # "over" => r \notin keptTurns
<1>1. messageRows \in Seq(RowsOf(keptTurns \union AtWork))
  BY DEF SessionInv, SessionTypes
<1>2. RowsOf(keptTurns \union AtWork) \subseteq MessageRow /\ RowsOf(keptTurns) \subseteq MessageRow
  BY DEF RowsOf
<1>3. messageRows \in Seq(MessageRow)
  BY <1>1, <1>2, SeqOfMore
<1>4. Visible \in Seq(RowsOf(keptTurns))
  BY <1>3, OfTurnsType DEF Visible, RowsOf
<1>5. Visible \in Seq(MessageRow)
  BY <1>2, <1>4, SeqOfMore
<1>6. TheTurns \in Seq(CachedTurn)
  BY <1>5, ReadType DEF TheTurns
<1>7. ASSUME AtWork = {} PROVE Visible = messageRows
  <2>1. keptTurns \union AtWork = keptTurns
    BY <1>7
  <2>2. messageRows \in Seq(RowsOf(keptTurns))
    BY <1>1, <2>1
  <2> QED BY <2>2, OfTurnsAll DEF Visible
<1>8. ASSUME keptTurns = {} PROVE TheTurns = <<>>
  <2>1. RowsOf(keptTurns) = {}
    BY <1>8 DEF RowsOf
  <2>2. Visible = <<>>
    <3> HIDE DEF Visible
    <3>1. Visible \in Seq({})
      BY <1>4, <2>1
    <3> QED BY <3>1
  <2> QED BY <2>2, ReadNothing DEF TheTurns
<1>9. \A r \in Ask : /\ asking[r].pc \in AskPc /\ asking[r].turns \in Seq(CachedTurn)
                     /\ asking[r].pc # "over" => r \notin keptTurns
  BY DEF SessionInv, SessionTypes, SessionOrder
<1> QED BY <1>3, <1>4, <1>5, <1>6, <1>7, <1>8, <1>9

LEMMA RowsKept ==
    ASSUME messageRows' = messageRows, keptTurns' = keptTurns
    PROVE  Visible' = Visible /\ TheTurns' = TheTurns
BY DEF Visible, TheTurns

LEMMA NothingPaired == IsPaired(<<>>)
BY DEF IsPaired

LEMMA SessionInvImplies == ASSUME SessionInv PROVE HistoryIsTrue
<1>1. ASSUME SessionIsQuiet, ~doubt, sessionCache # NoCache PROVE EntryAgrees
  <2>1. \A r \in Ask : asking[r].pc # "commit"
    BY <1>1 DEF SessionIsQuiet, Window, Open
  <2>2. removal # "cache"
    BY <1>1 DEF SessionIsQuiet
  <2>3. Agrees(sessionCache, TheTurns) /\ sessionRow = "stored"
    BY <1>1, <2>1, <2>2 DEF SessionInv, EntryInv
  <2> QED BY <2>3 DEF EntryAgrees, Agrees, TheTurns
<1>2. sessionCache # NoCache /\ ~interleaved =>
         \A i \in DOMAIN sessionCache : sessionCache[i][1] = sessionCache[i][2]
  BY DEF SessionInv, PairsInv, IsPaired
<1>3. ASSUME SessionIsQuiet, keptTurns # {}, sessionTitle = NoAsk PROVE phantom
  <2>1. \A r \in Ask : asking[r].pc # "commit"
    BY <1>3 DEF SessionIsQuiet, Window, Open
  <2>2. sessionRow # "gone"
    BY <1>3 DEF SessionInv, SessionOrder
  <2> QED BY <1>3, <2>1, <2>2 DEF SessionInv, TitleInv
<1> QED BY <1>1, <1>2, <1>3 DEF HistoryIsTrue

LEMMA SessionInitInv == ASSUME SessionAssumption, SessionInit PROVE SessionInv
<1>1. /\ sessionRow = "stored" /\ asking = Resting /\ removal = "idle"
      /\ redisLeft = RedisFaults /\ doubt = FALSE /\ interleaved = FALSE /\ phantom = FALSE
  BY DEF SessionInit
<1>2. \A r \in Ask : asking[r].pc = "idle" /\ asking[r].turns = <<>>
  BY <1>1 DEF Resting
<1>3. asking \in [Ask -> [pc : AskPc, turns : Seq(CachedTurn)]]
  <2>1. [pc |-> "idle", turns |-> <<>>] \in [pc : AskPc, turns : Seq(CachedTurn)]
    BY DEF AskPc
  <2> QED BY <1>1, <2>1 DEF Resting
<1>4. AtWork = {}
  BY <1>2 DEF AtWork, Open
<1>5. OneUser
  BY <1>2 DEF OneUser, Window, Open
<1>6. LastRows
  BY <1>4 DEF LastRows
<1>7. redisLeft \in 0 .. RedisFaults
  BY <1>1 DEF SessionAssumption
<1>8. CASE /\ messageRows = <<>> /\ keptTurns = {} /\ sessionTitle = NoAsk /\ sessionCache = <<>>
  <2>1. SessionTypes
    <3>1. messageRows \in Seq(RowsOf(keptTurns \union AtWork)) /\ sessionCache \in Seq(CachedTurn)
      <4>1. messageRows = <<>> /\ sessionCache = <<>>
        BY <1>8
      <4> QED BY <4>1
    <3> QED BY <1>1, <1>3, <1>7, <1>8, <3>1 DEF SessionTypes
  <2>2. SessionOrder
    BY <1>1, <1>4, <1>8 DEF SessionOrder
  <2>3. Visible = <<>>
    <3>1. messageRows \in Seq(RowsOf(keptTurns))
      BY <1>8
    <3> QED BY <1>8, <3>1, OfTurnsAll DEF Visible
  <2>4. TheTurns = <<>>
    BY <2>3, ReadNothing DEF TheTurns
  <2>5. Agrees(sessionCache, TheTurns)
    <3>1. <<>> \in Seq(CachedTurn)
      OBVIOUS
    <3> QED BY <1>8, <2>4, <3>1, AgreesWithItself
  <2>6. EntryInv
    BY <1>1, <1>2, <2>5 DEF EntryInv, Open
  <2>7. PairsInv
    BY <1>2, <1>8, <2>4, NothingPaired DEF PairsInv
  <2>8. TitleInv
    BY <1>2, <1>8 DEF TitleInv
  <2> QED BY <1>5, <1>6, <2>1, <2>2, <2>6, <2>7, <2>8 DEF SessionInv
<1>9. CASE /\ messageRows = <<Said("user", OldTurn), Said("assistant", OldTurn)>>
           /\ keptTurns = {OldTurn} /\ sessionTitle = OldTurn /\ sessionCache = NoCache
  <2>1. messageRows \in Seq(RowsOf(keptTurns))
    <3>1. Said("user", OldTurn) \in RowsOf({OldTurn}) /\ Said("assistant", OldTurn) \in RowsOf({OldTurn})
      BY DEF RowsOf, MessageRow, Said
    <3> HIDE DEF RowsOf
    <3> QED BY <1>9, <3>1
  <2>2. SessionTypes
    <3>1. keptTurns \union AtWork = keptTurns
      BY <1>4
    <3> QED BY <1>1, <1>3, <1>7, <1>9, <2>1, <3>1 DEF SessionTypes
  <2>3. SessionOrder
    BY <1>1, <1>4, <1>9 DEF SessionOrder, SessionAssumption
  <2>4. Visible = messageRows
    BY <2>1, OfTurnsAll DEF Visible
  <2>5. TheTurns = <<<<OldTurn, OldTurn>>>>
    <3> DEFINE last == <<Said("user", OldTurn), Said("assistant", OldTurn)>>
    <3>1. <<>> \in Seq(MessageRow)
      OBVIOUS
    <3>2. RebuildTurns(<<>> \o last) = Append(<<>>, <<OldTurn, OldTurn>>)
      BY <3>1, RebuildsTheLastTurn, ReadNothing
    <3>3. <<>> \o last = last
      OBVIOUS
    <3>4. TheTurns = RebuildTurns(last)
      BY <1>9, <2>4 DEF TheTurns
    <3> QED BY <3>2, <3>3, <3>4
  <2>6. EntryInv
    BY <1>1, <1>2, <1>9 DEF EntryInv, Open
  <2>7. PairsInv
    <3>1. IsPaired(TheTurns)
      BY <2>5 DEF IsPaired
    <3> QED BY <1>2, <1>9, <3>1, NothingPaired DEF PairsInv
  <2>8. TitleInv
    BY <1>9 DEF TitleInv, SessionAssumption
  <2> QED BY <1>5, <1>6, <2>2, <2>3, <2>6, <2>7, <2>8 DEF SessionInv
<1> QED BY <1>8, <1>9 DEF SessionInit

-----------------------------------------------------------------------------
(* The steps of a request that read, and fill the entry                    *)

\* Request r goes on with what it has read, outside of a transaction.
ReadsOn(r, new) ==
    /\ asking[r].pc \in {"idle", "generating", "fillLoad", "fillSave"}
    /\ new \in [pc : {"generating", "fillLoad", "fillSave", "insert"}, turns : Seq(CachedTurn)]
    /\ asking' = [asking EXCEPT ![r] = new]
    /\ sessionRow' = sessionRow /\ messageRows' = messageRows /\ keptTurns' = keptTurns
    /\ sessionTitle' = sessionTitle /\ removal' = removal
    /\ interleaved' = interleaved /\ phantom' = phantom
    /\ redisLeft' \in 0 .. RedisFaults
    /\ sessionCache' = NoCache \/ sessionCache' \in Seq(CachedTurn)
    /\ doubt' \in BOOLEAN /\ (doubt => doubt')

\* It enters the window alone, or with a doubt.
EntersAlone(r, new) ==
    asking[r].pc \notin Window /\ new.pc \in Window /\ ~doubt' => ~OthersAtWork(r)

\* What it holds, and the entry it leaves, agree with the rows.
ReadsTrue(r, new) ==
    ~doubt' =>
        /\ new.pc \in {"fillLoad", "fillSave"} => new.turns = TheTurns /\ sessionRow = "stored"
        /\ new.pc = "insert" /\ sessionRow = "stored" => Agrees(new.turns, TheTurns)
        /\ \/ sessionCache' = sessionCache
           \/ /\ \A q \in Ask : asking[q].pc # "commit"
              /\ Agrees(sessionCache', TheTurns) /\ sessionRow = "stored"

\* It reads nothing that was not there.
ReadsKnown(r, new) ==
    /\ ~interleaved => IsPaired(new.turns) /\ (sessionCache' # NoCache => IsPaired(sessionCache'))
    /\ sessionRow # "gone" /\ (new.turns # <<>> \/ (sessionCache' # NoCache /\ sessionCache' # <<>>)) =>
          \/ keptTurns # {} \/ (sessionCache # NoCache /\ sessionCache # <<>>)
          \/ \E q \in Ask : asking[q].turns # <<>>

LEMMA ReadsOnInv ==
    ASSUME SessionAssumption, SessionInv, NEW r \in Ask, NEW new,
           ReadsOn(r, new), EntersAlone(r, new), ReadsTrue(r, new), ReadsKnown(r, new)
    PROVE  SessionInv'
<1>1. /\ asking \in [Ask -> [pc : AskPc, turns : Seq(CachedTurn)]]
      /\ asking' = [asking EXCEPT ![r] = new]
      /\ asking[r].pc \in {"idle", "generating", "fillLoad", "fillSave"}
      /\ new.pc \in {"generating", "fillLoad", "fillSave", "insert"}
      /\ new \in [pc : AskPc, turns : Seq(CachedTurn)]
  BY DEF ReadsOn, SessionInv, SessionTypes, AskPc, Window
<1>2. /\ asking'[r] = new /\ \A q \in Ask : q # r => asking'[q] = asking[q]
      /\ asking' \in [Ask -> [pc : AskPc, turns : Seq(CachedTurn)]]
  BY <1>1
<1>3. /\ sessionRow' = sessionRow /\ messageRows' = messageRows /\ keptTurns' = keptTurns
      /\ sessionTitle' = sessionTitle /\ removal' = removal
      /\ interleaved' = interleaved /\ phantom' = phantom
      /\ redisLeft' \in 0 .. RedisFaults
      /\ sessionCache' = NoCache \/ sessionCache' \in Seq(CachedTurn)
      /\ doubt' \in BOOLEAN /\ (doubt => doubt')
  BY DEF ReadsOn
<1>4. AtWork' = AtWork /\ r \notin AtWork /\ \A q \in AtWork : Added(q)' = Added(q)
  <2>1. r \notin AtWork /\ new.pc \notin Open
    BY <1>1 DEF AtWork, Open
  <2>2. AtWork' = AtWork
    BY <1>2, <2>1 DEF AtWork
  <2>3. \A q \in AtWork : Added(q)' = Added(q)
    BY <1>2, <2>1 DEF AtWork, Added
  <2> QED BY <2>1, <2>2, <2>3
<1>5. Visible' = Visible /\ TheTurns' = TheTurns
  BY <1>3, RowsKept
<1>6. SessionTypes'
  BY <1>2, <1>3, <1>4 DEF SessionInv, SessionTypes
<1>7. SessionOrder'
  <2>1. r \notin keptTurns
    BY <1>1 DEF SessionInv, SessionOrder
  <2> QED BY <1>2, <1>3, <1>4, <2>1 DEF SessionInv, SessionOrder
<1>8. OneUser'
  <2> SUFFICES ASSUME ~doubt', NEW q \in Ask, asking'[q].pc \in Window
               PROVE  /\ removal \notin {"cache", "commit"}
                      /\ \A p \in Ask : asking'[p].pc \in Window => p = q
    BY <1>3 DEF OneUser
  <2>1. ~doubt
    BY <1>3
  <2>2. CASE asking[r].pc \in Window
    <3>1. removal \notin {"cache", "commit"} /\ \A p \in Ask : asking[p].pc \in Window => p = r
      BY <2>1, <2>2 DEF SessionInv, OneUser
    <3> QED BY <1>2, <3>1
  <2>3. CASE asking[r].pc \notin Window /\ new.pc \in Window
    <3>1. removal \notin {"cache", "commit"} /\ \A p \in Ask : p # r => asking[p].pc \notin Window
      BY <2>3 DEF EntersAlone, OthersAtWork
    <3> QED BY <1>2, <3>1
  <2>4. CASE asking[r].pc \notin Window /\ new.pc \notin Window
    <3>1. asking[q].pc \in Window
      BY <1>2, <2>4
    <3>2. removal \notin {"cache", "commit"} /\ \A p \in Ask : asking[p].pc \in Window => p = q
      BY <2>1, <3>1 DEF SessionInv, OneUser
    <3> QED BY <1>2, <2>4, <3>2
  <2> QED BY <2>2, <2>3, <2>4
<1>9. LastRows'
  BY <1>3, <1>4, <1>5 DEF SessionInv, LastRows
<1>10. EntryInv'
  <2> SUFFICES ASSUME ~doubt'
               PROVE  /\ sessionCache' # NoCache /\ (\A q \in Ask : asking'[q].pc # "commit") =>
                            /\ Agrees(sessionCache', TheTurns)
                            /\ sessionRow = "stored" \/ removal = "cache"
                      /\ \A q \in Ask : asking'[q].pc \in {"fillLoad", "fillSave"} =>
                            asking'[q].turns = TheTurns /\ sessionRow = "stored"
                      /\ \A q \in Ask : asking'[q].pc \in {"insert"} \union Open /\ sessionRow = "stored" =>
                            Agrees(asking'[q].turns, TheTurns)
                      /\ \A q \in Ask : asking'[q].pc = "commit" =>
                            \/ sessionCache' = NoCache
                            \/ sessionCache' = LastTurns(Append(asking'[q].turns, <<q, q>>))
    <3>1. Agrees(sessionCache, TheTurns)' <=> Agrees(sessionCache', TheTurns)
      BY <1>5 DEF Agrees
    <3>2. \A q \in Ask : Agrees(asking[q].turns, TheTurns)' <=> Agrees(asking'[q].turns, TheTurns)
      BY <1>5 DEF Agrees
    <3>3. \A q \in Ask : LastTurns(Append(asking[q].turns, <<q, q>>))'
                            = LastTurns(Append(asking'[q].turns, <<q, q>>))
      BY DEF LastTurns
    <3> QED BY <1>3, <1>5, <3>1, <3>2, <3>3 DEF EntryInv
  <2>1. ~doubt
    BY <1>3
  <2>2. /\ new.pc \in {"fillLoad", "fillSave"} => new.turns = TheTurns /\ sessionRow = "stored"
        /\ new.pc = "insert" /\ sessionRow = "stored" => Agrees(new.turns, TheTurns)
        /\ new.pc \notin Open /\ asking[r].pc \notin Open
    BY <1>1 DEF ReadsTrue, Open
  <2>3. (\A q \in Ask : asking'[q].pc # "commit") => \A q \in Ask : asking[q].pc # "commit"
    BY <1>1, <1>2
  <2>4. sessionCache' # NoCache /\ (\A q \in Ask : asking'[q].pc # "commit") =>
           Agrees(sessionCache', TheTurns) /\ (sessionRow = "stored" \/ removal = "cache")
    BY <2>1, <2>3 DEF ReadsTrue, SessionInv, EntryInv
  <2>5. ASSUME NEW q \in Ask
        PROVE  /\ asking'[q].pc \in {"fillLoad", "fillSave"} =>
                     asking'[q].turns = TheTurns /\ sessionRow = "stored"
               /\ asking'[q].pc \in {"insert"} \union Open /\ sessionRow = "stored" =>
                     Agrees(asking'[q].turns, TheTurns)
    <3>1. CASE q = r
      BY <1>2, <2>2, <3>1
    <3>2. CASE q # r
      <4>1. asking'[q] = asking[q]
        BY <1>2, <3>2
      <4> QED BY <2>1, <4>1 DEF SessionInv, EntryInv
    <3> QED BY <3>1, <3>2
  <2>6. ASSUME NEW q \in Ask, asking'[q].pc = "commit"
        PROVE  \/ sessionCache' = NoCache
               \/ sessionCache' = LastTurns(Append(asking'[q].turns, <<q, q>>))
    <3>1. q # r /\ asking'[q] = asking[q]
      BY <1>1, <1>2, <2>6
    <3>2. sessionCache' = sessionCache
      BY <2>6, <3>1 DEF ReadsTrue
    <3>3. \/ sessionCache = NoCache
          \/ sessionCache = LastTurns(Append(asking[q].turns, <<q, q>>))
      BY <2>1, <2>6, <3>1 DEF SessionInv, EntryInv
    <3> QED BY <3>1, <3>2, <3>3
  <2> QED BY <2>4, <2>5, <2>6
<1>11. PairsInv'
  <2> SUFFICES ASSUME ~interleaved
               PROVE  /\ IsPaired(TheTurns')
                      /\ sessionCache' # NoCache => IsPaired(sessionCache')
                      /\ \A q \in Ask : IsPaired(asking'[q].turns)
    BY <1>3 DEF PairsInv, IsPaired
  <2>1. IsPaired(new.turns) /\ (sessionCache' # NoCache => IsPaired(sessionCache'))
    BY DEF ReadsKnown
  <2>2. IsPaired(TheTurns) /\ \A q \in Ask : IsPaired(asking[q].turns)
    BY DEF SessionInv, PairsInv
  <2>3. IsPaired(TheTurns')
    BY <1>5, <2>2
  <2>4. ASSUME NEW q \in Ask PROVE IsPaired(asking'[q].turns)
    <3>1. asking'[q] = new \/ asking'[q] = asking[q]
      BY <1>2
    <3> QED BY <2>1, <2>2, <3>1
  <2> QED BY <2>1, <2>3, <2>4
<1>12. TitleInv'
  <2> SUFFICES ASSUME sessionRow # "gone", sessionTitle = NoAsk, ~phantom,
                      \/ keptTurns # {} \/ (sessionCache' # NoCache /\ sessionCache' # <<>>)
                      \/ \E q \in Ask : asking'[q].turns # <<>>
               PROVE  \E q \in Ask : asking'[q].pc = "commit" /\ asking'[q].turns = <<>>
    BY <1>3 DEF TitleInv
  <2>1. \/ keptTurns # {} \/ (sessionCache' # NoCache /\ sessionCache' # <<>>)
        \/ new.turns # <<>> \/ \E q \in Ask : asking[q].turns # <<>>
    BY <1>2
  <2>2. \/ keptTurns # {} \/ (sessionCache # NoCache /\ sessionCache # <<>>)
        \/ \E q \in Ask : asking[q].turns # <<>>
    BY <2>1 DEF ReadsKnown
  <2>3. PICK q \in Ask : asking[q].pc = "commit" /\ asking[q].turns = <<>>
    BY <2>2 DEF SessionInv, TitleInv
  <2>4. q # r
    BY <1>1, <2>3
  <2> QED BY <1>2, <2>3, <2>4
<1> QED BY <1>6, <1>7, <1>8, <1>9, <1>10, <1>11, <1>12 DEF SessionInv

LEMMA CacheHitInv ==
    ASSUME SessionAssumption, SessionInv, NEW r \in Ask, CacheHit(r)
    PROVE  SessionInv'
<1>1. PICK p \in Purposes :
         /\ asking[r].pc = p.from
         /\ sessionCache # NoCache /\ Redis(TRUE)
         /\ Go(r, p.hit, IF p.hit = "insert" THEN sessionCache ELSE <<>>)
         /\ IF p.hit = "insert" THEN Enter(r) ELSE UNCHANGED doubt
         /\ UNCHANGED <<sessionRow, messageRows, keptTurns, sessionTitle, sessionCache,
                        removal, interleaved, phantom>>
  BY DEF CacheHit
<1> DEFINE turns == IF p.hit = "insert" THEN sessionCache ELSE <<>>
           new == [pc |-> p.hit, turns |-> turns]
<1>2. /\ asking[r].pc \in {"idle", "generating"} /\ p.hit \in {"generating", "insert"}
      /\ p.hit = "insert" => new.turns = sessionCache
      /\ p.hit # "insert" => new.turns = <<>>
      /\ new.pc = p.hit
  BY <1>1 DEF Purposes
<1>3. sessionCache \in Seq(CachedTurn) /\ redisLeft' \in 0 .. RedisFaults
  BY <1>1 DEF SessionInv, SessionTypes, Redis
<1>4. doubt' = doubt \/ (p.hit = "insert" /\ doubt' = (doubt \/ OthersAtWork(r)))
  BY <1>1 DEF Enter
<1>5. turns \in Seq(CachedTurn)
  BY <1>3
<1>6. asking' = [asking EXCEPT ![r] = new]
  BY <1>1 DEF Go
<1> HIDE DEF turns
<1>7. new \in [pc : {"generating", "fillLoad", "fillSave", "insert"}, turns : Seq(CachedTurn)]
  BY <1>2, <1>5
<1> HIDE DEF new
<1>8. doubt \in BOOLEAN
  BY DEF SessionInv, SessionTypes
<1>9. doubt' \in BOOLEAN /\ (doubt => doubt')
  <2>1. CASE doubt' = doubt
    BY <1>8, <2>1
  <2>2. CASE doubt' = (doubt \/ OthersAtWork(r))
    BY <2>2
  <2> QED BY <1>4, <2>1, <2>2
<1>10. ReadsOn(r, new)
  BY <1>1, <1>2, <1>3, <1>6, <1>7, <1>9 DEF ReadsOn
<1>11. EntersAlone(r, new)
  BY <1>1, <1>2 DEF EntersAlone, Enter, Window, Open
<1>12. ReadsTrue(r, new)
  <2> SUFFICES ASSUME ~doubt', new.pc = "insert", sessionRow = "stored"
               PROVE  Agrees(new.turns, TheTurns)
    BY <1>1, <1>2 DEF ReadsTrue
  <2>1. ~doubt /\ ~OthersAtWork(r)
    BY <1>1, <1>2 DEF Enter
  <2>2. \A q \in Ask : asking[q].pc # "commit"
    BY <1>2, <2>1 DEF OthersAtWork, Window, Open
  <2> QED BY <1>1, <1>2, <2>1, <2>2 DEF SessionInv, EntryInv
<1>13. ReadsKnown(r, new)
  <2>1. new.turns = sessionCache \/ new.turns = <<>>
    BY <1>2
  <2>2. ~interleaved => IsPaired(new.turns)
    BY <1>1, <2>1, NothingPaired DEF SessionInv, PairsInv
  <2> QED BY <1>1, <2>1, <2>2 DEF ReadsKnown, SessionInv, PairsInv
<1> QED BY <1>10, <1>11, <1>12, <1>13, ReadsOnInv

LEMMA CacheMissInv ==
    ASSUME SessionAssumption, SessionInv, NEW r \in Ask, CacheMiss(r)
    PROVE  SessionInv'
<1>1. PICK p \in Purposes :
         /\ asking[r].pc = p.from
         /\ Redis(sessionCache = NoCache) \/ RedisDown
         /\ IF sessionRow = "gone"
            THEN Go(r, p.hit, <<>>)
            ELSE Go(r, p.fill, RebuildTurns(Visible))
         /\ Enter(r)
         /\ UNCHANGED <<sessionRow, messageRows, keptTurns, sessionTitle, sessionCache,
                        removal, interleaved, phantom>>
  BY DEF CacheMiss
<1> DEFINE pc2 == IF sessionRow = "gone" THEN p.hit ELSE p.fill
           turns == IF sessionRow = "gone" THEN <<>> ELSE TheTurns
           new == [pc |-> pc2, turns |-> turns]
<1>2. /\ asking[r].pc \in {"idle", "generating"}
      /\ sessionRow = "gone" => pc2 \in {"generating", "insert"} /\ turns = <<>>
      /\ sessionRow # "gone" => pc2 \in {"fillLoad", "fillSave"} /\ turns = TheTurns
      /\ new.pc = pc2 /\ new.turns = turns
  BY <1>1 DEF Purposes
<1>3. asking' = [asking EXCEPT ![r] = new]
  BY <1>1 DEF Go, TheTurns
<1>4. turns \in Seq(CachedTurn)
  BY SessionFacts
<1> HIDE DEF pc2, turns
<1>5. new \in [pc : {"generating", "fillLoad", "fillSave", "insert"}, turns : Seq(CachedTurn)]
  BY <1>2, <1>4
<1> HIDE DEF new
<1>6. redisLeft' \in 0 .. RedisFaults
  BY <1>1 DEF Redis, RedisDown, SessionInv, SessionTypes, SessionAssumption
<1>7. doubt' = (doubt \/ OthersAtWork(r))
  BY <1>1 DEF Enter
<1>8. ReadsOn(r, new)
  <2>1. sessionCache' = NoCache \/ sessionCache' \in Seq(CachedTurn)
    BY <1>1 DEF SessionInv, SessionTypes
  <2> QED BY <1>1, <1>2, <1>3, <1>5, <1>6, <1>7, <2>1 DEF ReadsOn
<1>9. EntersAlone(r, new)
  BY <1>7 DEF EntersAlone
<1>10. ReadsTrue(r, new)
  <2> SUFFICES ASSUME ~doubt'
               PROVE  /\ new.pc \in {"fillLoad", "fillSave"} => new.turns = TheTurns /\ sessionRow = "stored"
                      /\ ~(new.pc = "insert" /\ sessionRow = "stored")
    BY <1>1 DEF ReadsTrue
  <2>1. sessionRow # "leaving"
    BY <1>7 DEF OthersAtWork, SessionInv, SessionOrder
  <2>2. sessionRow \in {"stored", "leaving", "gone"}
    BY DEF SessionInv, SessionTypes
  <2> QED BY <1>2, <2>1, <2>2
<1>11. ReadsKnown(r, new)
  <2>1. new.turns = <<>> \/ new.turns = TheTurns
    BY <1>2
  <2>2. TheTurns # <<>> => keptTurns # {}
    BY SessionFacts
  <2>3. ~interleaved => IsPaired(new.turns)
    BY <2>1, NothingPaired DEF SessionInv, PairsInv
  <2> QED BY <1>1, <2>1, <2>2, <2>3 DEF ReadsKnown, SessionInv, PairsInv
<1> QED BY <1>8, <1>9, <1>10, <1>11, ReadsOnInv

LEMMA FillCacheInv ==
    ASSUME SessionAssumption, SessionInv, NEW r \in Ask, FillCache(r)
    PROVE  SessionInv'
<1>1. PICK p \in Purposes :
         /\ asking[r].pc = p.fill
         /\ SaveToRedis(asking[r].turns)
         /\ Go(r, p.hit, IF p.hit = "insert" THEN asking[r].turns ELSE <<>>)
         /\ UNCHANGED <<sessionRow, messageRows, keptTurns, sessionTitle, removal,
                        interleaved, phantom>>
  BY DEF FillCache
<1> DEFINE held == asking[r].turns
           turns == IF p.hit = "insert" THEN held ELSE <<>>
           new == [pc |-> p.hit, turns |-> turns]
<1>2. /\ asking[r].pc \in {"fillLoad", "fillSave"} /\ p.hit \in {"generating", "insert"}
      /\ turns = held \/ turns = <<>>
      /\ p.hit = "insert" => turns = held
      /\ new.pc = p.hit /\ new.turns = turns
  BY <1>1 DEF Purposes
<1>3. asking' = [asking EXCEPT ![r] = new]
  BY <1>1 DEF Go
<1>4. held \in Seq(CachedTurn) /\ turns \in Seq(CachedTurn)
  BY SessionFacts
<1> HIDE DEF turns
<1>5. new \in [pc : {"generating", "fillLoad", "fillSave", "insert"}, turns : Seq(CachedTurn)]
  BY <1>2, <1>4
<1> HIDE DEF new
<1>6. /\ redisLeft' \in 0 .. RedisFaults
      /\ sessionCache' = held \/ (sessionCache' = sessionCache /\ doubt' = (doubt \/ sessionCache # NoCache))
      /\ doubt' \in BOOLEAN /\ (doubt => doubt')
  <2>1. CASE Redis(TRUE) /\ sessionCache' = held /\ UNCHANGED doubt
    BY <2>1 DEF Redis, SessionInv, SessionTypes
  <2>2. CASE RedisDown /\ UNCHANGED sessionCache /\ doubt' = (doubt \/ sessionCache # NoCache)
    <3>1. redisLeft' \in 0 .. RedisFaults
      BY <2>2 DEF RedisDown, SessionInv, SessionTypes, SessionAssumption
    <3> QED BY <2>2, <3>1
  <2> QED BY <1>1, <2>1, <2>2 DEF SaveToRedis
<1>7. ReadsOn(r, new)
  <2>1. sessionCache' = NoCache \/ sessionCache' \in Seq(CachedTurn)
    BY <1>4, <1>6 DEF SessionInv, SessionTypes
  <2> QED BY <1>1, <1>2, <1>3, <1>5, <1>6, <2>1 DEF ReadsOn
<1>8. EntersAlone(r, new)
  BY <1>2 DEF EntersAlone, Window, Open
<1>9. ReadsTrue(r, new)
  <2> SUFFICES ASSUME ~doubt'
               PROVE  /\ new.pc = "insert" => Agrees(new.turns, TheTurns)
                      /\ \/ sessionCache' = sessionCache
                         \/ /\ \A q \in Ask : asking[q].pc # "commit"
                            /\ Agrees(sessionCache', TheTurns) /\ sessionRow = "stored"
    BY <1>2 DEF ReadsTrue
  <2>1. ~doubt
    BY <1>6
  <2>2. held = TheTurns /\ sessionRow = "stored"
    BY <1>2, <2>1 DEF SessionInv, EntryInv
  <2>3. Agrees(held, TheTurns)
    BY <2>2, SessionFacts, AgreesWithItself
  <2>4. \A q \in Ask : asking[q].pc # "commit"
    <3>1. asking[r].pc \in Window /\ asking[r].pc # "commit"
      BY <1>2 DEF Window, Open
    <3>2. \A q \in Ask : asking[q].pc \in Window => q = r
      BY <2>1, <3>1 DEF SessionInv, OneUser
    <3> QED BY <3>1, <3>2 DEF Window, Open
  <2> HIDE DEF held
  <2> QED BY <1>2, <1>6, <2>2, <2>3, <2>4
<1>10. ReadsKnown(r, new)
  <2>1. ~interleaved => IsPaired(held)
    BY DEF SessionInv, PairsInv
  <2>2. ~interleaved => IsPaired(new.turns)
    BY <1>2, <2>1, NothingPaired
  <2>3. ~interleaved => (sessionCache' # NoCache => IsPaired(sessionCache'))
    BY <1>6, <2>1 DEF SessionInv, PairsInv
  <2>4. new.turns # <<>> => held # <<>>
    BY <1>2
  <2>5. held # <<>> => \E q \in Ask : asking[q].turns # <<>>
    OBVIOUS
  <2> HIDE DEF held
  <2> QED BY <1>6, <2>2, <2>3, <2>4, <2>5 DEF ReadsKnown
<1> QED BY <1>7, <1>8, <1>9, <1>10, ReadsOnInv

-----------------------------------------------------------------------------
(* The steps of the transaction that appends a turn                        *)

\* A row of its own that is added by an open transaction, and what it changes.
AddsRow(r, m, pc2) ==
    /\ m \in MessageRow /\ m.turn = r
    /\ pc2 \in {"answer", "cache"}
    /\ asking[r].pc = IF pc2 = "answer" THEN "insert" ELSE "answer"
    /\ messageRows' = Append(messageRows, m)
    /\ asking' = [asking EXCEPT ![r].pc = pc2]
    /\ sessionRow = "stored" /\ (interleaved => interleaved') /\ interleaved' \in BOOLEAN
    /\ UNCHANGED <<sessionRow, keptTurns, sessionTitle, sessionCache, removal,
                   redisLeft, doubt, phantom>>

LEMMA AddsRowFacts ==
    ASSUME SessionAssumption, SessionInv, NEW r \in Ask, NEW m, NEW pc2, AddsRow(r, m, pc2)
    PROVE  /\ asking' \in [Ask -> [pc : AskPc, turns : Seq(CachedTurn)]]
           /\ asking'[r].pc = pc2 /\ asking'[r].turns = asking[r].turns
           /\ \A q \in Ask : q # r => asking'[q] = asking[q]
           /\ AtWork' = AtWork \union {r}
           /\ Visible' = Visible /\ TheTurns' = TheTurns
<1>1. /\ asking \in [Ask -> [pc : AskPc, turns : Seq(CachedTurn)]]
      /\ asking' = [asking EXCEPT ![r].pc = pc2]
      /\ pc2 \in AskPc /\ pc2 \in Open
      /\ messageRows' = Append(messageRows, m) /\ keptTurns' = keptTurns
      /\ m \in MessageRow /\ m.turn = r
  BY DEF AddsRow, SessionInv, SessionTypes, AskPc, Window, Open
<1>2. /\ asking' \in [Ask -> [pc : AskPc, turns : Seq(CachedTurn)]]
      /\ asking'[r].pc = pc2 /\ asking'[r].turns = asking[r].turns
      /\ \A q \in Ask : q # r => asking'[q] = asking[q]
  BY <1>1
<1>3. AtWork' = AtWork \union {r}
  BY <1>1, <1>2 DEF AtWork
<1>4. r \notin keptTurns
  <2>1. asking[r].pc # "over"
    BY DEF AddsRow
  <2> QED BY <2>1, SessionFacts
<1>5. Visible' = Visible
  <2>1. messageRows \in Seq(MessageRow) /\ Visible \in Seq(MessageRow)
    BY SessionFacts
  <2>2. OfTurns(Append(messageRows, m), keptTurns) = OfTurns(messageRows, keptTurns) \o <<>>
    BY <1>1, <1>4, <2>1, OfTurnsAppend
  <2>3. Visible \o <<>> = Visible
    <3> HIDE DEF Visible
    <3> QED BY <2>1
  <2> QED BY <1>1, <2>2, <2>3 DEF Visible
<1>6. TheTurns' = TheTurns
  BY <1>5 DEF TheTurns
<1> QED BY <1>2, <1>3, <1>5, <1>6

LEMMA AddsRowInv ==
    ASSUME SessionAssumption, SessionInv, NEW r \in Ask, NEW m, NEW pc2, AddsRow(r, m, pc2),
           LastRows'
    PROVE  SessionInv'
<1>1. /\ asking' \in [Ask -> [pc : AskPc, turns : Seq(CachedTurn)]]
      /\ asking'[r].pc = pc2 /\ asking'[r].turns = asking[r].turns
      /\ \A q \in Ask : q # r => asking'[q] = asking[q]
      /\ AtWork' = AtWork \union {r}
      /\ Visible' = Visible /\ TheTurns' = TheTurns
  BY AddsRowFacts
<1>2. /\ m \in MessageRow /\ m.turn = r
      /\ asking[r].pc \in {"insert", "answer"} /\ pc2 \in {"answer", "cache"}
      /\ messageRows' = Append(messageRows, m)
      /\ sessionRow = "stored" /\ (interleaved => interleaved') /\ interleaved' \in BOOLEAN
      /\ sessionRow' = sessionRow /\ keptTurns' = keptTurns /\ sessionTitle' = sessionTitle
      /\ sessionCache' = sessionCache /\ removal' = removal /\ redisLeft' = redisLeft
      /\ doubt' = doubt /\ phantom' = phantom
  BY DEF AddsRow
<1>3. asking[r].pc \in Window /\ pc2 \in Window /\ pc2 \in Open /\ asking[r].pc \in {"insert"} \union Open
  BY <1>2 DEF Window, Open
<1>4. SessionTypes'
  <2>1. messageRows' \in Seq(RowsOf(keptTurns \union AtWork'))
    <3>1. messageRows \in Seq(RowsOf(keptTurns \union AtWork))
      BY DEF SessionInv, SessionTypes
    <3>2. RowsOf(keptTurns \union AtWork) \subseteq RowsOf(keptTurns \union AtWork')
      BY <1>1 DEF RowsOf
    <3>3. m \in RowsOf(keptTurns \union AtWork')
      BY <1>1, <1>2 DEF RowsOf
    <3>4. messageRows \in Seq(RowsOf(keptTurns \union AtWork'))
      BY <3>1, <3>2, SeqOfMore
    <3> QED BY <1>2, <3>3, <3>4, AppendProperties
  <2> QED BY <1>1, <1>2, <2>1 DEF SessionInv, SessionTypes
<1>5. SessionOrder'
  <2>1. r \notin keptTurns
    BY <1>2 DEF SessionInv, SessionOrder
  <2>2. \A q \in Ask : q \in keptTurns' => asking'[q].pc = "over"
    <3>1. \A q \in Ask : q \in keptTurns => asking[q].pc = "over"
      BY DEF SessionInv, SessionOrder
    <3>2. \A q \in Ask : q \in keptTurns => asking'[q] = asking[q]
      BY <1>1, <2>1
    <3>3. keptTurns' = keptTurns
      BY <1>2
    <3> QED BY <3>1, <3>2, <3>3
  <2>3. sessionRow' = "leaving" <=> removal' \in {"cache", "commit"}
    BY <1>2 DEF SessionInv, SessionOrder
  <2> QED BY <1>2, <2>2, <2>3 DEF SessionOrder
<1>6. \A q \in Ask : asking'[q].pc \in Window <=> asking[q].pc \in Window
  BY <1>1, <1>3
<1>7. OneUser'
  BY <1>2, <1>6 DEF SessionInv, OneUser
<1>8. \A q \in Ask : /\ asking'[q].turns = asking[q].turns
                     /\ asking'[q].pc = "commit" <=> asking[q].pc = "commit"
                     /\ asking'[q].pc \in {"fillLoad", "fillSave"} => asking'[q] = asking[q]
                     /\ asking'[q].pc \in {"insert"} \union Open => asking[q].pc \in {"insert"} \union Open
  BY <1>1, <1>2, <1>3
<1>9. EntryInv'
  <2> SUFFICES ASSUME ~doubt
               PROVE  /\ sessionCache # NoCache /\ (\A q \in Ask : asking'[q].pc # "commit") =>
                            /\ Agrees(sessionCache, TheTurns)
                            /\ sessionRow = "stored" \/ removal = "cache"
                      /\ \A q \in Ask : asking'[q].pc \in {"fillLoad", "fillSave"} =>
                            asking'[q].turns = TheTurns /\ sessionRow = "stored"
                      /\ \A q \in Ask : asking'[q].pc \in {"insert"} \union Open /\ sessionRow = "stored" =>
                            Agrees(asking'[q].turns, TheTurns)
                      /\ \A q \in Ask : asking'[q].pc = "commit" =>
                            \/ sessionCache = NoCache
                            \/ sessionCache = LastTurns(Append(asking'[q].turns, <<q, q>>))
    BY <1>1, <1>2 DEF EntryInv, Agrees, LastTurns
  <2> QED BY <1>8 DEF SessionInv, EntryInv
<1>10. PairsInv'
  <2> SUFFICES ASSUME ~interleaved
               PROVE  /\ IsPaired(TheTurns')
                      /\ sessionCache # NoCache => IsPaired(sessionCache)
                      /\ \A q \in Ask : IsPaired(asking'[q].turns)
    BY <1>2 DEF PairsInv, IsPaired
  <2> QED BY <1>1, <1>8 DEF SessionInv, PairsInv
<1>11. TitleInv'
  BY <1>2, <1>8 DEF SessionInv, TitleInv
<1> QED BY <1>4, <1>5, <1>7, <1>9, <1>10, <1>11 DEF SessionInv

\* A question that the foreign key refuses ends the request; any other adds a row.
LEMMA SaveQuestionInv ==
    ASSUME SessionAssumption, SessionInv, NEW r \in Ask, SaveQuestion(r)
    PROVE  SessionInv'
<1>1. /\ asking[r].pc = "insert" /\ sessionRow # "leaving"
      /\ UNCHANGED <<sessionRow, keptTurns, sessionTitle, sessionCache, removal,
                     redisLeft, doubt, phantom>>
  BY DEF SaveQuestion
<1>2. CASE sessionRow = "gone"
  <2> DEFINE new == [pc |-> "over", turns |-> <<>>]
  <2>1. /\ asking' = [asking EXCEPT ![r] = new]
        /\ messageRows' = messageRows /\ interleaved' = interleaved
    BY <1>2 DEF SaveQuestion, Over, Go
  <2>2. new \in [pc : AskPc, turns : Seq(CachedTurn)] /\ new.pc = "over" /\ new.turns = <<>>
    BY DEF AskPc
  <2> HIDE DEF new
  <2>3. /\ asking' \in [Ask -> [pc : AskPc, turns : Seq(CachedTurn)]]
        /\ asking'[r].pc = "over" /\ asking'[r].turns = <<>>
        /\ \A q \in Ask : q # r => asking'[q] = asking[q]
    BY <2>1, <2>2 DEF SessionInv, SessionTypes
  <2>4. AtWork = {} /\ AtWork' = {}
    <3>1. AtWork = {}
      BY <1>2 DEF SessionInv, SessionOrder
    <3> QED BY <2>3, <3>1 DEF AtWork, Open
  <2>5. Visible' = Visible /\ TheTurns' = TheTurns
    BY <1>1, <2>1, RowsKept
  <2>6. SessionTypes'
    BY <1>1, <2>1, <2>3, <2>4 DEF SessionInv, SessionTypes
  <2>7. SessionOrder'
    BY <1>1, <2>3, <2>4 DEF SessionInv, SessionOrder
  <2>8. \A q \in Ask : /\ asking'[q].pc \in Window => q # r /\ asking[q].pc \in Window
                       /\ asking'[q].pc \notin Open /\ asking[q].pc \notin Open
    <3>1. \A q \in Ask : asking'[q].pc \in Window => q # r /\ asking[q].pc \in Window
      BY <2>3 DEF Window, Open
    <3> QED BY <2>4, <3>1 DEF AtWork
  <2>9. OneUser'
    BY <1>1, <2>8 DEF SessionInv, OneUser
  <2>10. LastRows'
    BY <2>4 DEF LastRows
  <2>11. EntryInv'
    <3> SUFFICES ASSUME ~doubt
                 PROVE  sessionCache = NoCache /\ \A q \in Ask : asking'[q].pc \notin {"fillLoad", "fillSave"}
      BY <1>1, <1>2, <2>8 DEF EntryInv, Open
    <3>1. /\ removal \notin {"cache", "commit"}
          /\ \A q \in Ask : asking[q].pc \in Window => q = r
      BY <1>1 DEF SessionInv, OneUser, Window
    <3>2. sessionCache = NoCache
      BY <1>2, <2>8, <3>1 DEF SessionInv, EntryInv, Open
    <3> QED BY <2>8, <3>1, <3>2 DEF Window
  <2>12. PairsInv'
    <3> SUFFICES ASSUME ~interleaved
                 PROVE  /\ IsPaired(TheTurns')
                        /\ sessionCache # NoCache => IsPaired(sessionCache)
                        /\ \A q \in Ask : IsPaired(asking'[q].turns)
      BY <1>1, <2>1 DEF PairsInv, IsPaired
    <3>1. IsPaired(TheTurns) /\ \A q \in Ask : IsPaired(asking[q].turns)
      BY DEF SessionInv, PairsInv
    <3>2. ASSUME NEW q \in Ask PROVE IsPaired(asking'[q].turns)
      BY <2>3, <3>1, NothingPaired
    <3> QED BY <2>5, <3>1, <3>2 DEF SessionInv, PairsInv
  <2>13. TitleInv'
    BY <1>1, <1>2 DEF TitleInv
  <2> QED BY <2>6, <2>7, <2>9, <2>10, <2>11, <2>12, <2>13 DEF SessionInv
<1>3. CASE sessionRow # "gone"
  <2> DEFINE m == Said("user", r)
  <2>1. /\ messageRows' = Append(messageRows, m)
        /\ asking' = [asking EXCEPT ![r].pc = "answer"]
        /\ interleaved' = (interleaved \/ \E q \in Ask : asking[q].pc \in Open)
    BY <1>3 DEF SaveQuestion
  <2>2. m \in MessageRow /\ m.turn = r
    BY DEF Said, MessageRow
  <2>3. sessionRow = "stored"
    BY <1>1, <1>3 DEF SessionInv, SessionTypes
  <2> HIDE DEF m
  <2>4. AddsRow(r, m, "answer")
    BY <1>1, <2>1, <2>2, <2>3 DEF AddsRow
  <2>5. LastRows'
    <3> SUFFICES ASSUME ~doubt' \/ ~interleaved', NEW q \in AtWork'
                 PROVE  AtWork' = {q} /\ messageRows' = Visible' \o Added(q)'
      BY DEF LastRows
    <3>1. AtWork = {}
      <4>1. CASE ~interleaved'
        BY <2>1, <4>1 DEF AtWork
      <4>2. CASE ~doubt'
        <5>1. asking[r].pc \in Window /\ asking[r].pc \notin Open
          BY <1>1 DEF Window, Open
        <5>2. \A p \in Ask : asking[p].pc \in Window => p = r
          BY <1>1, <4>2, <5>1 DEF SessionInv, OneUser
        <5> QED BY <5>1, <5>2 DEF AtWork, Window
      <4> QED BY <4>1, <4>2
    <3>2. AtWork' = {r} /\ Visible' = Visible /\ asking'[r].pc = "answer"
      BY <2>4, <3>1, AddsRowFacts
    <3>3. messageRows = Visible /\ messageRows \in Seq(MessageRow)
      BY <3>1, SessionFacts
    <3>4. messageRows' = messageRows \o <<m>>
      BY <2>1, <2>2, <3>3
    <3>5. Added(r)' = <<m>>
      BY <3>2 DEF Added, m
    <3> QED BY <3>2, <3>3, <3>4, <3>5
  <2> QED BY <2>4, <2>5, AddsRowInv
<1> QED BY <1>2, <1>3

LEMMA SaveAnswerInv ==
    ASSUME SessionAssumption, SessionInv, NEW r \in Ask, SaveAnswer(r)
    PROVE  SessionInv'
<1> DEFINE m == Said("assistant", r)
           q0 == Said("user", r)
<1>1. /\ asking[r].pc = "answer" /\ messageRows' = Append(messageRows, m)
      /\ asking' = [asking EXCEPT ![r].pc = "cache"]
      /\ UNCHANGED <<sessionRow, keptTurns, sessionTitle, sessionCache, removal,
                     redisLeft, doubt, interleaved, phantom>>
  BY DEF SaveAnswer
<1>2. m \in MessageRow /\ m.turn = r /\ q0 \in MessageRow
  BY DEF Said, MessageRow
<1>3. r \in AtWork
  BY <1>1 DEF AtWork, Open
<1>4. sessionRow = "stored" /\ interleaved \in BOOLEAN
  BY <1>3 DEF SessionInv, SessionOrder, SessionTypes
<1> HIDE DEF m, q0
<1>5. AddsRow(r, m, "cache")
  BY <1>1, <1>2, <1>4 DEF AddsRow
<1>6. LastRows'
  <2> SUFFICES ASSUME ~doubt' \/ ~interleaved', NEW q \in AtWork'
               PROVE  AtWork' = {q} /\ messageRows' = Visible' \o Added(q)'
    BY DEF LastRows
  <2>1. AtWork = {r} /\ messageRows = Visible \o Added(r)
    BY <1>1, <1>3 DEF SessionInv, LastRows
  <2>2. AtWork' = {r} /\ Visible' = Visible /\ asking'[r].pc = "cache"
    BY <1>5, <2>1, AddsRowFacts
  <2>3. Added(r) = <<q0>> /\ Added(r)' = <<q0, m>>
    BY <1>1, <2>2 DEF Added, m, q0
  <2>4. Append(Visible \o <<q0>>, m) = Visible \o <<q0, m>>
    <3>1. Visible \in Seq(MessageRow)
      BY SessionFacts
    <3> HIDE DEF Visible
    <3> QED BY <1>2, <3>1
  <2> QED BY <1>1, <2>1, <2>2, <2>3, <2>4
<1> QED BY <1>5, <1>6, AddsRowInv

LEMMA LastTurnsPaired ==
    ASSUME SessionAssumption, NEW turns \in Seq(CachedTurn), IsPaired(turns), NEW r \in Ask
    PROVE  /\ IsPaired(LastTurns(Append(turns, <<r, r>>)))
           /\ IsPaired(Append(turns, <<r, r>>))
           /\ LastTurns(Append(turns, <<r, r>>)) \in Seq(CachedTurn)
<1> DEFINE more == Append(turns, <<r, r>>)
           last == LastTurns(more)
<1>1. <<r, r>> \in CachedTurn
  BY DEF CachedTurn
<1>2. /\ more \in Seq(CachedTurn) /\ Len(more) = Len(turns) + 1
      /\ more[Len(turns) + 1] = <<r, r>> /\ \A i \in 1 .. Len(turns) : more[i] = turns[i]
      /\ Len(turns) \in Nat
  BY <1>1, AppendProperties
<1> HIDE DEF more
<1>3. \A i \in 1 .. Len(more) : more[i][1] = more[i][2]
  <2> SUFFICES ASSUME NEW i \in 1 .. Len(more) PROVE more[i][1] = more[i][2]
    OBVIOUS
  <2>1. CASE i = Len(turns) + 1
    BY <1>2, <2>1
  <2>2. CASE i # Len(turns) + 1
    <3>1. i \in 1 .. Len(turns)
      BY <1>2, <2>2
    <3>2. i \in DOMAIN turns
      BY <3>1
    <3> QED BY <1>2, <3>1, <3>2 DEF IsPaired
  <2> QED BY <2>1, <2>2
<1>4. DOMAIN more = 1 .. Len(more)
  BY <1>2
<1>5. IsPaired(more)
  BY <1>3, <1>4 DEF IsPaired
<1>6. /\ last \in Seq(CachedTurn) /\ Len(last) <= Len(more)
      /\ \A i \in 1 .. Len(last) : last[i] = more[Len(more) - Len(last) + i]
  BY <1>2, LastTurnsAre
<1> HIDE DEF last
<1>7. DOMAIN last = 1 .. Len(last) /\ Len(last) \in Nat /\ Len(more) \in Nat
  BY <1>2, <1>6
<1>8. \A i \in 1 .. Len(last) : Len(more) - Len(last) + i \in 1 .. Len(more)
  BY <1>6, <1>7
<1>9. IsPaired(last)
  <2>1. ASSUME NEW i \in 1 .. Len(last) PROVE last[i][1] = last[i][2]
    <3>1. last[i] = more[Len(more) - Len(last) + i]
      BY <1>6
    <3> QED BY <1>3, <1>8, <3>1
  <2> QED BY <1>7, <2>1 DEF IsPaired
<1> QED BY <1>5, <1>6, <1>9 DEF last, more

LEMMA WriteCacheInv ==
    ASSUME SessionAssumption, SessionInv, NEW r \in Ask, WriteCache(r)
    PROVE  SessionInv'
<1> DEFINE held == asking[r].turns
           entry == LastTurns(Append(held, <<r, r>>))
<1>1. /\ asking[r].pc = "cache"
      /\ asking' = [asking EXCEPT ![r].pc = "commit"]
      /\ sessionRow' = sessionRow /\ messageRows' = messageRows /\ keptTurns' = keptTurns
      /\ sessionTitle' = sessionTitle /\ removal' = removal
      /\ interleaved' = interleaved /\ phantom' = phantom
  BY DEF WriteCache
<1>2. held \in Seq(CachedTurn) /\ entry \in Seq(CachedTurn)
  <2>1. held \in Seq(CachedTurn)
    BY SessionFacts
  <2>2. Append(held, <<r, r>>) \in Seq(CachedTurn)
    <3>1. <<r, r>> \in CachedTurn
      BY DEF CachedTurn
    <3> HIDE DEF held
    <3> QED BY <2>1, <3>1, AppendProperties
  <2> QED BY <2>1, <2>2, LastTurnsAre
<1>3. /\ redisLeft' \in 0 .. RedisFaults
      /\ \/ sessionCache' = entry
         \/ sessionCache' = sessionCache /\ doubt' = (doubt \/ sessionCache # NoCache)
      /\ doubt' \in BOOLEAN /\ (doubt => doubt')
  <2>1. SaveToRedis(entry)
    BY DEF WriteCache
  <2>2. CASE Redis(TRUE) /\ sessionCache' = entry /\ UNCHANGED doubt
    BY <2>2 DEF Redis, SessionInv, SessionTypes
  <2>3. CASE RedisDown /\ UNCHANGED sessionCache /\ doubt' = (doubt \/ sessionCache # NoCache)
    <3>1. redisLeft' \in 0 .. RedisFaults
      BY <2>3 DEF RedisDown, SessionInv, SessionTypes, SessionAssumption
    <3> QED BY <2>3, <3>1
  <2> QED BY <2>1, <2>2, <2>3 DEF SaveToRedis
<1> HIDE DEF entry
<1>4. /\ asking' \in [Ask -> [pc : AskPc, turns : Seq(CachedTurn)]]
      /\ asking'[r].pc = "commit" /\ asking'[r].turns = held
      /\ \A q \in Ask : q # r => asking'[q] = asking[q]
  <2>1. "commit" \in AskPc /\ asking \in [Ask -> [pc : AskPc, turns : Seq(CachedTurn)]]
    BY DEF AskPc, Window, Open, SessionInv, SessionTypes
  <2> QED BY <1>1, <2>1
<1>5. /\ AtWork' = AtWork /\ r \in AtWork
      /\ \A q \in Ask : Added(q)' = Added(q) /\ (asking'[q].pc \in Window <=> asking[q].pc \in Window)
  <2>1. r \in AtWork /\ "commit" \in Open /\ "cache" \in Open /\ "commit" \in Window /\ "cache" \in Window
    BY <1>1 DEF AtWork, Window, Open
  <2>2. AtWork' = AtWork
    BY <1>4, <2>1 DEF AtWork
  <2> QED BY <1>1, <1>4, <2>1, <2>2 DEF Added
<1>6. Visible' = Visible /\ TheTurns' = TheTurns
  BY <1>1, RowsKept
<1>7. \A q \in Ask : asking'[q].turns = asking[q].turns
  BY <1>4
<1>8. SessionTypes'
  <2>1. sessionCache' = NoCache \/ sessionCache' \in Seq(CachedTurn)
    BY <1>2, <1>3 DEF SessionInv, SessionTypes
  <2> QED BY <1>1, <1>3, <1>4, <1>5, <2>1 DEF SessionInv, SessionTypes
<1>9. SessionOrder'
  BY <1>1, <1>4, <1>5 DEF SessionInv, SessionOrder
<1>10. OneUser'
  BY <1>1, <1>3, <1>5 DEF SessionInv, OneUser
<1>11. LastRows'
  <2>1. AtWork \subseteq Ask
    BY DEF AtWork
  <2> QED BY <1>1, <1>3, <1>5, <1>6, <2>1 DEF SessionInv, LastRows
<1>12. EntryInv'
  <2> SUFFICES ASSUME ~doubt'
               PROVE  /\ \A q \in Ask : asking'[q].pc \notin {"fillLoad", "fillSave"}
                      /\ \A q \in Ask : asking'[q].pc \in {"insert"} \union Open =>
                            Agrees(asking'[q].turns, TheTurns)
                      /\ \A q \in Ask : asking'[q].pc = "commit" =>
                            \/ sessionCache' = NoCache
                            \/ sessionCache' = LastTurns(Append(asking'[q].turns, <<q, q>>))
    <3>1. r \in Ask /\ asking'[r].pc = "commit"
      BY <1>4
    <3> QED BY <1>6, <3>1 DEF EntryInv, Agrees, LastTurns
  <2>1. ~doubt
    BY <1>3
  <2>2. \A q \in Ask : asking'[q].pc \in Window => q = r
    BY <1>1, <1>5, <2>1 DEF SessionInv, OneUser, AtWork, Window
  <2>3. Agrees(held, TheTurns)
    <3>1. sessionRow = "stored"
      BY <1>5 DEF SessionInv, SessionOrder
    <3> QED BY <1>5, <2>1, <3>1 DEF SessionInv, EntryInv, AtWork
  <2>4. sessionCache' = NoCache \/ sessionCache' = entry
    BY <1>3
  <2>5. entry = LastTurns(Append(asking'[r].turns, <<r, r>>))
    BY <1>4 DEF entry
  <2>6. \A q \in Ask : asking'[q].pc \in {"fillLoad", "fillSave", "insert"} \union Open => q = r
    BY <2>2 DEF Window
  <2>7. asking'[r].pc \notin {"fillLoad", "fillSave"} /\ "commit" \in Open
    BY <1>4 DEF Open
  <2> HIDE DEF held
  <2> QED BY <1>4, <2>3, <2>4, <2>5, <2>6, <2>7
<1>13. PairsInv'
  <2> SUFFICES ASSUME ~interleaved
               PROVE  /\ IsPaired(TheTurns')
                      /\ sessionCache' # NoCache => IsPaired(sessionCache')
                      /\ \A q \in Ask : IsPaired(asking'[q].turns)
    BY <1>1 DEF PairsInv, IsPaired
  <2>1. IsPaired(TheTurns) /\ \A q \in Ask : IsPaired(asking[q].turns)
    BY DEF SessionInv, PairsInv
  <2>2. IsPaired(entry)
    <3>1. IsPaired(held)
      BY <2>1
    <3> HIDE DEF held
    <3> QED BY <1>2, <3>1, LastTurnsPaired DEF entry
  <2>3. sessionCache' # NoCache => IsPaired(sessionCache')
    BY <1>3, <2>2 DEF SessionInv, PairsInv
  <2> QED BY <1>6, <1>7, <2>1, <2>3
<1>14. TitleInv'
  <2> SUFFICES ASSUME sessionRow # "gone", sessionTitle = NoAsk, ~phantom,
                      \/ keptTurns # {} \/ (sessionCache' # NoCache /\ sessionCache' # <<>>)
                      \/ \E q \in Ask : asking'[q].turns # <<>>
               PROVE  \E q \in Ask : asking'[q].pc = "commit" /\ asking'[q].turns = <<>>
    BY <1>1 DEF TitleInv
  <2>1. CASE held = <<>>
    BY <1>4, <2>1
  <2>2. CASE held # <<>>
    <3>1. PICK q \in Ask : asking[q].pc = "commit" /\ asking[q].turns = <<>>
      BY <2>2 DEF SessionInv, TitleInv
    <3>2. q # r
      BY <1>1, <3>1
    <3> QED BY <1>4, <3>1, <3>2
  <2> QED BY <2>1, <2>2
<1> QED BY <1>8, <1>9, <1>10, <1>11, <1>12, <1>13, <1>14 DEF SessionInv

\* A request that leaves its transaction.
Leaves(r) ==
    /\ asking[r].pc \in Open
    /\ asking' = [asking EXCEPT ![r] = [pc |-> "over", turns |-> <<>>]]
    /\ sessionRow' = sessionRow /\ sessionCache' = sessionCache /\ removal' = removal
    /\ redisLeft' = redisLeft /\ interleaved' = interleaved
    /\ (doubt => doubt') /\ (phantom => phantom')

LEMMA LeavesFacts ==
    ASSUME SessionAssumption, SessionInv, NEW r \in Ask, Leaves(r)
    PROVE  /\ asking' \in [Ask -> [pc : AskPc, turns : Seq(CachedTurn)]]
           /\ asking'[r].pc = "over" /\ asking'[r].turns = <<>>
           /\ \A q \in Ask : q # r => asking'[q] = asking[q]
           /\ r \in AtWork /\ AtWork' = AtWork \ {r} /\ AtWork \subseteq Ask
           /\ sessionRow = "stored" /\ removal \notin {"cache", "commit"} /\ r \notin keptTurns
           /\ OneUser'
           /\ ~doubt' \/ ~interleaved' => AtWork = {r} /\ AtWork' = {} /\ messageRows = Visible \o Added(r)
           /\ ~doubt => \A q \in Ask : asking[q].pc \in Window => q = r
<1> DEFINE new == [pc |-> "over", turns |-> <<>>]
<1>1. new \in [pc : AskPc, turns : Seq(CachedTurn)] /\ new.pc = "over" /\ new.turns = <<>>
  BY DEF AskPc
<1>2. asking' = [asking EXCEPT ![r] = new]
  BY DEF Leaves
<1> HIDE DEF new
<1>3. /\ asking' \in [Ask -> [pc : AskPc, turns : Seq(CachedTurn)]]
      /\ asking'[r].pc = "over" /\ asking'[r].turns = <<>>
      /\ \A q \in Ask : q # r => asking'[q] = asking[q]
  BY <1>1, <1>2 DEF SessionInv, SessionTypes
<1>4. r \in AtWork /\ AtWork' = AtWork \ {r} /\ AtWork \subseteq Ask
  <2>1. asking[r].pc \in Open /\ "over" \notin Open
    BY DEF Leaves, Open
  <2> QED BY <1>3, <2>1 DEF AtWork
<1>5. sessionRow = "stored" /\ removal \notin {"cache", "commit"}
  BY <1>4 DEF SessionInv, SessionOrder
<1>6. r \notin keptTurns
  BY DEF Leaves, SessionInv, SessionOrder, Open
<1>7. asking[r].pc \in Window /\ "over" \notin Window
  BY DEF Leaves, Window, Open
<1>8. ~doubt => \A q \in Ask : asking[q].pc \in Window => q = r
  BY <1>7 DEF SessionInv, OneUser
<1>9. OneUser'
  <2>1. \A q \in Ask : asking'[q].pc \in Window => asking[q].pc \in Window /\ q # r
    BY <1>3, <1>7
  <2> QED BY <1>8, <2>1 DEF OneUser, Leaves
<1>10. ASSUME ~doubt' \/ ~interleaved'
       PROVE  AtWork = {r} /\ AtWork' = {} /\ messageRows = Visible \o Added(r)
  <2>1. ~doubt \/ ~interleaved
    BY <1>10 DEF Leaves
  <2>2. AtWork = {r} /\ messageRows = Visible \o Added(r)
    BY <1>4, <2>1 DEF SessionInv, LastRows
  <2> QED BY <1>4, <2>2
<1> QED BY <1>3, <1>4, <1>5, <1>6, <1>8, <1>9, <1>10

LEMMA CommitTurnInv ==
    ASSUME SessionAssumption, SessionInv, NEW r \in Ask, CommitTurn(r)
    PROVE  SessionInv'
<1> DEFINE held == asking[r].turns
<1>1. /\ asking[r].pc = "commit" /\ Leaves(r)
      /\ keptTurns' = keptTurns \union {r}
      /\ sessionTitle' = (IF held = <<>> THEN r ELSE sessionTitle)
      /\ messageRows' = messageRows /\ doubt' = doubt /\ phantom' = phantom
      /\ sessionRow' = sessionRow /\ sessionCache' = sessionCache /\ removal' = removal
      /\ redisLeft' = redisLeft /\ interleaved' = interleaved
  BY DEF CommitTurn, Leaves, Over, Go, Open, FirstTurn
<1>2. /\ asking' \in [Ask -> [pc : AskPc, turns : Seq(CachedTurn)]]
      /\ asking'[r].pc = "over" /\ asking'[r].turns = <<>>
      /\ \A q \in Ask : q # r => asking'[q] = asking[q]
      /\ r \in AtWork /\ AtWork' = AtWork \ {r} /\ AtWork \subseteq Ask
      /\ sessionRow = "stored" /\ removal \notin {"cache", "commit"}
      /\ OneUser'
      /\ ~doubt' \/ ~interleaved' => AtWork = {r} /\ AtWork' = {} /\ messageRows = Visible \o Added(r)
      /\ ~doubt => \A q \in Ask : asking[q].pc \in Window => q = r
  BY <1>1, LeavesFacts
<1>3. keptTurns' \union AtWork' = keptTurns \union AtWork
  BY <1>1, <1>2
<1>4. SessionTypes'
  <2>1. sessionTitle' \in Ask \union {OldTurn, NoAsk}
    BY <1>1 DEF SessionInv, SessionTypes
  <2>2. keptTurns' \subseteq Ask \union {OldTurn}
    BY <1>1 DEF SessionInv, SessionTypes
  <2> QED BY <1>1, <1>2, <1>3, <2>1, <2>2 DEF SessionInv, SessionTypes
<1>5. SessionOrder'
  BY <1>1, <1>2 DEF SessionInv, SessionOrder
<1>6. LastRows'
  BY <1>2 DEF LastRows
<1>7. ASSUME ~doubt \/ ~interleaved
      PROVE  TheTurns' = Append(TheTurns, <<r, r>>)
  <2>1. AtWork = {r} /\ messageRows = Visible \o Added(r)
    BY <1>1, <1>2, <1>7
  <2>2. messageRows' \in Seq(RowsOf(keptTurns'))
    <3>1. keptTurns' = keptTurns \union AtWork
      BY <1>1, <2>1
    <3> QED BY <1>1, <3>1 DEF SessionInv, SessionTypes
  <2>3. Visible' = messageRows'
    BY <2>2, OfTurnsAll DEF Visible
  <2>4. Added(r) = <<Said("user", r), Said("assistant", r)>>
    BY <1>1 DEF Added
  <2>5. TheTurns' = RebuildTurns(Visible \o <<Said("user", r), Said("assistant", r)>>)
    BY <1>1, <2>1, <2>3, <2>4 DEF TheTurns
  <2>6. Visible \in Seq(MessageRow)
    BY SessionFacts
  <2> HIDE DEF Visible
  <2> QED BY <2>5, <2>6, RebuildsTheLastTurn DEF TheTurns
<1>8. EntryInv'
  <2> SUFFICES ASSUME ~doubt
               PROVE  /\ sessionCache # NoCache => Agrees(sessionCache, TheTurns')
                      /\ \A q \in Ask : asking'[q].pc \notin {"fillLoad", "fillSave", "insert"} \union Open
    BY <1>1, <1>2 DEF EntryInv, Agrees, Open
  <2>1. \A q \in Ask : asking'[q].pc \notin {"fillLoad", "fillSave", "insert"} \union Open
    BY <1>2 DEF Window, Open
  <2>2. ASSUME sessionCache # NoCache PROVE Agrees(sessionCache, TheTurns')
    <3>1. sessionCache = LastTurns(Append(held, <<r, r>>))
      BY <1>1, <2>2 DEF SessionInv, EntryInv
    <3>2. Agrees(held, TheTurns)
      BY <1>1, <1>2 DEF SessionInv, EntryInv, Open
    <3>3. held \in Seq(CachedTurn) /\ TheTurns \in Seq(CachedTurn) /\ <<r, r>> \in CachedTurn
      BY SessionFacts DEF CachedTurn
    <3> HIDE DEF held
    <3>4. Agrees(LastTurns(Append(held, <<r, r>>)), Append(TheTurns, <<r, r>>))
      BY <3>2, <3>3, AgreesGoesOn
    <3> QED BY <1>7, <3>1, <3>4
  <2> QED BY <2>1, <2>2
<1>9. PairsInv'
  <2> SUFFICES ASSUME ~interleaved
               PROVE  /\ IsPaired(TheTurns')
                      /\ sessionCache # NoCache => IsPaired(sessionCache)
                      /\ \A q \in Ask : IsPaired(asking'[q].turns)
    BY <1>1 DEF PairsInv, IsPaired
  <2>1. /\ IsPaired(TheTurns) /\ (sessionCache # NoCache => IsPaired(sessionCache))
        /\ \A q \in Ask : IsPaired(asking[q].turns)
    BY DEF SessionInv, PairsInv
  <2>2. IsPaired(TheTurns')
    <3>1. IsPaired(Append(TheTurns, <<r, r>>))
      BY <2>1, SessionFacts, LastTurnsPaired
    <3> QED BY <1>7, <3>1
  <2>3. ASSUME NEW q \in Ask PROVE IsPaired(asking'[q].turns)
    BY <1>2, <2>1, NothingPaired
  <2> QED BY <2>1, <2>2, <2>3
<1>10. TitleInv'
  <2> SUFFICES ASSUME sessionTitle' = NoAsk, ~phantom
               PROVE  \E q \in Ask : asking'[q].pc = "commit" /\ asking'[q].turns = <<>>
    BY <1>1 DEF TitleInv
  <2>1. held # <<>> /\ sessionTitle = NoAsk
    BY <1>1 DEF SessionAssumption
  <2>2. PICK q \in Ask : asking[q].pc = "commit" /\ asking[q].turns = <<>>
    BY <1>2, <2>1 DEF SessionInv, TitleInv
  <2>3. q # r
    BY <2>1, <2>2
  <2> QED BY <1>2, <2>2, <2>3
<1> QED BY <1>2, <1>4, <1>5, <1>6, <1>8, <1>9, <1>10 DEF SessionInv

\* A turn that rolls back takes its rows with it, and no others.
LEMMA TurnRollsBackInv ==
    ASSUME SessionAssumption, SessionInv, NEW r \in Ask, TurnRollsBack(r)
    PROVE  SessionInv'
<1> DEFINE Others == (Ask \union {OldTurn}) \ {r}
<1>1. /\ asking[r].pc \in Open /\ Leaves(r)
      /\ messageRows' = OfTurns(messageRows, Others)
      /\ asking[r].pc = "commit" => doubt' = TRUE /\ phantom' = TRUE
      /\ asking[r].pc # "commit" => doubt' = doubt /\ phantom' = phantom
      /\ keptTurns' = keptTurns /\ sessionTitle' = sessionTitle
      /\ sessionRow' = sessionRow /\ sessionCache' = sessionCache /\ removal' = removal
      /\ redisLeft' = redisLeft /\ interleaved' = interleaved
  BY DEF TurnRollsBack, Leaves, Over, Go
<1>2. /\ asking' \in [Ask -> [pc : AskPc, turns : Seq(CachedTurn)]]
      /\ asking'[r].pc = "over" /\ asking'[r].turns = <<>>
      /\ \A q \in Ask : q # r => asking'[q] = asking[q]
      /\ r \in AtWork /\ AtWork' = AtWork \ {r} /\ AtWork \subseteq Ask
      /\ sessionRow = "stored" /\ removal \notin {"cache", "commit"} /\ r \notin keptTurns
      /\ OneUser'
      /\ ~doubt' \/ ~interleaved' => AtWork = {r} /\ AtWork' = {} /\ messageRows = Visible \o Added(r)
      /\ ~doubt => \A q \in Ask : asking[q].pc \in Window => q = r
  BY <1>1, LeavesFacts
<1>3. doubt \in BOOLEAN /\ phantom \in BOOLEAN
  BY DEF SessionInv, SessionTypes
<1>4. doubt' \in BOOLEAN /\ phantom' \in BOOLEAN
  BY <1>1, <1>3
<1>5. messageRows' \in Seq(RowsOf(keptTurns' \union AtWork'))
  <2> DEFINE X == RowsOf(keptTurns \union AtWork)
  <2>1. messageRows \in Seq(X)
    BY DEF SessionInv, SessionTypes
  <2> HIDE DEF X, Others
  <2>2. messageRows' \in Seq({m \in X : m.turn \in Others})
    BY <1>1, <2>1, OfTurnsType
  <2> DEFINE Y == {m \in X : m.turn \in Others}
             Z == RowsOf(keptTurns' \union AtWork')
  <2>3. Y \subseteq Z
    BY <1>1, <1>2 DEF X, Others, RowsOf
  <2>4. messageRows' \in Seq(Y)
    BY <2>2
  <2> HIDE DEF Y, Z
  <2>5. messageRows' \in Seq(Z)
    BY <2>3, <2>4, SeqOfMore
  <2> QED BY <2>5 DEF Z
<1>6. ASSUME ~doubt' \/ ~interleaved' PROVE Visible' = Visible /\ TheTurns' = TheTurns
  <2>1. messageRows = Visible \o Added(r)
    BY <1>2, <1>6
  <2>2. Visible \in Seq(RowsOf(keptTurns)) /\ Visible \in Seq(MessageRow)
    BY SessionFacts
  <2>3. RowsOf(keptTurns) \subseteq RowsOf(Others)
    BY <1>2 DEF RowsOf, SessionInv, SessionTypes
  <2>4. Visible \in Seq(RowsOf(Others))
    <3> HIDE DEF Others
    <3> QED BY <2>2, <2>3, SeqOfMore
  <2>5. messageRows' = Visible
    <3> DEFINE q0 == Said("user", r)
               a0 == Said("assistant", r)
    <3>1. q0 \in MessageRow /\ a0 \in MessageRow /\ q0.turn \notin Others /\ a0.turn \notin Others
      BY DEF Said, MessageRow
    <3>2. messageRows = Append(Visible, q0) \/ messageRows = Append(Append(Visible, q0), a0)
      <4>1. Added(r) = <<q0>> \/ Added(r) = <<q0, a0>>
        BY DEF Added
      <4> HIDE DEF Visible, q0, a0
      <4>2. Visible \o <<q0>> = Append(Visible, q0)
        BY <2>2, <3>1
      <4>3. Visible \o <<q0, a0>> = Append(Append(Visible, q0), a0)
        BY <2>2, <3>1
      <4> QED BY <2>1, <4>1, <4>2, <4>3
    <3> HIDE DEF q0, a0, Others, Visible
    <3>3. OfTurns(Visible, Others) = Visible
      BY <2>4, OfTurnsAll
    <3>4. Visible \o <<>> = Visible /\ Append(Visible, q0) \in Seq(MessageRow)
      BY <2>2, <3>1
    <3>5. OfTurns(Append(Visible, q0), Others) = Visible
      <4>1. OfTurns(Append(Visible, q0), Others)
               = OfTurns(Visible, Others) \o (IF q0.turn \in Others THEN <<q0>> ELSE <<>>)
        BY <2>2, <3>1, OfTurnsAppend
      <4> QED BY <3>1, <3>3, <3>4, <4>1
    <3>6. OfTurns(Append(Append(Visible, q0), a0), Others) = Visible
      <4> DEFINE more == Append(Visible, q0)
      <4>1. more \in Seq(MessageRow)
        BY <3>4
      <4> HIDE DEF more
      <4>2. OfTurns(Append(more, a0), Others)
               = OfTurns(more, Others) \o (IF a0.turn \in Others THEN <<a0>> ELSE <<>>)
        BY <3>1, <4>1, OfTurnsAppend
      <4>3. OfTurns(Append(more, a0), Others) = OfTurns(more, Others) \o <<>>
        BY <3>1, <4>2
      <4>4. OfTurns(more, Others) = Visible
        BY <3>5 DEF more
      <4> QED BY <3>4, <4>3, <4>4 DEF more
    <3> QED BY <1>1, <3>2, <3>5, <3>6
  <2>6. Visible' = Visible
    <3>1. OfTurns(Visible, keptTurns) = Visible
      BY <2>2, OfTurnsAll
    <3>2. Visible' = OfTurns(messageRows', keptTurns')
      BY DEF Visible
    <3> HIDE DEF Visible
    <3> QED BY <1>1, <2>5, <3>1, <3>2
  <2> QED BY <2>6 DEF TheTurns
<1>7. SessionTypes'
  BY <1>1, <1>2, <1>4, <1>5 DEF SessionInv, SessionTypes
<1>8. SessionOrder'
  BY <1>1, <1>2 DEF SessionInv, SessionOrder
<1>9. LastRows'
  BY <1>2 DEF LastRows
<1>10. EntryInv'
  <2> SUFFICES ASSUME ~doubt'
               PROVE  /\ sessionCache # NoCache => Agrees(sessionCache, TheTurns')
                      /\ \A q \in Ask : asking'[q].pc \notin {"fillLoad", "fillSave", "insert"} \union Open
    BY <1>1, <1>2 DEF EntryInv, Agrees, Open
  <2>1. asking[r].pc # "commit" /\ ~doubt
    BY <1>1
  <2>2. \A q \in Ask : asking[q].pc # "commit"
    BY <1>2, <2>1 DEF Window, Open
  <2>3. \A q \in Ask : asking'[q].pc \notin {"fillLoad", "fillSave", "insert"} \union Open
    BY <1>2, <2>1 DEF Window, Open
  <2>4. sessionCache # NoCache => Agrees(sessionCache, TheTurns)
    BY <2>1, <2>2 DEF SessionInv, EntryInv
  <2> QED BY <1>6, <2>3, <2>4
<1>11. PairsInv'
  <2> SUFFICES ASSUME ~interleaved
               PROVE  /\ IsPaired(TheTurns')
                      /\ sessionCache # NoCache => IsPaired(sessionCache)
                      /\ \A q \in Ask : IsPaired(asking'[q].turns)
    BY <1>1 DEF PairsInv, IsPaired
  <2>1. /\ IsPaired(TheTurns) /\ (sessionCache # NoCache => IsPaired(sessionCache))
        /\ \A q \in Ask : IsPaired(asking[q].turns)
    BY DEF SessionInv, PairsInv
  <2>2. ASSUME NEW q \in Ask PROVE IsPaired(asking'[q].turns)
    BY <1>2, <2>1, NothingPaired
  <2> QED BY <1>1, <1>6, <2>1, <2>2
<1>12. TitleInv'
  <2> SUFFICES ASSUME ~phantom', sessionTitle = NoAsk,
                      \/ keptTurns # {} \/ (sessionCache # NoCache /\ sessionCache # <<>>)
                      \/ \E q \in Ask : asking'[q].turns # <<>>
               PROVE  \E q \in Ask : asking'[q].pc = "commit" /\ asking'[q].turns = <<>>
    BY <1>1 DEF TitleInv
  <2>1. asking[r].pc # "commit" /\ ~phantom
    BY <1>1
  <2>2. (\E q \in Ask : asking'[q].turns # <<>>) => \E q \in Ask : asking[q].turns # <<>>
    BY <1>2
  <2>3. PICK q \in Ask : asking[q].pc = "commit" /\ asking[q].turns = <<>>
    BY <1>2, <2>1, <2>2 DEF SessionInv, TitleInv
  <2>4. q # r
    BY <2>1, <2>3
  <2> QED BY <1>2, <2>3, <2>4
<1> QED BY <1>2, <1>7, <1>8, <1>9, <1>10, <1>11, <1>12 DEF SessionInv

-----------------------------------------------------------------------------
(* deleteSession, and the expiry of the entry                              *)

LEMMA DeleteSessionInv ==
    ASSUME SessionAssumption, SessionInv, DeleteSession
    PROVE  SessionInv'
<1>1. /\ removal = "idle" /\ sessionRow = "stored" /\ sessionRow' = "leaving" /\ removal' = "cache"
      /\ \A r \in Ask : asking[r].pc \notin Open
      /\ doubt' = (doubt \/ \E r \in Ask : asking[r].pc \in Window)
      /\ messageRows' = messageRows /\ keptTurns' = keptTurns /\ sessionTitle' = sessionTitle
      /\ sessionCache' = sessionCache /\ asking' = asking /\ redisLeft' = redisLeft
      /\ interleaved' = interleaved /\ phantom' = phantom
  BY DEF DeleteSession
<1>2. AtWork = {} /\ AtWork' = AtWork
  BY <1>1 DEF AtWork
<1>3. Visible' = Visible /\ TheTurns' = TheTurns
  BY <1>1, RowsKept
<1>4. ~doubt' => ~doubt /\ \A r \in Ask : asking[r].pc \notin Window
  BY <1>1
<1>5. doubt' \in BOOLEAN
  BY <1>1 DEF SessionInv, SessionTypes
<1>6. SessionTypes'
  BY <1>1, <1>2, <1>5 DEF SessionInv, SessionTypes
<1>7. SessionOrder'
  BY <1>1, <1>2 DEF SessionInv, SessionOrder
<1>8. OneUser'
  BY <1>1, <1>4 DEF OneUser
<1>9. LastRows'
  BY <1>2 DEF LastRows
<1>10. EntryInv'
  <2> SUFFICES ASSUME ~doubt'
               PROVE  /\ sessionCache # NoCache => Agrees(sessionCache, TheTurns)
                      /\ \A r \in Ask : asking[r].pc \notin {"fillLoad", "fillSave", "insert"} \union Open
    BY <1>1, <1>3 DEF EntryInv, Agrees, Open
  <2>1. \A r \in Ask : asking[r].pc \notin {"fillLoad", "fillSave", "insert"} \union Open
    BY <1>4 DEF Window
  <2>2. \A r \in Ask : asking[r].pc # "commit"
    BY <1>1 DEF Open
  <2> QED BY <1>4, <2>1, <2>2 DEF SessionInv, EntryInv
<1>11. PairsInv'
  <2> SUFFICES PairsInv
    BY <1>1, <1>3 DEF PairsInv, IsPaired
  <2> QED BY DEF SessionInv
<1>12. TitleInv'
  BY <1>1 DEF SessionInv, TitleInv
<1> QED BY <1>6, <1>7, <1>8, <1>9, <1>10, <1>11, <1>12 DEF SessionInv

LEMMA DeleteFromRedisInv ==
    ASSUME SessionAssumption, SessionInv, DeleteFromRedis
    PROVE  SessionInv'
<1>1. /\ removal = "cache" /\ removal' = "commit"
      /\ sessionRow' = sessionRow /\ messageRows' = messageRows /\ keptTurns' = keptTurns
      /\ sessionTitle' = sessionTitle /\ asking' = asking
      /\ interleaved' = interleaved /\ phantom' = phantom
  BY DEF DeleteFromRedis
<1>2. /\ redisLeft' \in 0 .. RedisFaults /\ doubt' \in BOOLEAN /\ (doubt => doubt')
      /\ sessionCache' = NoCache \/ (sessionCache' = sessionCache /\ (sessionCache # NoCache => doubt'))
  <2>1. CASE Redis(TRUE) /\ sessionCache' = NoCache /\ UNCHANGED doubt
    BY <2>1 DEF Redis, SessionInv, SessionTypes
  <2>2. CASE RedisDown /\ UNCHANGED sessionCache /\ doubt' = (doubt \/ sessionCache # NoCache)
    <3>1. redisLeft' \in 0 .. RedisFaults
      BY <2>2 DEF RedisDown, SessionInv, SessionTypes, SessionAssumption
    <3> QED BY <2>2, <3>1
  <2> QED BY <2>1, <2>2 DEF DeleteFromRedis
<1>3. sessionRow = "leaving"
  BY <1>1 DEF SessionInv, SessionOrder
<1>4. AtWork = {} /\ AtWork' = AtWork
  BY <1>1, <1>3 DEF AtWork, SessionInv, SessionOrder
<1>5. Visible' = Visible /\ TheTurns' = TheTurns
  BY <1>1, RowsKept
<1>6. sessionCache' = NoCache \/ sessionCache' = sessionCache
  BY <1>2
<1>7. SessionTypes'
  BY <1>1, <1>2, <1>4, <1>6 DEF SessionInv, SessionTypes
<1>8. SessionOrder'
  BY <1>1, <1>4 DEF SessionInv, SessionOrder
<1>9. ~doubt' => \A r \in Ask : asking[r].pc \notin Window
  BY <1>1, <1>2 DEF SessionInv, OneUser
<1>10. OneUser'
  BY <1>1, <1>9 DEF OneUser
<1>11. LastRows'
  BY <1>4 DEF LastRows
<1>12. EntryInv'
  <2> SUFFICES ASSUME ~doubt'
               PROVE  /\ sessionCache' = NoCache
                      /\ \A r \in Ask : asking[r].pc \notin {"fillLoad", "fillSave", "insert"} \union Open
    BY <1>1 DEF EntryInv, Agrees, Open
  <2> QED BY <1>2, <1>9 DEF Window
<1>13. PairsInv'
  <2> SUFFICES ASSUME ~interleaved
               PROVE  /\ IsPaired(TheTurns)
                      /\ sessionCache' # NoCache => IsPaired(sessionCache')
                      /\ \A r \in Ask : IsPaired(asking[r].turns)
    BY <1>1, <1>5 DEF PairsInv, IsPaired
  <2> QED BY <1>6 DEF SessionInv, PairsInv
<1>14. TitleInv'
  BY <1>1, <1>6 DEF SessionInv, TitleInv
<1> QED BY <1>7, <1>8, <1>10, <1>11, <1>12, <1>13, <1>14 DEF SessionInv

LEMMA DeleteCommitsInv ==
    ASSUME SessionAssumption, SessionInv, DeleteCommits
    PROVE  SessionInv'
<1>1. /\ removal = "commit" /\ removal' = "over"
      /\ sessionRow' = "gone" /\ messageRows' = <<>> /\ keptTurns' = {} /\ sessionTitle' = NoAsk
      /\ sessionCache' = sessionCache /\ asking' = asking /\ redisLeft' = redisLeft
      /\ doubt' = doubt /\ interleaved' = interleaved /\ phantom' = phantom
  BY DEF DeleteCommits
<1>2. sessionRow = "leaving"
  BY <1>1 DEF SessionInv, SessionOrder
<1>3. AtWork = {} /\ AtWork' = AtWork
  BY <1>1, <1>2 DEF AtWork, SessionInv, SessionOrder
<1>4. messageRows' \in Seq(RowsOf(keptTurns'))
  BY <1>1
<1>5. TheTurns' = <<>>
  <2>1. Visible' = <<>>
    BY <1>1, <1>4, OfTurnsAll DEF Visible
  <2> QED BY <2>1, ReadNothing DEF TheTurns
<1>6. SessionTypes'
  <2>1. keptTurns' \union AtWork' = keptTurns'
    BY <1>3
  <2>2. messageRows' \in Seq(RowsOf(keptTurns' \union AtWork'))
    BY <1>4, <2>1
  <2> QED BY <1>1, <2>2 DEF SessionInv, SessionTypes
<1>7. SessionOrder'
  BY <1>1, <1>3 DEF SessionInv, SessionOrder
<1>8. ~doubt => \A r \in Ask : asking[r].pc \notin Window
  BY <1>1 DEF SessionInv, OneUser
<1>9. OneUser'
  BY <1>1, <1>8 DEF OneUser
<1>10. LastRows'
  BY <1>3 DEF LastRows
<1>11. EntryInv'
  <2> SUFFICES ASSUME ~doubt
               PROVE  /\ sessionCache = NoCache
                      /\ \A r \in Ask : asking[r].pc \notin {"fillLoad", "fillSave", "insert"} \union Open
    BY <1>1 DEF EntryInv, Agrees, Open
  <2>1. \A r \in Ask : asking[r].pc \notin {"fillLoad", "fillSave", "insert"} \union Open
    BY <1>8 DEF Window
  <2>2. \A r \in Ask : asking[r].pc # "commit"
    BY <1>8 DEF Window, Open
  <2> QED BY <1>1, <1>2, <2>1, <2>2 DEF SessionInv, EntryInv
<1>12. PairsInv'
  <2> SUFFICES ASSUME ~interleaved
               PROVE  /\ sessionCache # NoCache => IsPaired(sessionCache)
                      /\ \A r \in Ask : IsPaired(asking[r].turns)
    BY <1>1, <1>5, NothingPaired DEF PairsInv, IsPaired
  <2> QED BY DEF SessionInv, PairsInv
<1>13. TitleInv'
  BY <1>1 DEF TitleInv
<1> QED BY <1>6, <1>7, <1>9, <1>10, <1>11, <1>12, <1>13 DEF SessionInv

LEMMA DeleteRollsBackInv ==
    ASSUME SessionAssumption, SessionInv, DeleteRollsBack
    PROVE  SessionInv'
<1>1. /\ removal \in {"cache", "commit"} /\ removal' = "over" /\ sessionRow' = "stored"
      /\ messageRows' = messageRows /\ keptTurns' = keptTurns /\ sessionTitle' = sessionTitle
      /\ sessionCache' = sessionCache /\ asking' = asking /\ redisLeft' = redisLeft
      /\ doubt' = doubt /\ interleaved' = interleaved /\ phantom' = phantom
  BY DEF DeleteRollsBack
<1>2. sessionRow = "leaving"
  BY <1>1 DEF SessionInv, SessionOrder
<1>3. AtWork = {} /\ AtWork' = AtWork
  BY <1>1, <1>2 DEF AtWork, SessionInv, SessionOrder
<1>4. Visible' = Visible /\ TheTurns' = TheTurns
  BY <1>1, RowsKept
<1>5. ~doubt => \A r \in Ask : asking[r].pc \notin Window
  BY <1>1 DEF SessionInv, OneUser
<1>6. SessionTypes'
  BY <1>1, <1>3 DEF SessionInv, SessionTypes
<1>7. SessionOrder'
  BY <1>1, <1>3 DEF SessionInv, SessionOrder
<1>8. OneUser'
  BY <1>1, <1>5 DEF OneUser
<1>9. LastRows'
  BY <1>3 DEF LastRows
<1>10. EntryInv'
  <2> SUFFICES ASSUME ~doubt
               PROVE  /\ sessionCache # NoCache => Agrees(sessionCache, TheTurns)
                      /\ \A r \in Ask : asking[r].pc \notin {"fillLoad", "fillSave", "insert"} \union Open
    BY <1>1, <1>4 DEF EntryInv, Agrees, Open
  <2>1. \A r \in Ask : asking[r].pc \notin {"fillLoad", "fillSave", "insert"} \union Open
    BY <1>5 DEF Window
  <2>2. \A r \in Ask : asking[r].pc # "commit"
    BY <1>5 DEF Window, Open
  <2> QED BY <2>1, <2>2 DEF SessionInv, EntryInv
<1>11. PairsInv'
  <2> SUFFICES PairsInv
    BY <1>1, <1>4 DEF PairsInv, IsPaired
  <2> QED BY DEF SessionInv
<1>12. TitleInv'
  BY <1>1, <1>2 DEF SessionInv, TitleInv
<1> QED BY <1>6, <1>7, <1>8, <1>9, <1>10, <1>11, <1>12 DEF SessionInv

\* An expiry ends the doubt only when no request holds a copy of the entry.
LEMMA EntryExpiresInv ==
    ASSUME SessionAssumption, SessionInv, EntryExpires
    PROVE  SessionInv'
<1>1. /\ sessionCache' = NoCache
      /\ doubt' = (doubt /\ (removal \in {"cache", "commit"}
                              \/ \E r \in Ask : asking[r].pc \in Window))
      /\ sessionRow' = sessionRow /\ messageRows' = messageRows /\ keptTurns' = keptTurns
      /\ sessionTitle' = sessionTitle /\ asking' = asking /\ removal' = removal
      /\ redisLeft' = redisLeft /\ interleaved' = interleaved /\ phantom' = phantom
  BY DEF EntryExpires
<1>2. doubt \in BOOLEAN
  BY DEF SessionInv, SessionTypes
<1>3. /\ doubt' \in BOOLEAN
      /\ ~doubt' => ~doubt \/ /\ removal \notin {"cache", "commit"}
                              /\ \A r \in Ask : asking[r].pc \notin Window
  BY <1>1, <1>2
<1>4. AtWork' = AtWork /\ \A r \in Ask : Added(r)' = Added(r)
  BY <1>1 DEF AtWork, Added
<1>5. Visible' = Visible /\ TheTurns' = TheTurns
  BY <1>1, RowsKept
<1>6. SessionTypes'
  BY <1>1, <1>3, <1>4 DEF SessionInv, SessionTypes
<1>7. SessionOrder'
  BY <1>1, <1>4 DEF SessionInv, SessionOrder
<1>8. OneUser'
  BY <1>1, <1>3 DEF SessionInv, OneUser
<1>9. LastRows'
  <2>1. AtWork \subseteq Ask
    BY DEF AtWork
  <2>2. ~doubt' => ~doubt \/ AtWork = {}
    BY <1>3 DEF AtWork, Window
  <2> QED BY <1>1, <1>4, <1>5, <2>1, <2>2 DEF SessionInv, LastRows
<1>10. EntryInv'
  <2> SUFFICES ASSUME ~doubt'
               PROVE  /\ \A r \in Ask : asking[r].pc \in {"fillLoad", "fillSave"} =>
                            asking[r].turns = TheTurns /\ sessionRow = "stored"
                      /\ \A r \in Ask : asking[r].pc \in {"insert"} \union Open /\ sessionRow = "stored" =>
                            Agrees(asking[r].turns, TheTurns)
    BY <1>1, <1>5 DEF EntryInv, Agrees
  <2>1. CASE ~doubt
    BY <2>1 DEF SessionInv, EntryInv
  <2>2. CASE \A r \in Ask : asking[r].pc \notin Window
    <3>1. \A r \in Ask : asking[r].pc \notin {"fillLoad", "fillSave", "insert"} \union Open
      BY <2>2 DEF Window
    <3> QED BY <3>1
  <2> QED BY <1>3, <2>1, <2>2
<1>11. PairsInv'
  <2> SUFFICES ASSUME ~interleaved
               PROVE  IsPaired(TheTurns) /\ \A r \in Ask : IsPaired(asking[r].turns)
    BY <1>1, <1>5 DEF PairsInv, IsPaired
  <2> QED BY DEF SessionInv, PairsInv
<1>12. TitleInv'
  BY <1>1 DEF SessionInv, TitleInv
<1> QED BY <1>6, <1>7, <1>8, <1>9, <1>10, <1>11, <1>12 DEF SessionInv

LEMMA SessionNextInv ==
    ASSUME SessionAssumption, SessionInv, [SessionNext]_sessionVars
    PROVE  SessionInv'
<1>1. CASE UNCHANGED sessionVars
  <2>1. /\ sessionRow' = sessionRow /\ messageRows' = messageRows /\ keptTurns' = keptTurns
        /\ sessionTitle' = sessionTitle /\ sessionCache' = sessionCache /\ asking' = asking
        /\ removal' = removal /\ redisLeft' = redisLeft /\ doubt' = doubt
        /\ interleaved' = interleaved /\ phantom' = phantom
    BY <1>1 DEF sessionVars
  <2>2. AtWork' = AtWork /\ (\A r \in Ask : Added(r)' = Added(r)) /\ AtWork \subseteq Ask
    BY <2>1 DEF AtWork, Added
  <2>3. Visible' = Visible /\ TheTurns' = TheTurns
    BY <2>1, RowsKept
  <2>4. SessionTypes' /\ SessionOrder' /\ OneUser' /\ TitleInv'
    BY <2>1, <2>2 DEF SessionInv, SessionTypes, SessionOrder, OneUser, TitleInv
  <2>5. LastRows'
    BY <2>1, <2>2, <2>3 DEF SessionInv, LastRows
  <2>6. EntryInv'
    <3> SUFFICES EntryInv
      BY <2>1, <2>3 DEF EntryInv, Agrees, LastTurns
    <3> QED BY DEF SessionInv
  <2>7. PairsInv'
    <3> SUFFICES PairsInv
      BY <2>1, <2>3 DEF PairsInv, IsPaired
    <3> QED BY DEF SessionInv
  <2> QED BY <2>4, <2>5, <2>6, <2>7 DEF SessionInv
<1>2. ASSUME NEW r \in Ask,
             \/ CacheHit(r) \/ CacheMiss(r) \/ FillCache(r)
             \/ SaveQuestion(r) \/ SaveAnswer(r) \/ WriteCache(r)
             \/ CommitTurn(r) \/ TurnRollsBack(r)
      PROVE  SessionInv'
  BY <1>2, CacheHitInv, CacheMissInv, FillCacheInv, SaveQuestionInv, SaveAnswerInv,
     WriteCacheInv, CommitTurnInv, TurnRollsBackInv
<1>3. CASE DeleteSession \/ DeleteFromRedis \/ DeleteCommits \/ DeleteRollsBack \/ EntryExpires
  BY <1>3, DeleteSessionInv, DeleteFromRedisInv, DeleteCommitsInv, DeleteRollsBackInv,
     EntryExpiresInv
<1> QED BY <1>1, <1>2, <1>3 DEF SessionNext

\* The entry of Redis and the rows of PostgreSQL tell a quiet session the same
\* story unless users of the entry crossed or a call failed since it last
\* expired; a question is paired with its own answer unless two appends were
\* open at once; and a session with turns has a title unless an append rolled
\* back after it had written the entry: getSession, appendTurnWithCitations
\* and deleteSession of rag-service.
THEOREM HistoryStaysTrue == SessionSpec => []HistoryIsTrue
<1>1. SessionInit => SessionInv
  BY SessionInitInv, SessionAssumption
<1>2. SessionInv /\ [SessionNext]_sessionVars => SessionInv'
  BY SessionNextInv, SessionAssumption
<1>3. SessionInv => HistoryIsTrue
  BY SessionInvImplies
<1> QED BY <1>1, <1>2, <1>3, PTL DEF SessionSpec
=============================================================================
