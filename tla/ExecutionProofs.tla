-------------------------- MODULE ExecutionProofs --------------------------
(***************************************************************************)
(* Proofs about Client: however a request is cut into reads, the command   *)
(* executed is the one that was sent, and nothing of it stays behind.      *)
(***************************************************************************)
EXTENDS ClientProofs, FiniteSetTheorems

-------------------------------------------------------------------------------
(* The invariant.  The commands and the replies that requests call for *)

CommandOf(r) == IF r.args \in {Malformed, <<>>} THEN <<>> ELSE <<r.args>>

MeantBy(rs) == FlattenSeq([i \in DOMAIN rs |-> CommandOf(rs[i])])

DueTo(rs) == Cardinality({i \in DOMAIN rs : rs[i].args # <<>>})

(* The buffer holds the bytes of s from one place to another; the rest is  *)
(* on the wire.                                                            *)
Buffered(s, from, to) ==
    /\ from \in 0 .. Len(s) /\ to \in from .. Len(s)
    /\ q.buf = SubSeq(s, from + 1, to)
    /\ wire = SubSeq(s, to + 1, Len(s))

(* The server leaves the loop only for want of bytes. *)
Hungry ==
    /\ pc \in {"ready", "parse", "length", "argument", "send"}
    /\ pc \in {"ready", "send"} => wire # <<>>
    /\ pc = "parse" => q.buf # <<>>

Kind(s) == IF Head(s) = "*" THEN "multibulk" ELSE "inline"

(* Nothing has been parsed. *)
Fresh(r) ==
    \E to \in 0 .. Len(r.bytes) :
        /\ Buffered(r.bytes, 0, to)
        /\ pc \notin {"length", "argument"}
        /\ q.type \in {"unknown", Kind(r.bytes)}
        /\ q.multibulklen = 0 /\ q.bulklen = 0 /\ q.argv = <<>>

(* A request of n arguments, of which k are good *)
Shape(r, n, k, ends) ==
    LET s == r.bytes
    IN  /\ Head(s) = "*" /\ HasLine(s, 0) /\ GoodCount(LineValue(s, 0))
        /\ n = LineValue(s, 0).value /\ n > 0
        /\ k \in 0 .. n /\ ends \in [0 .. k -> 0 .. Len(s)]
        /\ AreBulks(s, k, ends)
        /\ \/ /\ k = n /\ ends[k] = Len(s)
              /\ r.args = BulksOf(s, k, ends) /\ r.args # Malformed
           \/ k < n /\ NoBulk(s, ends[k]) /\ r.args = Malformed

(* The parser stands behind j arguments; or behind the length of the next. *)
Reached(s, n, k, ends, j, p) ==
    /\ j \in 0 .. k /\ j < n
    /\ q.type = "multibulk" /\ q.multibulklen = n - j
    /\ q.argv = BulksOf(s, j, ends)
    /\ \/ q.bulklen = 0 /\ p = ends[j] /\ pc # "argument"
       \/ /\ j < k
          /\ q.bulklen = LineValue(s, ends[j]).value /\ p = LineEnd(s, ends[j]) + 1
          /\ pc # "length"

Place == IF pc \in {"length", "argument"} THEN pos ELSE 0

Parsed(r) ==
    \E n, k, ends : \E j \in 0 .. k, from, to \in 0 .. Len(r.bytes) :
        /\ Shape(r, n, k, ends)
        /\ Buffered(r.bytes, from, to)
        /\ from + Place <= to
        /\ Reached(r.bytes, n, k, ends, j, from + Place)

(* Between two requests *)
Idle ==
    /\ pc \in {"ready", "parse", "send"}
    /\ wire = <<>> /\ q = EmptyQuery
    /\ done = MeantBy(asked) /\ replies = DueTo(asked)

(* The last request has no answer yet. *)
Answering(prev, r) ==
    /\ asked = Append(prev, r)
    /\ done = MeantBy(prev) /\ replies = DueTo(prev)

(* Inside of a request *)
Busy ==
    \E prev \in Seq(Requests), r \in Requests :
        /\ Answering(prev, r)
        /\ \/ Hungry /\ (Fresh(r) \/ Parsed(r))
           \/ /\ pc = "execute" /\ wire = <<>>
              /\ q.argv = r.args /\ r.args # Malformed

Over == pc \in Gone /\ IsPrefix(done, MeantBy(asked))

Executing ==
    /\ asked \in Seq(Requests)
    /\ Plain /\ ~eager => Idle \/ Busy \/ Over

-------------------------------------------------------------------------------
(* Parts of a sequence *)

LEMMA PartOf ==
    ASSUME NEW T, NEW s \in Seq(T), NEW a \in 0 .. Len(s), NEW b \in a .. Len(s)
    PROVE  /\ SubSeq(s, a + 1, b) \in Seq(T) /\ Len(SubSeq(s, a + 1, b)) = b - a
           /\ \A i \in 1 .. b - a : SubSeq(s, a + 1, b)[i] = s[a + i]
  OBVIOUS

LEMMA PartOfPart ==
    ASSUME NEW T, NEW s \in Seq(T), NEW a \in 0 .. Len(s), NEW b \in a .. Len(s),
           NEW c \in Nat, NEW d \in Int, d <= b - a
    PROVE  SubSeq(SubSeq(s, a + 1, b), c + 1, d) = SubSeq(s, a + c + 1, a + d)
  <1> DEFINE t == SubSeq(s, a + 1, b)
  <1>1. t \in Seq(T) /\ Len(t) = b - a /\ \A i \in 1 .. b - a : t[i] = s[a + i]
    BY PartOf
  <1> HIDE DEF t
  <1>2. CASE c + 1 > d
    <2>1. a + c + 1 > a + d /\ c + 1 \in Int /\ a + c + 1 \in Int /\ a + d \in Int
      BY <1>2
    <2>2. SubSeq(t, c + 1, d) = <<>> /\ SubSeq(s, a + c + 1, a + d) = <<>>
      BY <1>1, <1>2, <2>1, SubSeqEmpty
    <2> QED
      BY <2>2 DEF t
  <1>3. CASE c < d
    <2>1. c \in 0 .. Len(t) /\ d \in c .. Len(t) /\ a + c \in 0 .. Len(s) /\ a + d \in a + c .. Len(s)
      BY <1>1, <1>3
    <2> DEFINE u == SubSeq(t, c + 1, d)
               v == SubSeq(s, a + c + 1, a + d)
    <2>2. u \in Seq(T) /\ Len(u) = d - c /\ \A i \in 1 .. d - c : u[i] = t[c + i]
      BY <1>1, <2>1, PartOf
    <2>3. v \in Seq(T) /\ Len(v) = (a + d) - (a + c)
          /\ \A i \in 1 .. (a + d) - (a + c) : v[i] = s[(a + c) + i]
      BY <2>1, PartOf
    <2> HIDE DEF u, v
    <2>4. (a + d) - (a + c) = d - c
      OBVIOUS
    <2>5. ASSUME NEW i \in 1 .. d - c
          PROVE  u[i] = v[i]
      <3>1. c + i \in 1 .. b - a /\ a + (c + i) = (a + c) + i
        BY <2>5
      <3> QED
        BY <1>1, <2>2, <2>3, <2>4, <3>1
    <2>6. u = v
      BY <2>2, <2>3, <2>4, <2>5, SeqEqual
    <2> QED
      BY <2>6 DEF t, u, v
  <1> QED
    BY <1>2, <1>3

LEMMA PartsJoined ==
    ASSUME NEW T, NEW s \in Seq(T), NEW a \in 0 .. Len(s), NEW b \in a .. Len(s),
           NEW c \in b .. Len(s)
    PROVE  SubSeq(s, a + 1, b) \o SubSeq(s, b + 1, c) = SubSeq(s, a + 1, c)
  <1> DEFINE t == SubSeq(s, a + 1, b)
             u == SubSeq(s, b + 1, c)
             v == SubSeq(s, a + 1, c)
  <1>1. t \in Seq(T) /\ Len(t) = b - a /\ \A i \in 1 .. b - a : t[i] = s[a + i]
    BY PartOf
  <1>2. u \in Seq(T) /\ Len(u) = c - b /\ \A i \in 1 .. c - b : u[i] = s[b + i]
    <2>1. b \in 0 .. Len(s)
      OBVIOUS
    <2> QED
      BY <2>1, PartOf
  <1>3. v \in Seq(T) /\ Len(v) = c - a /\ \A i \in 1 .. c - a : v[i] = s[a + i]
    <2>1. c \in a .. Len(s)
      OBVIOUS
    <2> QED
      BY <2>1, PartOf
  <1> HIDE DEF t, u, v
  <1> DEFINE w == t \o u
  <1>4. /\ w \in Seq(T) /\ Len(w) = Len(t) + Len(u)
        /\ \A i \in 1 .. Len(t) + Len(u) : w[i] = IF i <= Len(t) THEN t[i] ELSE u[i - Len(t)]
    BY <1>1, <1>2, ConcatProperties
  <1> HIDE DEF w
  <1>5. ASSUME NEW i \in 1 .. c - a
        PROVE  w[i] = v[i]
    <2>0. i \in 1 .. Len(t) + Len(u)
      BY <1>1, <1>2
    <2>1. CASE i <= b - a
      <3>1. i \in 1 .. b - a
        BY <2>1
      <3> QED
        BY <1>1, <1>3, <1>4, <2>0, <2>1, <3>1
    <2>2. CASE ~ i <= b - a
      <3> DEFINE j == i - (b - a)
      <3>1. j \in 1 .. c - b /\ i - Len(t) = j /\ b + j = a + i
        BY <1>1, <2>2
      <3>2. ~ i <= Len(t)
        BY <1>1, <2>2
      <3> HIDE DEF j
      <3> QED
        BY <1>2, <1>3, <1>4, <2>0, <3>1, <3>2
    <2> QED
      BY <2>1, <2>2
  <1>6. Len(w) = c - a
    BY <1>1, <1>2, <1>4
  <1>7. w = v
    BY <1>3, <1>4, <1>5, <1>6, SeqEqual
  <1> QED
    BY <1>7 DEF w, t, u, v

LEMMA IndexFirst ==
    ASSUME NEW s \in Seq(Tokens), NEW c
    PROVE  /\ Index(s, c) \in 0 .. Len(s)
           /\ Index(s, c) = 0 => \A i \in 1 .. Len(s) : s[i] # c
           /\ Index(s, c) # 0 => s[Index(s, c)] = c /\ \A i \in 1 .. Index(s, c) - 1 : s[i] # c
  <1> DEFINE I == {i \in 1 .. Len(s) : s[i] = c}
  <1>1. Index(s, c) = IF I # {} THEN Min(I) ELSE 0
    BY DEF Index, SelectInSeq
  <1>2. I \in SUBSET Nat /\ Len(s) \in Nat
    OBVIOUS
  <1>3. CASE I = {}
    BY <1>1, <1>2, <1>3
  <1>4. CASE I # {}
    <2>1. \E n \in I : \A m \in I : n <= m
      <3> HIDE DEF I
      <3> QED
        BY <1>2, <1>4, LeastNumber
    <2>2. Min(I) \in I /\ \A m \in I : Min(I) <= m
      BY <2>1 DEF Min
    <2>3. Index(s, c) = Min(I)
      BY <1>1, <1>4
    <2> DEFINE x == Min(I)
    <2>4. x \in 1 .. Len(s) /\ s[x] = c /\ \A m \in 1 .. Len(s) : s[m] = c => x <= m
      BY <2>2
    <2> HIDE DEF x, I
    <2>5. \A i \in 1 .. x - 1 : s[i] # c
      BY <1>2, <2>4
    <2> QED
      BY <2>3, <2>4, <2>5 DEF x
  <1> QED
    BY <1>3, <1>4

(* In a part of a sequence a byte is where it is in the whole, or not at   *)
(* all.                                                                    *)
LEMMA IndexOfPart ==
    ASSUME NEW s \in Seq(Tokens), NEW a \in 0 .. Len(s), NEW b \in a .. Len(s), NEW c,
           NEW x, x = Index(SubSeq(s, a + 1, Len(s)), c), x # 0
    PROVE  /\ x \in 1 .. Len(s) - a
           /\ Index(SubSeq(s, a + 1, b), c) = IF a + x <= b THEN x ELSE 0
  <1> DEFINE t == SubSeq(s, a + 1, Len(s))
             u == SubSeq(s, a + 1, b)
             y == Index(u, c)
  <1>1. t \in Seq(Tokens) /\ Len(t) = Len(s) - a /\ \A i \in 1 .. Len(s) - a : t[i] = s[a + i]
    <2>1. Len(s) \in a .. Len(s)
      OBVIOUS
    <2> QED
      BY <2>1, PartOf
  <1>2. u \in Seq(Tokens) /\ Len(u) = b - a /\ \A i \in 1 .. b - a : u[i] = s[a + i]
    BY PartOf
  <1>3. x \in 1 .. Len(t) /\ t[x] = c /\ \A i \in 1 .. x - 1 : t[i] # c
    <2>1. x = Index(t, c) /\ x # 0
      BY DEF t
    <2>2. Index(t, c) \in 0 .. Len(t)
      BY <1>1, IndexFirst
    <2>3. t[Index(t, c)] = c /\ \A i \in 1 .. Index(t, c) - 1 : t[i] # c
      BY <1>1, <2>1, IndexFirst
    <2> QED
      BY <1>1, <2>1, <2>2, <2>3
  <1>4. /\ y \in 0 .. Len(u)
        /\ y = 0 => \A i \in 1 .. Len(u) : u[i] # c
        /\ y # 0 => u[y] = c /\ \A i \in 1 .. y - 1 : u[i] # c
    BY <1>2, IndexFirst
  <1> HIDE DEF t, u, y
  <1>5. x \in 1 .. Len(s) - a
    BY <1>1, <1>3
  <1>6. \A i \in 1 .. b - a : u[i] = t[i]
    BY <1>1, <1>2
  <1>7. CASE a + x <= b
    <2>1. x \in 1 .. b - a
      BY <1>5, <1>7
    <2>2. u[x] = c /\ x \in 1 .. Len(u)
      BY <1>2, <1>3, <1>6, <2>1
    <2>3. y # 0 /\ y \in 1 .. b - a
      BY <1>2, <1>4, <2>2
    <2>4. ~ x < y
      <3>1. x < y => x \in 1 .. y - 1
        BY <2>1, <2>3
      <3> QED
        BY <1>4, <2>2, <2>3, <3>1
    <2>5. ~ y < x
      <3>1. y < x => y \in 1 .. x - 1
        BY <2>1, <2>3
      <3> QED
        BY <1>3, <1>4, <1>6, <2>3, <3>1
    <2> QED
      BY <1>5, <1>7, <2>1, <2>3, <2>4, <2>5 DEF u, y
  <1>8. CASE ~ a + x <= b
    <2>1. ASSUME y # 0
          PROVE  FALSE
      <3>1. y \in 1 .. b - a /\ t[y] = c
        BY <1>2, <1>4, <1>6, <2>1
      <3>2. y \in 1 .. x - 1
        BY <1>5, <1>8, <3>1
      <3> QED
        BY <1>3, <3>1, <3>2
    <2> QED
      BY <1>5, <1>8, <2>1 DEF u, y
  <1> QED
    BY <1>7, <1>8

(* A line of the request, seen in what the buffer holds of it. *)
LEMMA LineSeen ==
    ASSUME NEW s \in Seq(Tokens), NEW p \in 0 .. Len(s), NEW b \in p .. Len(s), HasLine(s, p)
    PROVE  \E rest \in Seq(Tokens), newline \in Int, e \in p + 1 .. Len(s) - 1 :
               /\ rest = SubSeq(s, p + 1, b) /\ Len(rest) = b - p
               /\ newline = Index(rest, "\r") /\ e = LineEnd(s, p)
               /\ e > b => newline = 0
               /\ e <= b => /\ newline = e - p /\ rest[1] = s[p + 1]
                            /\ SubSeq(rest, 2, newline - 1) = SubSeq(s, p + 2, e - 1)
  <1> DEFINE x == Index(SubSeq(s, p + 1, Len(s)), "\r")
             e == LineEnd(s, p)
             rest == SubSeq(s, p + 1, b)
             newline == Index(rest, "\r")
  <1>1. rest \in Seq(Tokens) /\ Len(rest) = b - p /\ \A i \in 1 .. b - p : rest[i] = s[p + i]
    BY PartOf
  <1>2. SubSeq(s, p + 1, Len(s)) \in Seq(Tokens)
    OBVIOUS
  <1>3. x \in Nat
    <2> DEFINE t == SubSeq(s, p + 1, Len(s))
    <2>1. t \in Seq(Tokens)
      BY <1>2
    <2> HIDE DEF t
    <2>2. Index(t, "\r") \in 0 .. Len(t) /\ Len(t) \in Nat
      BY <2>1, IndexFirst
    <2>3. Index(t, "\r") \in Nat
      BY <2>2
    <2> QED
      BY <2>3 DEF t
  <1>4. e = p + x /\ p < e /\ e < Len(s)
    BY DEF LineEnd, HasLine
  <1> HIDE DEF x, e
  <1>5. x # 0
    BY <1>3, <1>4
  <1>6. newline = IF p + x <= b THEN x ELSE 0
    BY <1>5, IndexOfPart DEF x
  <1>7. newline = IF e <= b THEN e - p ELSE 0
    BY <1>3, <1>4, <1>6
  <1>8. e \in p + 1 .. Len(s) - 1
    BY <1>3, <1>4
  <1> HIDE DEF newline
  <1>9. ASSUME e <= b
        PROVE  SubSeq(rest, 2, newline - 1) = SubSeq(s, p + 2, e - 1) /\ rest[1] = s[p + 1]
    <2>1. newline = e - p /\ e <= b
      BY <1>7, <1>9
    <2>2. newline - 1 \in Int /\ newline - 1 <= b - p /\ p + (newline - 1) = e - 1
          /\ p + 1 + 1 = p + 2 /\ 1 + 1 = 2 /\ 1 \in Nat /\ 1 \in 1 .. b - p
      <3>1. p \in Int /\ b \in Int /\ e \in Int /\ e >= p + 1 /\ newline = e - p /\ e <= b
        BY <1>8, <2>1
      <3> QED
        BY <3>1
    <2>3. SubSeq(SubSeq(s, p + 1, b), 1 + 1, newline - 1) = SubSeq(s, p + 1 + 1, p + (newline - 1))
      BY <2>2, PartOfPart
    <2> QED
      BY <1>1, <2>2, <2>3
  <1>10. e > b => newline = 0
    BY <1>7, <1>8
  <1>11. e <= b => newline = e - p
    BY <1>7
  <1>12. newline \in Int
    BY <1>7, <1>8
  <1> HIDE DEF rest
  <1> WITNESS rest \in Seq(Tokens), newline \in Int, e \in p + 1 .. Len(s) - 1
  <1> QED
    BY <1>1, <1>9, <1>10, <1>11 DEF e, newline, rest

-------------------------------------------------------------------------------
(* What one request more calls for *)

Orders == {r.args : r \in Requests}

LEMMA CommandType ==
    ASSUME NEW r \in Requests
    PROVE  CommandOf(r) \in Seq(Orders)
  <1>1. r.args \in Orders
    BY DEF Orders
  <1>2. <<r.args>> \in Seq(Orders) /\ <<>> \in Seq(Orders)
    BY <1>1
  <1> QED
    BY <1>2 DEF CommandOf

LEMMA MeantAppend ==
    ASSUME NEW prev \in Seq(Requests), NEW r \in Requests
    PROVE  /\ MeantBy(prev) \in Seq(Orders)
           /\ MeantBy(Append(prev, r)) = MeantBy(prev) \o CommandOf(r)
  <1> DEFINE cs == [i \in DOMAIN prev |-> CommandOf(prev[i])]
             ds == [i \in DOMAIN Append(prev, r) |-> CommandOf(Append(prev, r)[i])]
             c  == CommandOf(r)
             n  == Len(prev)
  <1>1. /\ n \in Nat /\ DOMAIN prev = 1 .. n /\ DOMAIN Append(prev, r) = 1 .. n + 1
        /\ Append(prev, r)[n + 1] = r
        /\ \A i \in 1 .. n : prev[i] \in Requests /\ Append(prev, r)[i] = prev[i]
    OBVIOUS
  <1>2. c \in Seq(Orders)
    BY CommandType
  <1>3. \A i \in 1 .. n : CommandOf(prev[i]) \in Seq(Orders)
    BY <1>1, CommandType
  <1> DEFINE C(i) == CommandOf(prev[i])
             D(i) == CommandOf(Append(prev, r)[i])
  <1>4. /\ cs = [i \in 1 .. n |-> C(i)] /\ ds = [i \in 1 .. n + 1 |-> D(i)]
        /\ D(n + 1) = c
        /\ \A i \in 1 .. n : D(i) = C(i) /\ C(i) \in Seq(Orders)
    BY <1>1, <1>3
  <1> HIDE DEF cs, ds, c, C, D
  <1>5. cs \in Seq(Seq(Orders)) /\ Len(cs) = n
    BY <1>1, <1>4
  <1>6. Append(cs, c) \in Seq(Seq(Orders)) /\ Len(Append(cs, c)) = n + 1
        /\ \A i \in 1 .. n + 1 : Append(cs, c)[i] = IF i = n + 1 THEN c ELSE cs[i]
    BY <1>2, <1>5
  <1>7. \A i \in 1 .. n + 1 : ds[i] = IF i = n + 1 THEN c ELSE cs[i]
    <2> SUFFICES ASSUME NEW i \in 1 .. n + 1
                 PROVE  ds[i] = IF i = n + 1 THEN c ELSE cs[i]
      OBVIOUS
    <2>1. i # n + 1 => i \in 1 .. n
      BY <1>1
    <2> QED
      BY <1>4, <2>1
  <1>8. ds \in Seq(Seq(Orders)) /\ Len(ds) = n + 1
    <2>1. \A i \in 1 .. n + 1 : ds[i] \in Seq(Orders)
      <3>1. \A i \in 1 .. n : cs[i] \in Seq(Orders)
        BY <1>4
      <3> SUFFICES ASSUME NEW i \in 1 .. n + 1
                   PROVE  ds[i] \in Seq(Orders)
        OBVIOUS
      <3>2. i # n + 1 => i \in 1 .. n
        BY <1>1
      <3> QED
        BY <1>2, <1>7, <3>1, <3>2
    <2>2. DOMAIN ds = 1 .. n + 1 /\ ds = [i \in 1 .. n + 1 |-> ds[i]]
      BY <1>4
    <2>3. n + 1 \in Nat
      BY <1>1
    <2> QED
      BY <2>1, <2>2, <2>3
  <1>9. ds = Append(cs, c)
    BY <1>6, <1>7, <1>8, SeqEqual
  <1>10. FlattenSeq(Append(cs, c)) = FlattenSeq(cs) \o c
    BY <1>2, <1>5, FlattenAppend
  <1>11. FlattenSeq(cs) \in Seq(Orders)
    BY <1>5, FlattenType
  <1> QED
    BY <1>9, <1>10, <1>11 DEF MeantBy, cs, ds, c

LEMMA SeqLastCases ==
    ASSUME NEW T, NEW s \in Seq(T)
    PROVE  s = <<>> \/ \E f \in Seq(T), x \in T : s = Append(f, x)
  <1> SUFFICES ASSUME s # <<>>
               PROVE  \E f \in Seq(T), x \in T : s = Append(f, x)
    OBVIOUS
  <1> DEFINE n == Len(s)
             f == SubSeq(s, 1, n - 1)
             x == s[n]
             a == Append(f, x)
  <1>1. n \in Nat /\ n # 0 /\ n - 1 \in Nat /\ x \in T
    OBVIOUS
  <1>2. f \in Seq(T) /\ Len(f) = n - 1 /\ \A i \in 1 .. n - 1 : f[i] = s[i]
    <2>1. 0 \in 0 .. n /\ n - 1 \in 0 .. n /\ 0 + 1 = 1 /\ (n - 1) - 0 = n - 1
      BY <1>1
    <2>2. /\ SubSeq(s, 0 + 1, n - 1) \in Seq(T) /\ Len(SubSeq(s, 0 + 1, n - 1)) = (n - 1) - 0
          /\ \A i \in 1 .. (n - 1) - 0 : SubSeq(s, 0 + 1, n - 1)[i] = s[0 + i]
      BY <2>1, PartOf
    <2>3. \A i \in 1 .. n - 1 : 0 + i = i
      BY <1>1
    <2> QED
      BY <2>1, <2>2, <2>3
  <1> HIDE DEF f, x
  <1>3. /\ a \in Seq(T) /\ Len(a) = (n - 1) + 1
        /\ \A i \in 1 .. (n - 1) + 1 : a[i] = IF i = (n - 1) + 1 THEN x ELSE f[i]
    BY <1>1, <1>2
  <1>4. \A i \in 1 .. n : a[i] = s[i]
    <2> SUFFICES ASSUME NEW i \in 1 .. n
                 PROVE  a[i] = s[i]
      OBVIOUS
    <2>1. i # n => i \in 1 .. n - 1
      BY <1>1
    <2>2. (n - 1) + 1 = n
      BY <1>1
    <2> QED
      BY <1>2, <1>3, <2>1, <2>2 DEF x
  <1>5. Len(a) = n
    BY <1>1, <1>3
  <1> HIDE DEF a
  <1>6. s = a
    BY <1>3, <1>4, <1>5, SeqEqual
  <1> QED
    BY <1>1, <1>2, <1>6 DEF a

LEMMA MeantType ==
    ASSUME NEW rs \in Seq(Requests)
    PROVE  MeantBy(rs) \in Seq(Orders)
  <1>1. CASE rs = <<>>
    <2>1. MeantBy(rs) = <<>>
      BY <1>1, FlattenEmpty DEF MeantBy
    <2> QED
      BY <2>1
  <1>2. CASE rs # <<>>
    <2>1. PICK prev \in Seq(Requests), r \in Requests : rs = Append(prev, r)
      BY <1>2, SeqLastCases
    <2>2. MeantBy(rs) = MeantBy(prev) \o CommandOf(r) /\ MeantBy(prev) \in Seq(Orders)
      BY <2>1, MeantAppend
    <2>3. CommandOf(r) \in Seq(Orders)
      BY CommandType
    <2> QED
      BY <2>2, <2>3, ConcatProperties
  <1> QED
    BY <1>1, <1>2

LEMMA DueAppend ==
    ASSUME NEW prev \in Seq(Requests), NEW r \in Requests
    PROVE  /\ DueTo(prev) \in Nat
           /\ DueTo(Append(prev, r)) = DueTo(prev) + (IF r.args # <<>> THEN 1 ELSE 0)
  <1> DEFINE n == Len(prev)
             A == {i \in 1 .. n : prev[i].args # <<>>}
             B == {i \in 1 .. n + 1 : Append(prev, r)[i].args # <<>>}
  <1>1. /\ n \in Nat /\ DOMAIN prev = 1 .. n /\ DOMAIN Append(prev, r) = 1 .. n + 1
        /\ Append(prev, r)[n + 1] = r
        /\ \A i \in 1 .. n : Append(prev, r)[i] = prev[i]
    OBVIOUS
  <1>2. DueTo(prev) = Cardinality(A) /\ DueTo(Append(prev, r)) = Cardinality(B)
    BY <1>1 DEF DueTo
  <1>3. B = IF r.args # <<>> THEN A \cup {n + 1} ELSE A
    <2>1. \A i : i \in 1 .. n + 1 <=> (i \in 1 .. n \/ i = n + 1)
      BY <1>1
    <2> QED
      BY <1>1, <2>1
  <1>4. IsFiniteSet(A)
    <2>1. IsFiniteSet(1 .. n)
      BY <1>1, FS_Interval
    <2>2. A \subseteq 1 .. n
      OBVIOUS
    <2> QED
      BY <2>1, <2>2, FS_Subset
  <1>5. n + 1 \notin A
    BY <1>1
  <1> HIDE DEF A, B
  <1>6. Cardinality(A) \in Nat /\ Cardinality(A \cup {n + 1}) = Cardinality(A) + 1
    BY <1>4, <1>5, FS_CardinalityType, FS_AddElement
  <1>7. Cardinality(A) + 0 = Cardinality(A)
    BY <1>6
  <1> QED
    BY <1>2, <1>3, <1>6, <1>7

LEMMA MeantByAll ==
    /\ Meant = MeantBy(asked) /\ Meant' = MeantBy(asked')
    /\ Due = DueTo(asked) /\ Due' = DueTo(asked')
  BY DEF Meant, MeantBy, CommandOf, Due, DueTo

LEMMA PrefixOf ==
    ASSUME NEW T, NEW s \in Seq(T), NEW t \in Seq(T)
    PROVE  IsPrefix(s, s) /\ IsPrefix(s, s \o t)
  <1> DEFINE n == Len(s)
             u == s \o t
  <1>1. /\ u \in Seq(T) /\ n \in Nat /\ Len(u) = n + Len(t) /\ Len(t) \in Nat
        /\ \A i \in 1 .. n + Len(t) : u[i] = IF i <= n THEN s[i] ELSE t[i - n]
    BY ConcatProperties, LenProperties
  <1> HIDE DEF u
  <1>2. SubSeq(u, 1, n) \in Seq(T) /\ Len(SubSeq(u, 1, n)) = n
        /\ \A i \in 1 .. n : SubSeq(u, 1, n)[i] = u[i]
    BY <1>1
  <1>3. \A i \in 1 .. n : u[i] = s[i]
    BY <1>1
  <1>4. SubSeq(u, 1, n) = s
    BY <1>1, <1>2, <1>3, SeqEqual
  <1>5. SubSeq(s, 1, n) = s
    BY SubSeqFull
  <1>6. n <= n /\ n <= Len(u)
    BY <1>1
  <1> QED
    BY <1>4, <1>5, <1>6 DEF IsPrefix, u

-------------------------------------------------------------------------------
(* What a request is. *)

LEMMA LastPlain ==
    ASSUME NEW prev \in Seq(Requests), NEW r \in Requests, asked = Append(prev, r), Plain
    PROVE  PlainRequest(r)
  <1>1. Len(prev) + 1 \in DOMAIN Append(prev, r) /\ Append(prev, r)[Len(prev) + 1] = r
    OBVIOUS
  <1> QED
    BY <1>1 DEF Plain

LEMMA InlineShape ==
    ASSUME NEW r \in Requests, PlainRequest(r), Head(r.bytes) # "*"
    PROVE  /\ r.args # Malformed /\ Index(r.bytes, "\n") = Len(r.bytes)
           /\ LET words == Txt!SplitArgs(Line(r.bytes, Len(r.bytes)))
              IN  words.ok /\ r.args = Words(words.args)
  <1>1. IsInline(r.bytes, r.args)
    BY RequestAssumption DEF IsMultibulk
  <1>2. r.args # Malformed
    BY DEF PlainRequest
  <1> QED
    BY <1>1, <1>2 DEF IsInline

LEMMA MultibulkShape ==
    ASSUME NEW r \in Requests, PlainRequest(r), Head(r.bytes) = "*"
    PROVE  LET s == r.bytes
               v == LineValue(s, 0)
           IN  /\ HasLine(s, 0)
               /\ \/ ~GoodCount(v) /\ r.args = Malformed /\ Len(s) = LineEnd(s, 0) + 1
                  \/ GoodCount(v) /\ v.value <= 0 /\ r.args = <<>> /\ Len(s) = LineEnd(s, 0) + 1
                  \/ GoodCount(v) /\ v.value > 0 /\ \E k, ends : Shape(r, v.value, k, ends)
  <1>1. IsMultibulk(r.bytes, r.args)
    BY RequestAssumption DEF IsInline
  <1> QED
    BY <1>1 DEF IsMultibulk, Shape

-------------------------------------------------------------------------------
(* What ends a request. *)

LEMMA MalformedRefused ==
    ASSUME NEW prev \in Seq(Requests), NEW r \in Requests, Answering(prev, r),
           r.args = Malformed, wire = <<>>, Refuse
    PROVE  Idle' \/ Over'
  <1>1. /\ MeantBy(prev) \in Seq(Orders)
        /\ MeantBy(asked) = MeantBy(prev) \o <<>>
    BY MeantAppend DEF Answering, CommandOf
  <1>2. MeantBy(asked) = MeantBy(prev)
    BY <1>1, ConcatEmptySeq
  <1>3. DueTo(asked) = DueTo(prev) + 1
    BY DueAppend, RequestAssumption DEF Answering
  <1>4. /\ asked' = asked /\ done' = done /\ wire' = wire /\ replies' = replies + 1
        /\ q' = EmptyQuery /\ pc' \in {"undefined", "ready"}
    BY DEF Refuse, Reply, Reset, Continue, conn
  <1>5. /\ MeantBy(asked') = MeantBy(asked) /\ DueTo(asked') = DueTo(asked)
    BY <1>4
  <1>6. done' = MeantBy(asked') /\ replies' = DueTo(asked') /\ wire' = <<>>
    BY <1>2, <1>3, <1>4, <1>5 DEF Answering
  <1>7. IsPrefix(done', MeantBy(asked'))
    BY <1>1, <1>2, <1>5, <1>6, PrefixOf
  <1>8. pc' = "ready" => Idle'
    BY <1>4, <1>6 DEF Idle
  <1>9. pc' = "undefined" => Over'
    BY <1>7 DEF Over, Gone
  <1> QED
    BY <1>4, <1>8, <1>9

LEMMA WordsExecuted ==
    ASSUME NEW prev \in Seq(Requests), NEW r \in Requests, Answering(prev, r),
           q.argv = r.args, r.args # Malformed, wire = <<>>, Execute
    PROVE  Idle' \/ Over'
  <1>1. /\ MeantBy(prev) \in Seq(Orders)
        /\ MeantBy(asked) = MeantBy(prev) \o CommandOf(r)
    BY MeantAppend DEF Answering
  <1>2. DueTo(prev) \in Nat /\ DueTo(asked) = DueTo(prev) + (IF r.args # <<>> THEN 1 ELSE 0)
    BY DueAppend DEF Answering
  <1>3. asked' = asked /\ wire' = wire /\ q' = EmptyQuery
    BY DEF Execute, Reset, conn
  <1>4. pc' \in {"undefined", "parse"}
    BY DEF Execute, Continue
  <1>5. done' = MeantBy(asked) /\ replies' = DueTo(asked)
    <2>1. CASE r.args = <<>>
      <3>1. done' = done /\ replies' = replies
        BY <2>1 DEF Execute
      <3>2. CommandOf(r) = <<>>
        BY <2>1 DEF CommandOf
      <3>3. MeantBy(asked) = MeantBy(prev)
        BY <1>1, <3>2, ConcatEmptySeq
      <3> QED
        BY <1>2, <2>1, <3>1, <3>3 DEF Answering
    <2>2. CASE r.args # <<>>
      <3>1. done' = Append(done, r.args) /\ replies' = replies + 1
        BY <2>2 DEF Execute, Reply
      <3>2. CommandOf(r) = <<r.args>>
        BY <2>2 DEF CommandOf
      <3>3. r.args \in Orders
        BY DEF Orders
      <3>4. Append(MeantBy(prev), r.args) = MeantBy(prev) \o <<r.args>>
        BY <1>1, <3>3, AppendIsConcat
      <3> QED
        BY <1>1, <1>2, <2>2, <3>1, <3>2, <3>4 DEF Answering
    <2> QED
      BY <2>1, <2>2
  <1>6. /\ MeantBy(asked') = MeantBy(asked) /\ DueTo(asked') = DueTo(asked)
    BY <1>3
  <1>7. done' \in Seq(Orders)
    <2>1. CommandOf(r) \in Seq(Orders)
      BY CommandType
    <2> QED
      BY <1>1, <1>5, <2>1, ConcatProperties
  <1>8. IsPrefix(done', MeantBy(asked'))
    BY <1>5, <1>6, <1>7, PrefixOf
  <1>9. pc' = "parse" => Idle'
    BY <1>3, <1>5, <1>6 DEF Idle
  <1>10. pc' = "undefined" => Over'
    BY <1>8 DEF Over, Gone
  <1> QED
    BY <1>4, <1>9, <1>10

(* A request that ends early, wherever its parser stands. *)
LEMMA BusyPrefix ==
    ASSUME NEW prev \in Seq(Requests), NEW r \in Requests, Answering(prev, r)
    PROVE  IsPrefix(done, MeantBy(asked))
  <1>1. /\ MeantBy(prev) \in Seq(Orders)
        /\ MeantBy(asked) = MeantBy(prev) \o CommandOf(r)
    BY MeantAppend DEF Answering
  <1>2. CommandOf(r) \in Seq(Orders)
    BY CommandType
  <1> QED
    BY <1>1, <1>2, PrefixOf DEF Answering

LEMMA ExecutingPrefix ==
    ASSUME Executing, Plain, ~eager
    PROVE  IsPrefix(done, MeantBy(asked))
  <1>1. CASE Idle
    <2>1. MeantBy(asked) \in Seq(Orders)
      BY MeantType DEF Executing
    <2> QED
      BY <1>1, <2>1, PrefixOf DEF Idle
  <1>2. CASE Busy
    BY <1>2, BusyPrefix DEF Busy
  <1>3. CASE Over
    BY <1>3 DEF Over
  <1> QED
    BY <1>1, <1>2, <1>3 DEF Executing

-------------------------------------------------------------------------------
(* The buffer. *)

(* It holds the x bytes of s behind a place, and perhaps more. *)
Held(s, from, to, x) ==
    s \in Seq(Tokens) /\ Buffered(s, from, to) /\ x \in Nat /\ from + x <= to

LEMMA BufferOf ==
    ASSUME NEW s, NEW from, NEW to, NEW x, Held(s, from, to, x)
    PROVE  /\ Trimmed(x) = SubSeq(s, from + x + 1, to)
           /\ q.buf \in Seq(Tokens) /\ Len(q.buf) = to - from
           /\ wire \in Seq(Tokens) /\ Len(wire) = Len(s) - to
           /\ wire = <<>> <=> to = Len(s)
           /\ from \in Nat /\ to \in Nat /\ Len(s) \in Nat
           /\ from \in 0 .. Len(s) /\ to \in from .. Len(s)
  <1> USE DEF Held
  <1>1. from \in 0 .. Len(s) /\ to \in from .. Len(s) /\ Len(s) \in Nat
    BY DEF Buffered
  <1>2. q.buf \in Seq(Tokens) /\ Len(q.buf) = to - from
    BY <1>1, PartOf DEF Buffered
  <1>3. wire \in Seq(Tokens) /\ Len(wire) = Len(s) - to
    <2>1. to \in 0 .. Len(s) /\ Len(s) \in to .. Len(s)
      BY <1>1
    <2>2. wire = SubSeq(s, to + 1, Len(s))
      BY DEF Buffered
    <2> QED
      BY <2>1, <2>2, PartOf
  <1>4. Trimmed(x) = SubSeq(s, from + x + 1, to)
    <2>1. Trimmed(x) = SubSeq(SubSeq(s, from + 1, to), x + 1, to - from)
      BY <1>2 DEF Trimmed, Buffered
    <2>2. to - from \in Int /\ to - from <= to - from /\ from + (to - from) = to
      BY <1>1
    <2> QED
      BY <1>1, <2>1, <2>2, PartOfPart
  <1>5. wire = <<>> <=> to = Len(s)
    <2>1. wire = <<>> <=> Len(wire) = 0
      BY <1>3
    <2> QED
      BY <1>1, <1>3, <2>1
  <1> QED
    BY <1>1, <1>2, <1>3, <1>4, <1>5

LEMMA HeldLength ==
    ASSUME NEW s, NEW from, NEW to, NEW x, Held(s, from, to, x)
    PROVE  Len(q.buf) = to - from
  BY BufferOf

LEMMA HeldBehind ==
    ASSUME NEW s, NEW from, NEW to, NEW x, Held(s, from, to, x)
    PROVE  Trimmed(x) = SubSeq(s, from + x + 1, to)
  BY BufferOf

LEMMA HeldRest ==
    ASSUME NEW s, NEW from, NEW to, NEW x, Held(s, from, to, x)
    PROVE  wire = <<>> <=> to = Len(s)
  BY BufferOf

LEMMA BulksAppend ==
    ASSUME NEW s, NEW ends, NEW j \in Nat
    PROVE  /\ BulksOf(s, 0, ends) = <<>>
           /\ BulksOf(s, j + 1, ends) = Append(BulksOf(s, j, ends), Bulk(s, ends[j]))
  <1> DEFINE S == {Bulk(s, ends[i]) : i \in 0 .. j}
             B(i) == Bulk(s, ends[i - 1])
             b == BulksOf(s, j, ends)
             c == BulksOf(s, j + 1, ends)
  <1>1. \A i \in 1 .. j + 1 : B(i) \in S
    <2> SUFFICES ASSUME NEW i \in 1 .. j + 1
                 PROVE  B(i) \in S
      OBVIOUS
    <2>1. i - 1 \in 0 .. j
      OBVIOUS
    <2> QED
      BY <2>1
  <1>2. b = [i \in 1 .. j |-> B(i)] /\ c = [i \in 1 .. j + 1 |-> B(i)]
    BY DEF BulksOf
  <1>3. B(j + 1) = Bulk(s, ends[j])
    <2>1. (j + 1) - 1 = j
      OBVIOUS
    <2> QED
      BY <2>1
  <1>4. BulksOf(s, 0, ends) = <<>>
    BY DEF BulksOf
  <1> HIDE DEF B, S, b, c
  <1>5. b \in Seq(S) /\ Len(b) = j /\ c \in Seq(S) /\ Len(c) = j + 1
    BY <1>1, <1>2
  <1>6. B(j + 1) \in S
    BY <1>1
  <1>7. /\ Append(b, B(j + 1)) \in Seq(S) /\ Len(Append(b, B(j + 1))) = j + 1
        /\ \A i \in 1 .. j + 1 : Append(b, B(j + 1))[i] = IF i = j + 1 THEN B(j + 1) ELSE b[i]
    BY <1>5, <1>6
  <1>8. \A i \in 1 .. j + 1 : c[i] = Append(b, B(j + 1))[i]
    <2> SUFFICES ASSUME NEW i \in 1 .. j + 1
                 PROVE  c[i] = Append(b, B(j + 1))[i]
      OBVIOUS
    <2>1. i # j + 1 => i \in 1 .. j
      OBVIOUS
    <2> QED
      BY <1>2, <1>7, <2>1
  <1>9. c = Append(b, B(j + 1))
    BY <1>5, <1>7, <1>8, SeqEqual
  <1> QED
    BY <1>3, <1>4, <1>9 DEF b, c

-------------------------------------------------------------------------------
(* Steps outside of the parser *)

LEMMA Onward ==
    ASSUME Executing, UNCHANGED <<asked, eager>>,
           Plain /\ ~eager /\ (Idle \/ Busy \/ Over) => Idle' \/ Busy' \/ Over'
    PROVE  Executing'
  <1>1. Plain' <=> Plain
    BY DEF Plain
  <1> QED
    BY <1>1 DEF Executing

LEMMA Ended ==
    ASSUME Executing, UNCHANGED <<asked, eager, done>>, pc' \in Gone
    PROVE  Executing'
  <1>1. ASSUME Plain, ~eager
        PROVE  Over'
    <2>1. IsPrefix(done, MeantBy(asked))
      BY <1>1, ExecutingPrefix
    <2>2. MeantBy(asked') = MeantBy(asked) /\ done' = done
      OBVIOUS
    <2> QED
      BY <2>1, <2>2 DEF Over
  <1> QED
    BY <1>1, Onward

LEMMA Standing ==
    ASSUME Executing, UNCHANGED <<wire, q, pos, asked, eager, done, replies>>,
           pc' = pc \/ (pc \in {"ready", "send"} /\ pc' \in {"ready", "send"})
    PROVE  Executing'
  <1>1. MeantBy(asked') = MeantBy(asked) /\ DueTo(asked') = DueTo(asked)
    OBVIOUS
  <1>2. Idle => Idle'
    BY <1>1 DEF Idle
  <1>3. Over => Over'
    BY <1>1 DEF Over, Gone
  <1>4. Busy => Busy'
    <2> SUFFICES ASSUME Busy
                 PROVE  Busy'
      OBVIOUS
    <2>1. PICK prev \in Seq(Requests), r \in Requests :
              /\ Answering(prev, r)
              /\ \/ Hungry /\ (Fresh(r) \/ Parsed(r))
                 \/ pc = "execute" /\ wire = <<>> /\ q.argv = r.args /\ r.args # Malformed
      BY DEF Busy
    <2>2. Answering(prev, r)'
      BY <2>1 DEF Answering
    <2>3. Hungry => Hungry'
      BY DEF Hungry
    <2>4. Fresh(r) => Fresh(r)'
      BY DEF Fresh, Buffered
    <2>5. Parsed(r) => Parsed(r)'
      <3>1. Place' = Place
        BY DEF Place
      <3>2. \A s, n, k, ends, j, p : Reached(s, n, k, ends, j, p) => Reached(s, n, k, ends, j, p)'
        BY DEF Reached
      <3>3. \A s, from, to : Buffered(s, from, to)' <=> Buffered(s, from, to)
        BY DEF Buffered
      <3> QED
        BY <3>1, <3>2, <3>3 DEF Parsed
    <2> QED
      BY <2>1, <2>2, <2>3, <2>4, <2>5 DEF Busy
  <1> QED
    BY <1>2, <1>3, <1>4, Onward

LEMMA RestIdle ==
    ASSUME Idle \/ Busy \/ Over, pc = "ready", wire = <<>>
    PROVE  Idle
  BY DEF Busy, Hungry, Over, Gone

LEMMA ReadEndExecuting ==
    ASSUME Executing, ReadEnd
    PROVE  Executing'
  <1>1. pc = "ready" /\ wire = <<>> /\ pc' \in {"parse", "freed"}
    BY DEF ReadEnd, AtEnd
  <1>2. UNCHANGED <<wire, q, pos, asked, eager, done, replies>>
    BY DEF ReadEnd, conn, history
  <1>3. CASE pc' = "freed"
    BY <1>2, <1>3, Ended DEF Gone
  <1>4. CASE pc' = "parse"
    <2>1. MeantBy(asked') = MeantBy(asked) /\ DueTo(asked') = DueTo(asked)
      BY <1>2
    <2>2. Idle => Idle'
      BY <1>2, <1>4, <2>1 DEF Idle
    <2> QED
      BY <1>1, <1>2, <2>2, RestIdle, Onward
  <1> QED
    BY <1>1, <1>3, <1>4

LEMMA ParseEndExecuting ==
    ASSUME Executing, ParseEnd
    PROVE  Executing'
  <1>1. pc = "parse" /\ q.buf = <<>> /\ pc' = "ready"
    BY DEF ParseEnd
  <1>2. UNCHANGED <<wire, q, pos, asked, eager, done, replies>>
    BY DEF ParseEnd, conn, history
  <1>3. MeantBy(asked') = MeantBy(asked) /\ DueTo(asked') = DueTo(asked)
    BY <1>2
  <1>4. Idle => Idle'
    BY <1>1, <1>2, <1>3 DEF Idle
  <1>5. Idle \/ Busy \/ Over => Idle
    BY <1>1 DEF Busy, Hungry, Over, Gone
  <1> QED
    BY <1>2, <1>4, <1>5, Onward

LEMMA SendExecuting ==
    ASSUME Invariant, Executing, NEW r \in Requests, Send(r)
    PROVE  Executing'
  <1>1. /\ asked' = Append(asked, r) /\ wire' = wire \o r.bytes
        /\ eager' = (eager \/ ~Answered)
        /\ UNCHANGED <<q, pos, pc, done, replies>>
    BY DEF Send
  <1>2. asked \in Seq(Requests)
    BY DEF Executing
  <1>3. asked' \in Seq(Requests)
    BY <1>1, <1>2
  <1>4. ASSUME Plain', ~eager'
        PROVE  Busy'
    <2>1. ~eager /\ Answered
      BY <1>1, <1>4
    <2>2. Plain
      <3>1. \A i \in DOMAIN asked : i \in DOMAIN asked' /\ asked'[i] = asked[i]
        BY <1>1, <1>2
      <3> QED
        BY <1>4, <3>1 DEF Plain
    <2>3. pc = "ready" /\ wire = <<>>
      BY <2>1 DEF Answered
    <2>4. Idle
      BY <2>1, <2>2, <2>3, RestIdle DEF Executing
    <2>5. r.bytes \in Seq(Tokens) /\ r.bytes # <<>>
      BY SequencesOfTokens
    <2>6. wire' = r.bytes
      BY <1>1, <2>3, <2>5, ConcatEmptySeq
    <2>10. PICK prev \in Seq(Requests) : prev = asked
      BY <1>2
    <2>7. Answering(prev, r)'
      BY <1>1, <2>4, <2>10 DEF Answering, Idle
    <2>8. Hungry'
      BY <1>1, <2>3, <2>5, <2>6 DEF Hungry
    <2>9. Fresh(r)'
      <3> DEFINE s == r.bytes
      <3>1. 0 \in 0 .. Len(s) /\ 0 \in 0 .. Len(s) /\ 0 + 1 = 1 /\ 0 \in Int
        BY <2>5
      <3>2. SubSeq(s, 1, 0) = <<>>
        BY <2>5, SubSeqEmpty
      <3>3. SubSeq(s, 1, Len(s)) = s
        BY <2>5, SubSeqFull
      <3>4. q' = EmptyQuery
        BY <1>1, <2>4 DEF Idle
      <3>5. q'.buf = <<>> /\ q'.type = "unknown" /\ q'.multibulklen = 0 /\ q'.bulklen = 0
            /\ q'.argv = <<>>
        BY <3>4 DEF EmptyQuery
      <3>6. Buffered(s, 0, 0)'
        BY <2>6, <3>1, <3>2, <3>3, <3>5 DEF Buffered
      <3>7. pc' \notin {"length", "argument"}
        BY <1>1, <2>3
      <3> HIDE DEF s
      <3>8. \E to \in 0 .. Len(s) :
               /\ Buffered(s, 0, to)'
               /\ pc' \notin {"length", "argument"}
               /\ q'.type \in {"unknown", Kind(s)}
               /\ q'.multibulklen = 0 /\ q'.bulklen = 0 /\ q'.argv = <<>>
        BY <3>1, <3>5, <3>6, <3>7
      <3> QED
        BY <3>8 DEF Fresh, s
    <2> QED
      BY <2>7, <2>8, <2>9 DEF Busy
  <1> QED
    BY <1>3, <1>4 DEF Executing

(* A read moves bytes from the wire to the buffer. *)
LEMMA ReadBuffered ==
    ASSUME NEW n \in 1 .. Len(wire), Read(n), IsQuery(q),
           NEW s \in Seq(Tokens), NEW from, NEW to, Buffered(s, from, to)
    PROVE  /\ Buffered(s, from, to + n)' /\ to + n \in 0 .. Len(s) /\ q'.buf # <<>>
           /\ from \in Nat /\ to \in Nat
           /\ q' = [q EXCEPT !.buf = q'.buf]
  <1>0. from \in 0 .. Len(s) /\ to \in from .. Len(s)
    BY DEF Buffered
  <1>1. /\ q.buf \in Seq(Tokens) /\ Len(q.buf) = to - from
        /\ wire \in Seq(Tokens) /\ Len(wire) = Len(s) - to
        /\ from \in Nat /\ to \in Nat /\ Len(s) \in Nat
    <2>1. Held(s, from, to, 0)
      BY <1>0 DEF Held
    <2> QED
      BY <2>1, BufferOf
  <1>2. n \in Nat /\ n >= 1 /\ to + n <= Len(s) /\ from <= to
    BY <1>0, <1>1
  <1> DEFINE w == SubSeq(s, to + 1, Len(s))
             b == q.buf \o SubSeq(wire, 1, n)
  <1>3. SubSeq(wire, 1, n) = SubSeq(s, to + 1, to + n)
    <2>1. to \in 0 .. Len(s) /\ Len(s) \in to .. Len(s) /\ n \in Int /\ n <= Len(s) - to
          /\ 0 \in Nat /\ 0 + 1 = 1 /\ to + 0 + 1 = to + 1
      BY <1>0, <1>1, <1>2
    <2>2. SubSeq(SubSeq(s, to + 1, Len(s)), 0 + 1, n) = SubSeq(s, to + 0 + 1, to + n)
      BY <2>1, PartOfPart
    <2> QED
      BY <2>1, <2>2 DEF Buffered
  <1>4. SubSeq(wire, n + 1, Len(wire)) = SubSeq(s, (to + n) + 1, Len(s))
    <2>1. to \in 0 .. Len(s) /\ Len(s) \in to .. Len(s) /\ n \in Nat /\ Len(wire) \in Int
          /\ Len(wire) <= Len(s) - to /\ to + Len(wire) = Len(s)
      BY <1>0, <1>1, <1>2
    <2>2. SubSeq(SubSeq(s, to + 1, Len(s)), n + 1, Len(wire)) = SubSeq(s, to + n + 1, to + Len(wire))
      BY <2>1, PartOfPart
    <2> QED
      BY <2>1, <2>2 DEF Buffered
  <1>5. b = SubSeq(s, from + 1, to + n)
    <2>1. to + n \in to .. Len(s)
      BY <1>1, <1>2
    <2>2. SubSeq(s, from + 1, to) \o SubSeq(s, to + 1, to + n) = SubSeq(s, from + 1, to + n)
      BY <1>0, <2>1, PartsJoined
    <2> QED
      BY <1>3, <2>2 DEF Buffered
  <1>6. b # <<>>
    <2>1. to + n \in from .. Len(s) /\ (to + n) - from # 0
      BY <1>0, <1>1, <1>2
    <2>2. Len(b) = (to + n) - from
      BY <1>0, <1>5, <2>1, PartOf
    <2> HIDE DEF b
    <2>3. b = <<>> => Len(b) = 0
      OBVIOUS
    <2> QED
      BY <2>1, <2>2, <2>3
  <1>7. q' = [q EXCEPT !.buf = b] /\ wire' = SubSeq(wire, n + 1, Len(wire))
    BY DEF Read
  <1> HIDE DEF b
  <1>8. q'.buf = b
    BY <1>7, QueryFields
  <1>9. to + n \in 0 .. Len(s) /\ to + n \in from .. Len(s)
    BY <1>0, <1>1, <1>2
  <1>10. Buffered(s, from, to + n)'
    BY <1>0, <1>4, <1>5, <1>7, <1>8, <1>9 DEF Buffered, b
  <1> QED
    BY <1>1, <1>6, <1>7, <1>8, <1>9, <1>10

LEMMA ReadExecuting ==
    ASSUME Invariant, Executing, NEW m \in 1 .. Len(wire), Read(m)
    PROVE  Executing'
  <1>1. pc = "ready" /\ pc' = "parse" /\ IsQuery(q) /\ m \in Nat
        /\ UNCHANGED <<pos, asked, eager, done, replies>>
    BY DEF Read, history, Invariant, Types
  <1>2. wire # <<>>
    <2>1. wire = <<>> => Len(wire) = 0
      OBVIOUS
    <2> QED
      BY <2>1
  <1>3. ~Idle /\ ~Over
    BY <1>1, <1>2 DEF Idle, Over, Gone
  <1>4. Busy => Busy'
    <2> SUFFICES ASSUME Busy
                 PROVE  Busy'
      OBVIOUS
    <2>1. PICK prev \in Seq(Requests), r \in Requests :
              Answering(prev, r) /\ Hungry /\ (Fresh(r) \/ Parsed(r))
      BY <1>1 DEF Busy
    <2> DEFINE s == r.bytes
    <2>2. s \in Seq(Tokens)
      BY SequencesOfTokens
    <2>3. Answering(prev, r)'
      BY <1>1, <2>1 DEF Answering
    <2> HIDE DEF s
    <2>4. CASE Fresh(r)
      <3>1. PICK to \in 0 .. Len(s) :
                /\ Buffered(s, 0, to)
                /\ q.type \in {"unknown", Kind(s)}
                /\ q.multibulklen = 0 /\ q.bulklen = 0 /\ q.argv = <<>>
        BY <2>4 DEF Fresh, s
      <3>2. /\ Buffered(s, 0, to + m)' /\ to + m \in 0 .. Len(s) /\ q'.buf # <<>>
            /\ q' = [q EXCEPT !.buf = q'.buf]
        BY <1>1, <2>2, <3>1, ReadBuffered
      <3>3. UNCHANGED <<q.type, q.multibulklen, q.bulklen, q.argv>>
        BY <1>1, <3>2, QueryFields
      <3>4. Fresh(r)'
        BY <1>1, <3>1, <3>2, <3>3 DEF Fresh, s
      <3>5. Hungry'
        BY <1>1, <3>2 DEF Hungry
      <3> QED
        BY <2>3, <3>4, <3>5 DEF Busy
    <2>5. CASE Parsed(r)
      <3>1. PICK n, k, ends : \E j \in 0 .. k, from, to \in 0 .. Len(s) :
                /\ Shape(r, n, k, ends) /\ Buffered(s, from, to)
                /\ from + Place <= to /\ Reached(s, n, k, ends, j, from + Place)
        BY <2>5 DEF Parsed, s
      <3>2. PICK j \in 0 .. k, from \in 0 .. Len(s), to \in 0 .. Len(s) :
                /\ Shape(r, n, k, ends) /\ Buffered(s, from, to)
                /\ from + Place <= to /\ Reached(s, n, k, ends, j, from + Place)
        BY <3>1
      <3>3. /\ Buffered(s, from, to + m)' /\ to + m \in 0 .. Len(s) /\ q'.buf # <<>>
            /\ q' = [q EXCEPT !.buf = q'.buf] /\ from \in Nat /\ to \in Nat
        BY <1>1, <2>2, <3>2, ReadBuffered
      <3>4. UNCHANGED <<q.type, q.multibulklen, q.bulklen, q.argv>>
        BY <1>1, <3>3, QueryFields
      <3>5. Place = 0 /\ Place' = 0
        BY <1>1 DEF Place
      <3>6. Reached(s, n, k, ends, j, from + Place)'
        BY <1>1, <3>2, <3>4, <3>5 DEF Reached
      <3>7. (from + Place <= to + m)'
        BY <1>1, <3>2, <3>3, <3>5
      <3>8. Parsed(r)'
        BY <3>2, <3>3, <3>6, <3>7 DEF Parsed, s
      <3>9. Hungry'
        BY <1>1, <3>3 DEF Hungry
      <3> QED
        BY <2>3, <3>8, <3>9 DEF Busy
    <2> QED
      BY <2>1, <2>4, <2>5
  <1> QED
    BY <1>1, <1>3, <1>4, Onward

-------------------------------------------------------------------------------
(* The parser *)

LEMMA Beginning ==
    ASSUME NEW s \in Seq(Tokens), s # <<>>, NEW to, Buffered(s, 0, to)
    PROVE  /\ to \in 0 .. Len(s) /\ Len(q.buf) = to /\ q.buf = SubSeq(s, 0 + 1, to)
           /\ q.buf # <<>> => Head(q.buf) = Head(s) /\ to # 0
           /\ wire = <<>> <=> to = Len(s)
           /\ to = Len(s) => q.buf = s
  <1>1. /\ to \in 0 .. Len(s) /\ q.buf = SubSeq(s, 0 + 1, to) /\ Len(s) \in Nat /\ Len(s) # 0
        /\ to - 0 = to
    BY DEF Buffered
  <1>2. /\ q.buf \in Seq(Tokens) /\ Len(q.buf) = to - 0 /\ wire = <<>> <=> to = Len(s)
    <2>1. Held(s, 0, to, 0)
      BY <1>1 DEF Held
    <2> QED
      BY <2>1, BufferOf
  <1>3. q.buf # <<>> => Head(q.buf) = Head(s) /\ to # 0
    <2> SUFFICES ASSUME q.buf # <<>>
                 PROVE  Head(q.buf) = Head(s) /\ to # 0
      OBVIOUS
    <2>1. to # 0 /\ 0 \in 0 .. Len(s) /\ 1 \in 1 .. to - 0 /\ 0 + 1 = 1
      BY <1>1, <1>2
    <2>2. SubSeq(s, 0 + 1, to)[1] = s[0 + 1]
      BY <1>1, <2>1, PartOf
    <2> QED
      BY <1>1, <1>2, <2>1, <2>2
  <1>4. to = Len(s) => q.buf = s
    <2>1. SubSeq(s, 1, Len(s)) = s
      BY SubSeqFull
    <2> QED
      BY <1>1, <2>1
  <1> QED
    BY <1>1, <1>2, <1>3, <1>4

(* Parsing there is a request of which nothing was parsed, or part. *)
LEMMA ParserBusy ==
    ASSUME Idle \/ Busy \/ Over, pc \in {"parse", "length", "argument"},
           pc = "parse" => q.buf # <<>>
    PROVE  \E prev \in Seq(Requests), r \in Requests :
               /\ Answering(prev, r) /\ r.bytes \in Seq(Tokens) /\ r.bytes # <<>>
               /\ (Fresh(r) /\ pc = "parse") \/ Parsed(r)
  <1>1. ~Idle /\ ~Over
    BY DEF Idle, Over, Gone, EmptyQuery
  <1>2. PICK prev \in Seq(Requests), r \in Requests : Answering(prev, r) /\ (Fresh(r) \/ Parsed(r))
    BY <1>1 DEF Busy
  <1>3. Fresh(r) => pc = "parse"
    BY DEF Fresh
  <1> QED
    BY <1>2, <1>3, SequencesOfTokens

LEMMA ValueType ==
    ASSUME NEW s \in Seq(Tokens), NEW p \in 0 .. Len(s), HasLine(s, p)
    PROVE  LineEnd(s, p) \in p + 1 .. Len(s) - 1 /\ LineValue(s, p).value \in Int
  <1> DEFINE e == LineEnd(s, p) - 1
             t == SubSeq(s, p + 2, e)
  <1>1. LineEnd(s, p) \in p + 1 .. Len(s) - 1
    <2>1. Len(s) \in p .. Len(s)
      OBVIOUS
    <2>2. \E x \in p + 1 .. Len(s) - 1 : x = LineEnd(s, p)
      BY <2>1, LineSeen
    <2> QED
      BY <2>2
  <1>2. e \in Int /\ e <= Len(s) /\ p + 2 \in Int /\ p + 2 >= 1
    BY <1>1
  <1> HIDE DEF e
  <1>3. t \in Seq(Tokens)
    BY <1>2
  <1>4. LineValue(s, p) = Num!String2ll(t)
    BY DEF LineValue, e
  <1> HIDE DEF t
  <1>5. LineValue(s, p).value \in Int
    BY <1>3, <1>4, NumberType
  <1> QED
    BY <1>1, <1>5

LEMMA ShapeTypes ==
    ASSUME NEW r \in Requests, NEW n, NEW k, NEW ends, Shape(r, n, k, ends)
    PROVE  n \in Nat /\ k \in 0 .. n
  <1>1. r.bytes \in Seq(Tokens) /\ 0 \in 0 .. Len(r.bytes)
    BY SequencesOfTokens
  <1>2. n \in Int
    BY <1>1, ValueType DEF Shape
  <1> QED
    BY <1>2 DEF Shape

(* The argument behind the j that are good *)
LEMMA BulkAt ==
    ASSUME NEW r \in Requests, NEW n, NEW k, NEW ends, Shape(r, n, k, ends), NEW j \in 0 .. k
    PROVE  /\ ends[j] \in 0 .. Len(r.bytes)
           /\ j < k => /\ IsBulk(r.bytes, ends[j], ends[j + 1])
                       /\ LineValue(r.bytes, ends[j]).value > 0
                       /\ j + 1 \in 0 .. k
  <1>1. n \in Nat /\ k \in 0 .. n
    BY ShapeTypes
  <1>2. ends[j] \in 0 .. Len(r.bytes)
    BY DEF Shape
  <1>3. ASSUME j < k
        PROVE  IsBulk(r.bytes, ends[j], ends[j + 1]) /\ j + 1 \in 0 .. k
    <2>1. j + 1 \in 1 .. k /\ (j + 1) - 1 = j
      BY <1>1, <1>3
    <2>2. IsBulk(r.bytes, ends[(j + 1) - 1], ends[j + 1])
      BY <2>1 DEF Shape, AreBulks
    <2>3. j + 1 \in 0 .. k
      BY <1>1, <1>3
    <2> QED
      BY <2>1, <2>2, <2>3
  <1> QED
    BY <1>2, <1>3 DEF IsBulk

LEMMA ParsedType ==
    ASSUME NEW r \in Requests, Parsed(r)
    PROVE  q.type = "multibulk" /\ Type = "multibulk" /\ q.multibulklen # 0 /\ Head(r.bytes) = "*"
  <1>1. PICK n, k, ends : \E j \in 0 .. k, from, to \in 0 .. Len(r.bytes) :
            Shape(r, n, k, ends) /\ Reached(r.bytes, n, k, ends, j, from + Place)
    BY DEF Parsed
  <1>2. PICK j \in 0 .. k, from \in 0 .. Len(r.bytes) :
            Shape(r, n, k, ends) /\ Reached(r.bytes, n, k, ends, j, from + Place)
    BY <1>1
  <1>3. n \in Int
    BY <1>2, ShapeTypes
  <1>4. n - j # 0
    BY <1>2, <1>3 DEF Reached
  <1> QED
    BY <1>2, <1>4 DEF Reached, Shape, Type

LEMMA InlineExecuting ==
    ASSUME Invariant, Executing, Inline
    PROVE  Executing'
  <1>1. pc = "parse" /\ q.buf # <<>> /\ Type = "inline" /\ IsQuery(q)
    BY DEF Inline, Invariant, Types
  <1>2. ASSUME Plain, ~eager, Idle \/ Busy \/ Over
        PROVE  Busy' /\ UNCHANGED <<asked, eager>>
    <2>1. PICK prev \in Seq(Requests), r \in Requests :
              /\ Answering(prev, r) /\ r.bytes \in Seq(Tokens) /\ r.bytes # <<>>
              /\ Fresh(r) \/ Parsed(r)
      BY <1>1, <1>2, ParserBusy
    <2>2. Fresh(r)
      BY <1>1, <2>1, ParsedType
    <2> DEFINE s == r.bytes
               newline == Index(q.buf, "\n")
    <2>3. s \in Seq(Tokens) /\ s # <<>> /\ Len(s) \in Nat /\ Len(s) # 0
      BY <2>1
    <2>4. PICK to \in 0 .. Len(s) :
              /\ Buffered(s, 0, to)
              /\ q.type \in {"unknown", Kind(s)}
              /\ q.multibulklen = 0 /\ q.bulklen = 0 /\ q.argv = <<>>
      BY <2>2 DEF Fresh
    <2> HIDE DEF s
    <2>5. /\ Len(q.buf) = to /\ q.buf = SubSeq(s, 0 + 1, to)
          /\ Head(q.buf) = Head(s) /\ to # 0
          /\ wire = <<>> <=> to = Len(s)
          /\ to = Len(s) => q.buf = s
      BY <1>1, <2>3, <2>4, Beginning
    <2>6. Head(s) # "*" /\ Kind(s) = "inline"
      BY <1>1, <2>4, <2>5 DEF Kind, Type
    <2>7. PlainRequest(r)
      BY <1>2, <2>1, LastPlain DEF Answering
    <2>8. /\ r.args # Malformed /\ Index(s, "\n") = Len(s)
          /\ LET words == Txt!SplitArgs(Line(s, Len(s)))
             IN  words.ok /\ r.args = Words(words.args)
      BY <2>6, <2>7, InlineShape DEF s
    <2>9. newline = IF Len(s) <= to THEN Len(s) ELSE 0
      <3>1. SubSeq(s, 0 + 1, Len(s)) = s /\ 0 \in 0 .. Len(s) /\ to \in 0 .. Len(s)
        BY <2>3, <2>4, SubSeqFull
      <3>2. Index(SubSeq(s, 0 + 1, to), "\n") = IF 0 + Len(s) <= to THEN Len(s) ELSE 0
        BY <2>3, <2>8, <3>1, IndexOfPart
      <3> QED
        BY <2>3, <2>5, <3>2
    <2>10. CASE to # Len(s)
      <3>1. newline = 0 /\ wire # <<>>
        BY <2>3, <2>4, <2>5, <2>9, <2>10
      <3>2. ~ Len(q.buf) > InlineMax
        <4>1. Len(s) <= InlineMax
          BY <2>7 DEF PlainRequest, s
        <4> QED
          BY <2>3, <2>4, <2>5, <4>1, ClientAssumption
      <3>3. Wait([q EXCEPT !.type = "inline"])
        BY <3>1, <3>2 DEF Inline
      <3>4. /\ q' = [q EXCEPT !.type = "inline"] /\ pc' = "ready"
            /\ UNCHANGED <<wire, asked, done, replies, eager>>
        BY <3>3 DEF Wait, conn, history
      <3>5. UNCHANGED <<q.buf, q.multibulklen, q.bulklen, q.argv>> /\ q'.type = "inline"
        BY <1>1, <3>4, QueryFields
      <3>6. Fresh(r)'
        BY <2>4, <2>6, <3>4, <3>5 DEF Fresh, Buffered, s
      <3>7. Hungry' /\ Answering(prev, r)'
        BY <2>1, <3>1, <3>4 DEF Hungry, Answering
      <3> QED
        BY <3>4, <3>6, <3>7 DEF Busy
    <2>11. CASE to = Len(s)
      <3>1. q.buf = s /\ newline = Len(s) /\ newline # 0 /\ wire = <<>>
        BY <2>3, <2>5, <2>9, <2>11
      <3>2. PICK words \in {Txt!SplitArgs(Line(q.buf, newline))} :
                \/ ~words.ok
                \/ /\ q' = [q EXCEPT !.type = "inline",
                                     !.buf = Trimmed(Len(Line(q.buf, newline)) + 2),
                                     !.argv = Words(words.args)]
                   /\ pc' = "execute"
                   /\ UNCHANGED <<conn, pos, out, errno, history>>
        <4>1. newline # 0
          BY <3>1
        <4> QED
          BY ONLY <4>1, Inline DEF Inline
      <3>3. words = Txt!SplitArgs(Line(s, Len(s)))
        BY <3>1, <3>2
      <3>4. words.ok /\ r.args = Words(words.args)
        BY <2>8, <3>3
      <3> DEFINE b == Trimmed(Len(Line(q.buf, newline)) + 2)
                 a == Words(words.args)
      <3>5. /\ q' = [q EXCEPT !.type = "inline", !.buf = b, !.argv = a] /\ pc' = "execute"
            /\ UNCHANGED <<wire, asked, done, replies, eager>>
        BY <3>2, <3>4 DEF conn, history
      <3> HIDE DEF a, b
      <3>6. q'.argv = a
        BY <1>1, <3>5, QueryFields
      <3>7. Answering(prev, r)'
        BY <2>1, <3>5 DEF Answering
      <3>8. pc' = "execute" /\ wire' = <<>> /\ q'.argv = r.args /\ r.args # Malformed
        BY <2>8, <3>1, <3>4, <3>5, <3>6 DEF a
      <3> QED
        BY <3>5, <3>7, <3>8 DEF Busy
    <2> QED
      BY <2>10, <2>11
  <1>3. UNCHANGED <<asked, eager>>
    BY DEF Inline, RefuseInline, Wait, history
  <1> QED
    BY <1>2, <1>3, Onward

LEMMA ExecuteExecuting ==
    ASSUME Executing, Execute
    PROVE  Executing'
  <1>1. pc = "execute" /\ UNCHANGED <<asked, eager>>
    BY DEF Execute
  <1>2. ASSUME Idle \/ Busy \/ Over
        PROVE  Idle' \/ Over'
    <2>1. PICK prev \in Seq(Requests), r \in Requests :
              Answering(prev, r) /\ wire = <<>> /\ q.argv = r.args /\ r.args # Malformed
      BY <1>1, <1>2 DEF Idle, Over, Gone, Busy, Hungry
    <2> QED
      BY <2>1, WordsExecuted
  <1> QED
    BY <1>1, <1>2, Onward

(* The parser waits at a place behind which the request goes on. *)
LEMMA BreakBusy ==
    ASSUME IsQuery(q), pos \in Nat, NEW prev \in Seq(Requests), NEW r \in Requests,
           Answering(prev, r), r.bytes \in Seq(Tokens),
           NEW n, NEW k, NEW ends, NEW j \in 0 .. k, NEW from, NEW to, Shape(r, n, k, ends),
           Buffered(r.bytes, from, to), from + pos <= to, to # Len(r.bytes),
           Reached(r.bytes, n, k, ends, j, from + pos), Break(q, pos)
    PROVE  Busy'
  <1> DEFINE s == r.bytes
             t == Trimmed(pos)
  <1>1. /\ t = SubSeq(s, from + pos + 1, to)
        /\ wire # <<>> /\ from \in Nat /\ to \in Nat
        /\ from \in 0 .. Len(s) /\ to \in from .. Len(s) /\ Len(s) \in Nat
    <2>1. Held(s, from, to, pos)
      BY DEF Held
    <2>2. /\ Trimmed(pos) = SubSeq(s, from + pos + 1, to)
          /\ wire = <<>> <=> to = Len(s)
          /\ from \in Nat /\ to \in Nat /\ Len(s) \in Nat
          /\ from \in 0 .. Len(s) /\ to \in from .. Len(s)
      BY <2>1, BufferOf
    <2> QED
      BY <2>2
  <1>2. /\ q' = [q EXCEPT !.buf = t] /\ pc' = "ready"
        /\ UNCHANGED <<wire, asked, done, replies>>
    BY DEF Break, conn, history
  <1> HIDE DEF t
  <1>3. q'.buf = t /\ UNCHANGED <<q.type, q.multibulklen, q.bulklen, q.argv>>
    BY <1>2, QueryFields
  <1>4. PICK p : p = from + pos
    OBVIOUS
  <1>5. p \in 0 .. Len(s) /\ to \in p .. Len(s) /\ to \in 0 .. Len(s) /\ p + 0 = p
    BY <1>1, <1>4
  <1>6. Buffered(s, p, to)'
    BY <1>1, <1>2, <1>3, <1>4, <1>5 DEF Buffered
  <1>7. Place' = 0
    BY <1>2 DEF Place
  <1>8. Reached(s, n, k, ends, j, p)'
    BY <1>2, <1>3, <1>4 DEF Reached
  <1>9. (p + Place <= to)' /\ Reached(s, n, k, ends, j, p + Place)'
    BY <1>5, <1>7, <1>8
  <1>10. Parsed(r)'
    BY <1>5, <1>6, <1>9 DEF Parsed
  <1>11. Hungry' /\ Answering(prev, r)'
    BY <1>1, <1>2 DEF Hungry, Answering
  <1> QED
    BY <1>10, <1>11 DEF Busy

(* A request without words ends where its number was read. *)
LEMMA EmptyDropped ==
    ASSUME NEW prev \in Seq(Requests), NEW r \in Requests, Answering(prev, r),
           r.args = <<>>, wire = <<>>, q' = Reset, pc' = "parse",
           UNCHANGED <<wire, asked, done, replies>>
    PROVE  Idle'
  <1>1. /\ MeantBy(prev) \in Seq(Orders)
        /\ MeantBy(asked) = MeantBy(prev) \o <<>>
    BY MeantAppend DEF Answering, CommandOf
  <1>2. MeantBy(asked) = MeantBy(prev)
    BY <1>1, ConcatEmptySeq
  <1>3. DueTo(asked) = DueTo(prev)
    BY DueAppend DEF Answering
  <1>4. MeantBy(asked') = MeantBy(asked) /\ DueTo(asked') = DueTo(asked)
    OBVIOUS
  <1>5. done' = MeantBy(asked') /\ replies' = DueTo(asked')
    BY <1>2, <1>3, <1>4 DEF Answering
  <1> QED
    BY <1>5 DEF Idle, Reset

LEMMA CountedBusy ==
    ASSUME IsQuery(q), NEW prev \in Seq(Requests), NEW r \in Requests,
           Answering(prev, r), r.bytes \in Seq(Tokens), r.bytes # <<>>, PlainRequest(r),
           Fresh(r), pc = "parse", q.buf # <<>>, Type = "multibulk", MultibulkLength
    PROVE  Idle' \/ Busy' \/ Over'
  <1> DEFINE s == r.bytes
             newline == Index(q.buf, "\r")
             count == Num!String2ll(SubSeq(q.buf, 2, newline - 1))
             e == LineEnd(s, 0)
             v == LineValue(s, 0)
  <1>1. PICK to \in 0 .. Len(s) :
            /\ Buffered(s, 0, to)
            /\ q.type \in {"unknown", Kind(s)}
            /\ q.multibulklen = 0 /\ q.bulklen = 0 /\ q.argv = <<>>
    BY DEF Fresh
  <1> HIDE DEF s
  <1>2. s \in Seq(Tokens) /\ s # <<>> /\ Len(s) \in Nat /\ 0 \in 0 .. Len(s) /\ to \in 0 .. Len(s)
    BY <1>1 DEF s
  <1>3. /\ Len(q.buf) = to /\ q.buf = SubSeq(s, 0 + 1, to)
        /\ Head(q.buf) = Head(s) /\ to # 0 /\ wire = <<>> <=> to = Len(s)
    BY <1>1, <1>2, Beginning
  <1>4. Head(s) = "*" /\ Kind(s) = "multibulk"
    BY <1>1, <1>3 DEF Kind, Type
  <1>5. /\ HasLine(s, 0)
        /\ \/ ~GoodCount(v) /\ r.args = Malformed /\ Len(s) = e + 1
           \/ GoodCount(v) /\ v.value <= 0 /\ r.args = <<>> /\ Len(s) = e + 1
           \/ GoodCount(v) /\ v.value > 0 /\ \E k, ends : Shape(r, v.value, k, ends)
    BY <1>4, MultibulkShape DEF s
  <1>6. /\ e \in 0 + 1 .. Len(s) - 1
        /\ newline = IF e <= to THEN e - 0 ELSE 0
        /\ newline # 0 => SubSeq(q.buf, 2, newline - 1) = SubSeq(s, 0 + 2, e - 1)
    <2>0. PICK p : p = 0
      OBVIOUS
    <2>1. p \in 0 .. Len(s) /\ to \in p .. Len(s) /\ HasLine(s, p)
      BY <1>2, <1>5, <2>0
    <2>6. PICK rest \in Seq(Tokens), nl \in Int, end \in p + 1 .. Len(s) - 1 :
              /\ rest = SubSeq(s, p + 1, to) /\ Len(rest) = to - p
              /\ nl = Index(rest, "\r") /\ end = LineEnd(s, p)
              /\ end > to => nl = 0
              /\ end <= to => /\ nl = end - p /\ rest[1] = s[p + 1]
                              /\ SubSeq(rest, 2, nl - 1) = SubSeq(s, p + 2, end - 1)
      BY <1>2, <2>1, LineSeen
    <2>2. /\ end \in 0 + 1 .. Len(s) - 1
          /\ rest = SubSeq(s, 0 + 1, to)
          /\ nl = Index(rest, "\r") /\ end = LineEnd(s, 0)
          /\ end > to => nl = 0
          /\ end <= to => nl = end - 0 /\ SubSeq(rest, 2, nl - 1) = SubSeq(s, 0 + 2, end - 1)
      BY <2>0, <2>6
    <2>3. newline = nl /\ e = end /\ rest = q.buf
      BY <1>3, <2>2
    <2> HIDE DEF newline, e
    <2>4. nl = IF end <= to THEN end - 0 ELSE 0
      BY <1>2, <2>2
    <2>5. nl # 0 => end <= to
      BY <1>2, <2>2
    <2> QED
      BY <2>2, <2>3, <2>4, <2>5
  <1>7. e \in Nat /\ e # 0 /\ e < Len(s)
    BY <1>2, <1>6
  <1>8. newline # 0 => count = v
    BY <1>6 DEF LineValue
  <1> HIDE DEF newline, e, v
  <1>9. newline = IF e <= to THEN e ELSE 0
    BY <1>6, <1>7
  <1>10. /\ Typed = [q EXCEPT !.type = "multibulk"]
         /\ Typed.buf = q.buf /\ Typed.type = "multibulk" /\ Typed.multibulklen = 0
         /\ Typed.bulklen = 0 /\ Typed.argv = <<>>
    BY <1>1, QueryFields DEF Typed
  <1> HIDE DEF count
  <1>11. \/ newline = 0 /\ (IF Len(q.buf) > InlineMax THEN Refuse ELSE Wait(Typed))
         \/ newline = Len(q.buf) /\ Wait(Typed)
         \/ newline \in 1 .. Len(q.buf) - 1 /\ ~GoodCount(count) /\ Refuse
         \/ /\ newline \in 1 .. Len(q.buf) - 1 /\ GoodCount(count)
            /\ IF count.value <= 0
               THEN q' = Reset /\ pc' = "parse" /\ pos' = 0
               ELSE /\ q' = [Typed EXCEPT !.multibulklen = count.value]
                    /\ pc' = "length" /\ pos' = newline + 1
            /\ UNCHANGED <<conn, out, errno, history>>
    BY <1>1 DEF MultibulkLength, newline, count
  <1>12. CASE ~ e < to
    <2>1. to # Len(s) /\ ~ newline \in 1 .. Len(q.buf) - 1
      BY <1>2, <1>3, <1>7, <1>9, <1>12
    <2>2. ~ Len(q.buf) > InlineMax
      <3>1. Len(s) <= InlineMax
        BY DEF PlainRequest, s
      <3> QED
        BY <1>2, <1>3, <3>1, ClientAssumption
    <2>3. Wait(Typed)
      BY <1>11, <2>1, <2>2
    <2>4. q' = Typed /\ pc' = "ready" /\ UNCHANGED <<wire, asked, done, replies>>
      BY <2>3 DEF Wait, conn, history
    <2>5. Fresh(r)'
      BY <1>1, <1>4, <1>10, <2>4 DEF Fresh, Buffered, s
    <2>6. Hungry' /\ Answering(prev, r)'
      BY <1>3, <2>1, <2>4 DEF Hungry, Answering
    <2> QED
      BY <2>5, <2>6 DEF Busy
  <1>13. CASE e < to
    <2>1. newline = e /\ newline # 0 /\ newline # Len(q.buf) /\ count = v
      BY <1>2, <1>3, <1>7, <1>8, <1>9, <1>13
    <2>2. CASE ~GoodCount(v)
      <3>1. Refuse
        BY <1>11, <2>1, <2>2
      <3>2. r.args = Malformed /\ to = Len(s)
        BY <1>2, <1>5, <1>7, <1>13, <2>2
      <3> QED
        BY <1>3, <3>1, <3>2, MalformedRefused
    <2>3. CASE GoodCount(v) /\ v.value <= 0
      <3>1. r.args = <<>> /\ to = Len(s)
        BY <1>2, <1>5, <1>7, <1>13, <2>3, ValueType DEF v
      <3>2. /\ q' = Reset /\ pc' = "parse" /\ UNCHANGED <<wire, asked, done, replies>>
        BY <1>11, <2>1, <2>3 DEF conn, history
      <3> QED
        BY <1>3, <3>1, <3>2, EmptyDropped
    <2>4. CASE GoodCount(v) /\ ~ v.value <= 0
      <3>1. PICK k, ends : Shape(r, v.value, k, ends)
        BY <1>5, <2>4
      <3>2. /\ q' = [Typed EXCEPT !.multibulklen = v.value]
            /\ pc' = "length" /\ pos' = e + 1
            /\ UNCHANGED <<wire, asked, done, replies>>
        BY <1>11, <2>1, <2>4 DEF conn, history
      <3> DEFINE n == v.value
      <3>3. n \in Nat /\ k \in 0 .. n /\ n # 0
        BY <2>4, <3>1, ShapeTypes
      <3>4. ends[0] = e + 1
        BY <3>1 DEF Shape, AreBulks, e, s
      <3> HIDE DEF n
      <3>5. /\ q'.buf = q.buf /\ q'.type = "multibulk" /\ q'.multibulklen = n
            /\ q'.bulklen = 0 /\ q'.argv = <<>>
        <4>1. Typed = [buf |-> q.buf, type |-> "multibulk", multibulklen |-> q.multibulklen,
                       bulklen |-> q.bulklen, argv |-> q.argv]
          BY <1>10, QueryFields
        <4> QED
          BY <1>1, <3>2, <4>1 DEF n
      <3>6. Buffered(s, 0, to)'
        BY <1>1, <3>2, <3>5 DEF Buffered
      <3>7. Place' = e + 1
        BY <3>2 DEF Place
      <3>8. 0 + (e + 1) = e + 1 /\ e + 1 <= to /\ n - 0 = n /\ 0 \in 0 .. k /\ 0 < n
        BY <1>2, <1>7, <1>13, <3>3
      <3>9. BulksOf(s, 0, ends) = <<>>
        BY BulksAppend
      <3>10. Reached(s, n, k, ends, 0, e + 1)'
        BY <3>2, <3>4, <3>5, <3>8, <3>9 DEF Reached
      <3>11. PICK p : p = e + 1
        OBVIOUS
      <3>12. /\ (0 + Place <= to)' /\ Reached(s, n, k, ends, 0, 0 + Place)'
        BY <3>7, <3>8, <3>10
      <3>13. Parsed(r)'
        BY <1>2, <3>1, <3>6, <3>8, <3>12 DEF Parsed, s, n
      <3>14. Hungry' /\ Answering(prev, r)'
        BY <3>2 DEF Hungry, Answering
      <3> QED
        BY <3>13, <3>14 DEF Busy
    <2> QED
      BY <2>2, <2>3, <2>4
  <1> QED
    BY <1>12, <1>13

(* Back in the loop with the next length to read, or to use. *)
LEMMA ResumedBusy ==
    ASSUME NEW prev \in Seq(Requests), NEW r \in Requests, Answering(prev, r),
           Parsed(r), pc = "parse", MultibulkLength
    PROVE  Busy'
  <1> DEFINE s == r.bytes
  <1>1. q.multibulklen # 0
    BY ParsedType
  <1>2. /\ pos' = 0 /\ q' = q /\ pc' = (IF q.bulklen = 0 THEN "length" ELSE "argument")
        /\ UNCHANGED <<wire, asked, done, replies>>
    BY <1>1 DEF MultibulkLength, conn, history
  <1>3. PICK n, k, ends : \E j \in 0 .. k, from, to \in 0 .. Len(s) :
            /\ Shape(r, n, k, ends) /\ Buffered(s, from, to)
            /\ from + Place <= to /\ Reached(s, n, k, ends, j, from + Place)
    BY DEF Parsed
  <1>4. PICK j \in 0 .. k, from \in 0 .. Len(s), to \in 0 .. Len(s) :
            /\ Shape(r, n, k, ends) /\ Buffered(s, from, to)
            /\ from + Place <= to /\ Reached(s, n, k, ends, j, from + Place)
    BY <1>3
  <1>5. Place = 0 /\ Place' = 0
    BY <1>2 DEF Place
  <1>6. j < k => LineValue(s, ends[j]).value > 0
    BY <1>4, BulkAt
  <1>7. Reached(s, n, k, ends, j, from + Place)'
    BY <1>2, <1>4, <1>5, <1>6 DEF Reached
  <1>8. Buffered(s, from, to)' /\ (from + Place <= to)'
    BY <1>2, <1>4, <1>5 DEF Buffered
  <1>9. Parsed(r)'
    BY <1>4, <1>7, <1>8 DEF Parsed
  <1>10. Hungry' /\ Answering(prev, r)'
    BY <1>2 DEF Hungry, Answering
  <1> QED
    BY <1>9, <1>10 DEF Busy

LEMMA MultibulkLengthExecuting ==
    ASSUME Invariant, Executing, MultibulkLength
    PROVE  Executing'
  <1>1. pc = "parse" /\ q.buf # <<>> /\ Type = "multibulk" /\ IsQuery(q)
    BY DEF MultibulkLength, Invariant, Types
  <1>2. ASSUME Plain, ~eager, Idle \/ Busy \/ Over
        PROVE  Idle' \/ Busy' \/ Over'
    <2>1. PICK prev \in Seq(Requests), r \in Requests :
              /\ Answering(prev, r) /\ r.bytes \in Seq(Tokens) /\ r.bytes # <<>>
              /\ Fresh(r) \/ Parsed(r)
      BY <1>1, <1>2, ParserBusy
    <2>2. PlainRequest(r)
      BY <1>2, <2>1, LastPlain DEF Answering
    <2>3. CASE Fresh(r)
      BY <1>1, <2>1, <2>2, <2>3, CountedBusy
    <2>4. CASE Parsed(r)
      BY <1>1, <2>1, <2>4, ResumedBusy
    <2> QED
      BY <2>1, <2>3, <2>4
  <1>3. UNCHANGED <<asked, eager>>
    BY DEF MultibulkLength, Refuse, Wait, history
  <1> QED
    BY <1>2, <1>3, Onward

(* Where the parser stands inside the loop *)
LEMMA InLoop ==
    ASSUME Idle \/ Busy \/ Over, pc \in {"length", "argument"}
    PROVE  \E prev \in Seq(Requests), r \in Requests : \E n \in Nat, k \in Nat : \E ends :
           \E j \in 0 .. k, from \in Nat, to \in Nat :
               /\ Answering(prev, r) /\ r.bytes \in Seq(Tokens)
               /\ Shape(r, n, k, ends) /\ k <= n /\ Buffered(r.bytes, from, to)
               /\ from + pos <= to /\ to <= Len(r.bytes)
               /\ Reached(r.bytes, n, k, ends, j, from + pos)
  <1>1. PICK prev \in Seq(Requests), r \in Requests :
            Answering(prev, r) /\ r.bytes \in Seq(Tokens) /\ Parsed(r)
    BY ParserBusy
  <1>2. PICK n, k, ends : \E j \in 0 .. k, from, to \in 0 .. Len(r.bytes) :
            /\ Shape(r, n, k, ends) /\ Buffered(r.bytes, from, to)
            /\ from + Place <= to /\ Reached(r.bytes, n, k, ends, j, from + Place)
    BY <1>1 DEF Parsed
  <1>3. PICK j \in 0 .. k, from \in 0 .. Len(r.bytes), to \in 0 .. Len(r.bytes) :
            /\ Shape(r, n, k, ends) /\ Buffered(r.bytes, from, to)
            /\ from + Place <= to /\ Reached(r.bytes, n, k, ends, j, from + Place)
    BY <1>2
  <1>4. n \in Nat /\ k \in 0 .. n
    BY <1>3, ShapeTypes
  <1>5. Place = pos
    BY DEF Place
  <1>6. from \in Nat /\ to \in Nat /\ k \in Nat /\ k <= n /\ to <= Len(r.bytes)
    BY <1>1, <1>4
  <1> QED
    BY <1>1, <1>3, <1>4, <1>5, <1>6

LEMMA BulkLengthExecuting ==
    ASSUME Invariant, Executing, BulkLength
    PROVE  Executing'
  <1>1. pc = "length" /\ IsQuery(q) /\ pos \in Nat
    BY DEF BulkLength, Invariant, Types
  <1>2. ASSUME Plain, ~eager, Idle \/ Busy \/ Over
        PROVE  Idle' \/ Busy' \/ Over'
    <2>1. PICK prev \in Seq(Requests), r \in Requests : \E n \in Nat, k \in Nat : \E ends :
          \E j \in 0 .. k, from \in Nat, to \in Nat :
              /\ Answering(prev, r) /\ r.bytes \in Seq(Tokens)
              /\ Shape(r, n, k, ends) /\ k <= n /\ Buffered(r.bytes, from, to)
              /\ from + pos <= to /\ to <= Len(r.bytes)
              /\ Reached(r.bytes, n, k, ends, j, from + pos)
      BY <1>1, <1>2, InLoop
    <2>2. PICK n \in Nat, k \in Nat : \E ends :
          \E j \in 0 .. k, from \in Nat, to \in Nat :
              /\ Answering(prev, r) /\ r.bytes \in Seq(Tokens)
              /\ Shape(r, n, k, ends) /\ k <= n /\ Buffered(r.bytes, from, to)
              /\ from + pos <= to /\ to <= Len(r.bytes)
              /\ Reached(r.bytes, n, k, ends, j, from + pos)
      BY <2>1
    <2>2a. PICK ends : \E j \in 0 .. k, from \in Nat, to \in Nat :
              /\ Answering(prev, r) /\ r.bytes \in Seq(Tokens)
              /\ Shape(r, n, k, ends) /\ k <= n /\ Buffered(r.bytes, from, to)
              /\ from + pos <= to /\ to <= Len(r.bytes)
              /\ Reached(r.bytes, n, k, ends, j, from + pos)
      BY <2>2
    <2>3. PICK j \in 0 .. k, from \in Nat, to \in Nat :
              /\ Answering(prev, r) /\ r.bytes \in Seq(Tokens)
              /\ Shape(r, n, k, ends) /\ k <= n /\ Buffered(r.bytes, from, to)
              /\ from + pos <= to /\ to <= Len(r.bytes)
              /\ Reached(r.bytes, n, k, ends, j, from + pos)
      BY <2>2a
    <2>4. PlainRequest(r)
      BY <1>2, <2>3, LastPlain DEF Answering
    <2> DEFINE s == r.bytes
    <2> HIDE DEF s
    <2>5. PICK p : p = from + pos
      OBVIOUS
    <2>6. /\ s \in Seq(Tokens) /\ Len(s) \in Nat /\ j \in Nat /\ j <= k /\ j < n
          /\ p \in Nat /\ p \in 0 .. Len(s) /\ to \in p .. Len(s)
      BY <1>1, <2>3, <2>5 DEF s, Reached
    <2>7. /\ q.bulklen = 0 /\ p = ends[j] /\ q.type = "multibulk" /\ q.multibulklen = n - j
          /\ q.argv = BulksOf(s, j, ends)
      BY <1>1, <2>3, <2>5 DEF Reached, s
    <2>8. j < k => IsBulk(s, p, ends[j + 1]) /\ LineValue(s, p).value > 0
      BY <2>3, <2>7, BulkAt DEF s
    <2>9. ~ j < k => NoBulk(s, p) /\ r.args = Malformed
      <3> SUFFICES ASSUME ~ j < k
                   PROVE  NoBulk(s, p) /\ r.args = Malformed
        OBVIOUS
      <3>1. j = k /\ k # n
        BY <2>2, <2>6
      <3> QED
        BY <2>3, <2>7, <3>1 DEF Shape, s
    <2>10. HasLine(s, p)
      BY <2>8, <2>9 DEF IsBulk, NoBulk
    <2>11. PICK rest \in Seq(Tokens), nl \in Int, e \in p + 1 .. Len(s) - 1 :
               /\ rest = SubSeq(s, p + 1, to) /\ Len(rest) = to - p
               /\ nl = Index(rest, "\r") /\ e = LineEnd(s, p)
               /\ e > to => nl = 0
               /\ e <= to => /\ nl = e - p /\ rest[1] = s[p + 1]
                             /\ SubSeq(rest, 2, nl - 1) = SubSeq(s, p + 2, e - 1)
      BY <2>6, <2>10, LineSeen
    <2>12. /\ Trimmed(pos) = rest /\ Len(q.buf) = to - from
           /\ wire = <<>> <=> to = Len(s)
      <3>1. Held(r.bytes, from, to, pos)
        BY <1>1, <2>3 DEF Held
      <3>2. /\ Trimmed(pos) = SubSeq(r.bytes, from + pos + 1, to) /\ Len(q.buf) = to - from
            /\ wire = <<>> <=> to = Len(r.bytes)
        <4>1. Trimmed(pos) = SubSeq(r.bytes, from + pos + 1, to)
          BY ONLY <3>1, HeldBehind
        <4>2. Len(q.buf) = to - from
          BY ONLY <3>1, HeldLength, Zenon
        <4>3. wire = <<>> <=> to = Len(r.bytes)
          BY ONLY <3>1, HeldRest, Zenon
        <4> QED
          BY ONLY <4>1, <4>2, <4>3
      <3>3. SubSeq(s, from + pos + 1, to) = SubSeq(s, p + 1, to)
        BY <2>5
      <3> QED
        BY <2>11, <3>2, <3>3 DEF s
    <2> DEFINE length == Num!String2ll(SubSeq(rest, 2, nl - 1))
    <2>13. e <= to => length = LineValue(s, p)
      BY <2>11 DEF LineValue
    <2> HIDE DEF length
    <2>14. \/ nl = 0 /\ (IF Len(q.buf) > InlineMax THEN Refuse ELSE Break(q, pos))
           \/ nl # 0 /\ nl = Len(rest) /\ Break(q, pos)
           \/ /\ nl \in 1 .. Len(rest) - 1
              /\ rest[1] # "$" \/ ~GoodLength(length)
              /\ Refuse
           \/ /\ nl \in 1 .. Len(rest) - 1
              /\ rest[1] = "$" /\ GoodLength(length)
              /\ \/ pos' = pos + nl + 1 /\ q' = [q EXCEPT !.bulklen = length.value]
                 \/ /\ pos' = 0
                    /\ q' = [q EXCEPT !.bulklen = length.value, !.buf = Trimmed(pos + nl + 1)]
              /\ pc' = "argument"
              /\ UNCHANGED <<conn, out, errno, history>>
      <3>1. Trimmed(pos) = rest /\ nl = Index(rest, "\r")
        BY <2>11, <2>12
      <3> QED
        BY ONLY <3>1, BulkLength DEF BulkLength, length
    <2>15. e \in Nat /\ e > p /\ e < Len(s)
      BY <2>6, <2>11
    <2>16. CASE ~ e < to
      <3>1. to # Len(s) /\ ~ nl \in 1 .. Len(rest) - 1
        BY <2>6, <2>11, <2>15, <2>16
      <3>2. ~ Len(q.buf) > InlineMax
        <4>1. Len(s) <= InlineMax
          BY <2>4 DEF PlainRequest, s
        <4>2. to <= Len(s)
          BY <2>6
        <4> QED
          BY <2>6, <2>12, <4>1, <4>2, ClientAssumption
      <3>3. Break(q, pos)
        BY <2>14, <3>1, <3>2
      <3> QED
        BY <1>1, <2>3, <3>1, <3>3, BreakBusy DEF s
    <2>17. CASE e < to
      <3>1. /\ nl = e - p /\ rest[1] = s[p + 1] /\ length = LineValue(s, p)
            /\ nl \in 1 .. Len(rest) - 1 /\ nl # 0 /\ nl # Len(rest)
        <4>1. e \in Int /\ p \in Int /\ to \in Int /\ Len(rest) = to - p /\ p < e /\ e <= to
          BY <2>6, <2>11, <2>15, <2>17
        <4>2. nl = e - p /\ rest[1] = s[p + 1] /\ length = LineValue(s, p)
          BY <2>11, <2>13, <4>1
        <4> QED
          BY ONLY <2>17, <4>1, <4>2
      <3>2. CASE j < k
        <4> DEFINE v == LineValue(s, p).value
        <4>1. s[p + 1] = "$" /\ GoodLength(LineValue(s, p)) /\ v \in Int
          BY <2>6, <2>8, <2>10, <3>2, ValueType DEF IsBulk
        <4>2. PICK x : x = pos + nl + 1
          OBVIOUS
        <4>3. x \in Nat /\ from + x = e + 1 /\ e + 1 <= to
          <5>1. from \in Int /\ pos \in Nat /\ e \in Int /\ to \in Int
                /\ nl = e - p /\ nl \in Nat /\ p = from + pos
            BY <1>1, <2>3, <2>5, <2>15, <3>1
          <5> QED
            BY ONLY <2>17, <4>2, <5>1
        <4>4. /\ \/ pos' = x /\ q' = [q EXCEPT !.bulklen = v]
                 \/ pos' = 0 /\ q' = [q EXCEPT !.bulklen = v, !.buf = Trimmed(x)]
              /\ pc' = "argument" /\ UNCHANGED <<wire, asked, done, replies>>
          BY <2>14, <3>1, <4>1, <4>2 DEF conn, history
        <4>5. LineEnd(s, ends[j]) = e /\ v = LineValue(s, ends[j]).value
          BY <2>7, <2>11 DEF v
        <4> HIDE DEF v
        <4>6. Trimmed(x) = SubSeq(s, from + x + 1, to)
          <5>1. Held(s, from, to, x)
            BY <2>3, <2>6, <4>3 DEF Held, s
          <5> QED
            BY ONLY <5>1, HeldBehind
        <4>7. from \in 0 .. Len(s) /\ to \in from .. Len(s)
              /\ q.buf = SubSeq(s, from + 1, to) /\ wire = SubSeq(s, to + 1, Len(s))
          BY <2>3 DEF Buffered, s
        <4>8. PICK start \in 0 .. Len(s) :
                  /\ start + pos' = e + 1 /\ to \in start .. Len(s)
                  /\ q'.buf = SubSeq(s, start + 1, to) /\ q'.bulklen = v
                  /\ UNCHANGED <<q.type, q.multibulklen, q.argv>>
          <5>1. CASE pos' = x /\ q' = [q EXCEPT !.bulklen = v]
            <6>1. q'.bulklen = v /\ UNCHANGED <<q.buf, q.type, q.multibulklen, q.argv>>
              BY <1>1, <5>1, QueryFields
            <6> QED
              BY <4>3, <4>7, <5>1, <6>1
          <5>2. CASE pos' = 0 /\ q' = [q EXCEPT !.bulklen = v, !.buf = Trimmed(x)]
            <6> DEFINE t == Trimmed(x)
            <6>1. q' = [q EXCEPT !.bulklen = v, !.buf = t]
              BY <5>2
            <6> HIDE DEF t
            <6>2. q'.bulklen = v /\ q'.buf = t /\ UNCHANGED <<q.type, q.multibulklen, q.argv>>
              BY <1>1, <6>1, QueryFields
            <6>3. e + 1 \in 0 .. Len(s) /\ to \in e + 1 .. Len(s)
              BY <2>6, <2>15, <4>3, <4>7
            <6>4. q'.buf = SubSeq(s, (e + 1) + 1, to)
              BY <4>3, <4>6, <6>2 DEF t
            <6>5. (e + 1) + pos' = e + 1
              BY <2>15, <5>2
            <6> QED
              BY <6>2, <6>3, <6>4, <6>5
          <5> QED
            BY <4>4, <5>1, <5>2
        <4>9. Buffered(s, start, to)'
          BY <4>4, <4>7, <4>8 DEF Buffered
        <4>10. PICK b : b = e + 1
          OBVIOUS
        <4>11. Reached(s, n, k, ends, j, b)'
          BY <2>3, <2>6, <2>7, <3>2, <4>4, <4>5, <4>8, <4>10 DEF Reached
        <4>12. (start + Place)' = b
          BY <4>4, <4>8, <4>10 DEF Place
        <4>13. (start + Place <= to)' /\ Reached(s, n, k, ends, j, start + Place)'
          BY <4>3, <4>10, <4>11, <4>12
        <4>14. start \in 0 .. Len(s) /\ to \in 0 .. Len(s)
          BY <2>6, <4>8
        <4>15. Parsed(r)'
          BY <2>3, <4>9, <4>13, <4>14 DEF Parsed, s
        <4>16. Hungry' /\ Answering(prev, r)'
          BY <2>3, <4>4 DEF Hungry, Answering
        <4> QED
          BY <4>15, <4>16 DEF Busy
      <3>3. CASE ~ j < k
        <4>1. /\ Len(s) = e + 1 /\ r.args = Malformed
              /\ s[p + 1] = "$" => ~GoodLength(LineValue(s, p))
          BY <2>9, <2>11, <3>3 DEF NoBulk
        <4>2. Refuse
          BY <2>14, <3>1, <4>1
        <4>3. wire = <<>>
          BY <2>6, <2>12, <2>15, <2>17, <4>1
        <4> QED
          BY <2>3, <4>1, <4>2, <4>3, MalformedRefused
      <3> QED
        BY <3>2, <3>3
    <2> QED
      BY <2>16, <2>17
  <1>3. UNCHANGED <<asked, eager>>
    BY DEF BulkLength, Refuse, Break, history
  <1> QED
    BY <1>2, <1>3, Onward

(* The argument, cut from the buffer, is the one that was sent. *)
LEMMA ArgumentCut ==
    ASSUME NEW s, NEW from, NEW to, NEW v, Held(s, from, to, pos + v), pos \in Nat, v \in Nat
    PROVE  SubSeq(q.buf, pos + 1, pos + v) = SubSeq(s, from + pos + 1, from + pos + v)
  <1> USE DEF Held
  <1>1. from \in 0 .. Len(s) /\ to \in from .. Len(s)
    BY DEF Buffered
  <1>2. pos + v \in Int /\ pos + v <= to - from
    BY <1>1
  <1>3. PICK d : d = pos + v
    OBVIOUS
  <1>4. d \in Int /\ d <= to - from /\ from + d = from + pos + v
    <2>1. from \in Int /\ to \in Int /\ pos \in Int /\ v \in Int
      BY <1>1
    <2> QED
      BY ONLY <1>2, <1>3, <2>1
  <1>5. SubSeq(SubSeq(s, from + 1, to), pos + 1, d) = SubSeq(s, from + pos + 1, from + d)
    BY <1>1, <1>4, PartOfPart
  <1> QED
    BY <1>2, <1>3, <1>4, <1>5 DEF Buffered

(* One argument more has been read.  The query that has it begins at one   *)
(* place of the request and goes on, p bytes later, behind the argument.   *)
Takes(r, n, k, ends, j, query, start, to, p) ==
    /\ n \in Nat /\ k \in Nat /\ k <= n /\ Shape(r, n, k, ends)
    /\ j \in Nat /\ j < k
    /\ start \in 0 .. Len(r.bytes) /\ to \in start .. Len(r.bytes)
    /\ query.buf = SubSeq(r.bytes, start + 1, to) /\ wire = SubSeq(r.bytes, to + 1, Len(r.bytes))
    /\ start + p = ends[j + 1] /\ ends[j + 1] <= to
    /\ query.type = "multibulk" /\ query.multibulklen = n - (j + 1) /\ query.bulklen = 0
    /\ query.argv = BulksOf(r.bytes, j + 1, ends)
    /\ NextArgument(query, p)

LEMMA ArgumentTaken ==
    ASSUME NEW prev \in Seq(Requests), NEW r \in Requests, Answering(prev, r),
           NEW n, NEW k, NEW ends, NEW j, NEW query, NEW start, NEW to, NEW p, IsQuery(query),
           Takes(r, n, k, ends, j, query, start, to, p)
    PROVE  Busy'
  <1> DEFINE s == r.bytes
  <1>1. /\ n \in Nat /\ k \in Nat /\ k <= n /\ Shape(r, n, k, ends) /\ j \in Nat /\ j < k
        /\ start \in 0 .. Len(s) /\ to \in start .. Len(s)
        /\ query.buf = SubSeq(s, start + 1, to) /\ wire = SubSeq(s, to + 1, Len(s))
        /\ start + p = ends[j + 1] /\ ends[j + 1] <= to
        /\ query.type = "multibulk" /\ query.multibulklen = n - (j + 1) /\ query.bulklen = 0
        /\ query.argv = BulksOf(s, j + 1, ends)
    BY DEF Takes
  <1>2. /\ pos' = p /\ UNCHANGED <<wire, asked, done, replies>>
        /\ IF query.multibulklen = 0
           THEN q' = [query EXCEPT !.buf = SubSeq(@, p + 1, Len(@))] /\ pc' = "execute"
           ELSE q' = query /\ pc' = "length"
    BY DEF Takes, NextArgument, conn, history
  <1>3. s \in Seq(Tokens) /\ Len(s) \in Nat
    BY SequencesOfTokens
  <1>4. Answering(prev, r)'
    BY <1>2 DEF Answering
  <1>5. CASE query.multibulklen = 0
    <2>1. n = j + 1 /\ k = n
      <3>1. n \in Int /\ j \in Int /\ k \in Int /\ n - (j + 1) = 0 /\ j < k /\ k <= n
        BY <1>1, <1>5
      <3> QED
        BY ONLY <3>1
    <2>2. ends[k] = Len(s) /\ r.args = BulksOf(s, k, ends) /\ r.args # Malformed
      <3>1. ~ k < n
        BY <1>1, <2>1
      <3>2. Shape(r, n, k, ends)
        BY <1>1
      <3> QED
        BY ONLY <3>1, <3>2 DEF Shape
    <2>3. to = Len(s)
      BY <1>1, <1>3, <2>1, <2>2
    <2>4. wire = <<>>
      BY <1>1, <1>3, <2>3, SubSeqEmpty
    <2> DEFINE b == SubSeq(query.buf, p + 1, Len(query.buf))
    <2>5. q' = [query EXCEPT !.buf = b] /\ pc' = "execute"
      <3>1. query = [buf |-> query.buf, type |-> query.type,
                     multibulklen |-> query.multibulklen, bulklen |-> query.bulklen,
                     argv |-> query.argv]
        BY QueryFields
      <3> QED
        BY <1>2, <1>5, <3>1
    <2> HIDE DEF b
    <2>6. q'.argv = query.argv
      BY <2>5
    <2> QED
      BY <1>1, <1>2, <1>4, <2>1, <2>2, <2>4, <2>5, <2>6 DEF Busy
  <1>6. CASE query.multibulklen # 0
    <2>1. q' = query /\ pc' = "length"
      BY <1>2, <1>6
    <2>2. Buffered(s, start, to)'
      BY <1>1, <1>2, <2>1 DEF Buffered
    <2>3. PICK i : i = j + 1
      OBVIOUS
    <2>4. i \in 0 .. k /\ i < n
      BY <1>1, <1>6, <2>3
    <2>5. PICK b : b = ends[j + 1]
      OBVIOUS
    <2>6. Reached(s, n, k, ends, i, b)'
      BY <1>1, <2>1, <2>3, <2>4, <2>5 DEF Reached
    <2>7. (start + Place)' = b
      BY <1>1, <1>2, <2>1, <2>5 DEF Place
    <2>8. (start + Place <= to)' /\ Reached(s, n, k, ends, i, start + Place)'
      BY <1>1, <2>5, <2>6, <2>7
    <2>9. to \in 0 .. Len(s)
      BY <1>1, <1>3
    <2>10. Parsed(r)'
      BY <1>1, <2>2, <2>4, <2>8, <2>9 DEF Parsed
    <2>11. Hungry'
      BY <2>1 DEF Hungry
    <2> QED
      BY <1>4, <2>10, <2>11 DEF Busy
  <1> QED
    BY <1>5, <1>6

LEMMA BulkArgumentExecuting ==
    ASSUME Invariant, Executing, BulkArgument
    PROVE  Executing'
  <1>1. pc = "argument" /\ IsQuery(q) /\ pos \in Nat
    BY DEF BulkArgument, Invariant, Types
  <1>2. ASSUME Plain, ~eager, Idle \/ Busy \/ Over
        PROVE  Idle' \/ Busy' \/ Over'
    <2>1. PICK prev \in Seq(Requests), r \in Requests : \E n \in Nat, k \in Nat : \E ends :
          \E j \in 0 .. k, from \in Nat, to \in Nat :
              /\ Answering(prev, r) /\ r.bytes \in Seq(Tokens)
              /\ Shape(r, n, k, ends) /\ k <= n /\ Buffered(r.bytes, from, to)
              /\ from + pos <= to /\ to <= Len(r.bytes)
              /\ Reached(r.bytes, n, k, ends, j, from + pos)
      BY <1>1, <1>2, InLoop
    <2>2. PICK n \in Nat, k \in Nat : \E ends :
          \E j \in 0 .. k, from \in Nat, to \in Nat :
              /\ Answering(prev, r) /\ r.bytes \in Seq(Tokens)
              /\ Shape(r, n, k, ends) /\ k <= n /\ Buffered(r.bytes, from, to)
              /\ from + pos <= to /\ to <= Len(r.bytes)
              /\ Reached(r.bytes, n, k, ends, j, from + pos)
      BY <2>1
    <2>2a. PICK ends : \E j \in 0 .. k, from \in Nat, to \in Nat :
              /\ Answering(prev, r) /\ r.bytes \in Seq(Tokens)
              /\ Shape(r, n, k, ends) /\ k <= n /\ Buffered(r.bytes, from, to)
              /\ from + pos <= to /\ to <= Len(r.bytes)
              /\ Reached(r.bytes, n, k, ends, j, from + pos)
      BY <2>2
    <2>3. PICK j \in 0 .. k, from \in Nat, to \in Nat :
              /\ Answering(prev, r) /\ r.bytes \in Seq(Tokens)
              /\ Shape(r, n, k, ends) /\ k <= n /\ Buffered(r.bytes, from, to)
              /\ from + pos <= to /\ to <= Len(r.bytes)
              /\ Reached(r.bytes, n, k, ends, j, from + pos)
      BY <2>2a
    <2> DEFINE s == r.bytes
               e == LineEnd(s, ends[j])
               v == LineValue(s, ends[j]).value
    <2> HIDE DEF s, e, v
    <2>4. /\ j < k /\ j < n /\ q.bulklen = v /\ from + pos = e + 1
          /\ q.type = "multibulk" /\ q.multibulklen = n - j /\ q.argv = BulksOf(s, j, ends)
      BY <1>1, <2>3 DEF Reached, s, e, v
    <2>5. /\ ends[j] \in 0 .. Len(s) /\ HasLine(s, ends[j])
          /\ ends[j + 1] = e + v + 3 /\ ends[j + 1] <= Len(s) /\ v > 0
      BY <2>3, <2>4, BulkAt DEF IsBulk, s, e, v
    <2>6. e \in Nat /\ v \in Nat /\ s \in Seq(Tokens) /\ Len(s) \in Nat /\ j \in Nat
      <3>1. s \in Seq(Tokens)
        BY <2>3 DEF s
      <3>2. e \in ends[j] + 1 .. Len(s) - 1 /\ v \in Int
        BY <2>5, <3>1, ValueType DEF e, v
      <3> QED
        BY <2>5, <3>1, <3>2
    <2>7. Buffered(s, from, to) /\ from + pos <= to
      BY <2>3 DEF s
    <2>8. Len(q.buf) = to - from
      <3>1. Held(s, from, to, pos)
        BY <1>1, <2>6, <2>7 DEF Held
      <3> QED
        BY ONLY <3>1, HeldLength, Zenon
    <2> DEFINE end  == pos + q.bulklen
               next == [q EXCEPT !.argv = Append(@, SubSeq(q.buf, pos + 1, end)),
                                 !.bulklen = 0, !.multibulklen = @ - 1]
    <2>9. \/ Missing(end) /\ Break(q, pos)
          \/ ~Missing(end) /\ JustOne /\ NextArgument([next EXCEPT !.buf = <<>>], 0)
          \/ ~Missing(end) /\ ~JustOne /\ NextArgument(next, end + 2)
      BY DEF BulkArgument
    <2> HIDE DEF end, next
    <2>10. end = pos + v
      BY <2>4 DEF end
    <2>11. Missing(end) <=> to < ends[j + 1]
      <3>1. Missing(end) <=> to - from < pos + v + 2
        BY <2>8, <2>10 DEF Missing
      <3>2. to - from < pos + v + 2 <=> to < from + pos + v + 2
        BY <1>1, <2>3, <2>6
      <3>3. from + pos + v + 2 = ends[j + 1]
        BY <1>1, <2>3, <2>4, <2>5, <2>6
      <3> QED
        BY <3>1, <3>2, <3>3
    <2>12. CASE Missing(end)
      <3>1. Break(q, pos) /\ to # Len(s)
        BY <2>5, <2>6, <2>9, <2>11, <2>12
      <3> QED
        BY <1>1, <2>3, <3>1, BreakBusy DEF s
    <2>13. CASE ~Missing(end)
      <3>2. ends[j + 1] <= to /\ e + 1 + v <= to
        BY <2>3, <2>5, <2>6, <2>11, <2>13
      <3>3. SubSeq(q.buf, pos + 1, end) = Bulk(s, ends[j])
        <4>1. /\ from + pos + v <= to
              /\ from + pos + 1 = e + 2 /\ from + pos + v = e + 1 + v
          <5>1. from \in Int /\ pos \in Int /\ e \in Int /\ v \in Int /\ to \in Int
            BY <1>1, <2>6
          <5> QED
            BY ONLY <2>4, <3>2, <5>1
        <4>2. SubSeq(q.buf, pos + 1, pos + v) = SubSeq(s, from + pos + 1, from + pos + v)
          <5>1. from + (pos + v) <= to /\ pos + v \in Nat
            BY <1>1, <2>6, <4>1
          <5>2. Held(s, from, to, pos + v)
            BY <2>6, <2>7, <5>1 DEF Held
          <5> QED
            BY <1>1, <2>6, <5>2, ArgumentCut
        <4> QED
          BY <2>10, <4>1, <4>2 DEF Bulk, e, v
      <3>4. /\ next = [buf |-> q.buf, type |-> "multibulk", multibulklen |-> n - (j + 1),
                      bulklen |-> 0, argv |-> BulksOf(s, j + 1, ends)]
            /\ n - (j + 1) \in Nat
        <4> DEFINE a == Append(q.argv, SubSeq(q.buf, pos + 1, end))
        <4>1. a = BulksOf(s, j + 1, ends)
          BY <2>4, <2>6, <3>3, BulksAppend
        <4>2. PICK m : m = q.multibulklen - 1
          OBVIOUS
        <4>3. q = [buf |-> q.buf, type |-> q.type, multibulklen |-> q.multibulklen,
                   bulklen |-> q.bulklen, argv |-> q.argv]
          BY <1>1, QueryFields
        <4>4. next = [buf |-> q.buf, type |-> q.type, multibulklen |-> m, bulklen |-> 0,
                      argv |-> a]
          <5>1. next = [q EXCEPT !.argv = a, !.bulklen = 0, !.multibulklen = m]
            BY <4>2, <4>3 DEF next
          <5> HIDE DEF a, next
          <5> QED
            BY ONLY <4>3, <5>1
        <4> HIDE DEF a, next
        <4>5. m = n - (j + 1) /\ m \in Nat
          BY <2>3, <2>4, <2>6, <4>2
        <4> QED
          BY <2>4, <4>1, <4>4, <4>5
      <3> HIDE DEF next
      <3>5. /\ from \in 0 .. Len(s) /\ to \in from .. Len(s)
            /\ q.buf = SubSeq(s, from + 1, to) /\ wire = SubSeq(s, to + 1, Len(s))
        BY <2>7 DEF Buffered
      <3>6. CASE JustOne /\ NextArgument([next EXCEPT !.buf = <<>>], 0)
        <4> DEFINE empty == [buf |-> <<>>, type |-> "multibulk", multibulklen |-> n - (j + 1),
                             bulklen |-> 0, argv |-> BulksOf(s, j + 1, ends)]
        <4>1. [next EXCEPT !.buf = <<>>] = empty
          BY <3>4
        <4>2. IsQuery(empty)
          <5>1. <<>> \in Seq(Tokens) /\ 0 \in Nat
            OBVIOUS
          <5> QED
            BY <3>4, <5>1, QueryType
        <4>3. to = ends[j + 1]
          <5>1. pos = 0 /\ to - from = v + 2
            BY <2>4, <2>8, <3>6 DEF JustOne
          <5>2. from \in Int /\ to \in Int /\ e \in Int /\ v \in Int
            BY <2>6, <3>5
          <5> QED
            BY ONLY <2>4, <2>5, <5>1, <5>2
        <4>4. to \in 0 .. Len(s) /\ to \in to .. Len(s) /\ to + 0 = to
              /\ <<>> = SubSeq(s, to + 1, to)
          BY <2>6, <3>5, SubSeqEmpty
        <4>5. NextArgument(empty, 0)
          BY <3>6, <4>1
        <4>6. Takes(r, n, k, ends, j, empty, to, to, 0)
          <5>1. /\ empty.buf = <<>> /\ empty.type = "multibulk"
                /\ empty.multibulklen = n - (j + 1) /\ empty.bulklen = 0
                /\ empty.argv = BulksOf(s, j + 1, ends)
            OBVIOUS
          <5>2. to + 0 = ends[j + 1] /\ ends[j + 1] <= to
            BY <4>3, <4>4
          <5>3. n \in Nat /\ k \in Nat /\ k <= n /\ Shape(r, n, k, ends) /\ j \in Nat /\ j < k
            BY <2>3, <2>4, <2>6
          <5> HIDE DEF empty
          <5> QED
            BY ONLY <3>5, <4>4, <4>5, <5>1, <5>2, <5>3 DEF Takes, s
        <4> HIDE DEF empty
        <4> QED
          BY <2>3, <4>2, <4>6, ArgumentTaken
      <3>7. CASE NextArgument(next, end + 2)
        <4>1. IsQuery(next)
          BY <1>1, <3>4, QueryFields, QueryType
        <4>2. from + (end + 2) = ends[j + 1]
          BY <1>1, <2>3, <2>4, <2>5, <2>6, <2>10
        <4>3. PICK m : m = end + 2
          OBVIOUS
        <4>4. Takes(r, n, k, ends, j, next, from, to, m)
          BY <2>3, <2>4, <2>6, <3>2, <3>4, <3>5, <3>7, <4>2, <4>3 DEF Takes, s
        <4> QED
          BY <2>3, <4>1, <4>4, ArgumentTaken
      <3> QED
        BY <2>9, <2>13, <3>6, <3>7
    <2> QED
      BY <2>12, <2>13
  <1>3. UNCHANGED <<asked, eager>>
    BY DEF BulkArgument, NextArgument, Break, history
  <1> QED
    BY <1>2, <1>3, Onward

-------------------------------------------------------------------------------
(* Every step *)

LEMMA InitExecuting ==
    ASSUME Init
    PROVE  Executing
  <1>1. asked = <<>> /\ asked \in Seq(Requests) /\ DOMAIN asked = {}
    BY DEF Init
  <1>2. MeantBy(asked) = <<>>
    <2>1. [i \in DOMAIN asked |-> CommandOf(asked[i])] = <<>>
      BY <1>1
    <2> QED
      BY <2>1, FlattenEmpty DEF MeantBy
  <1>3. DueTo(asked) = 0
    <2>1. {i \in DOMAIN asked : asked[i].args # <<>>} = {}
      BY <1>1
    <2> QED
      BY <2>1, FS_EmptySet DEF DueTo
  <1>4. Idle
    BY <1>2, <1>3 DEF Init, Idle
  <1> QED
    BY <1>1, <1>4 DEF Executing

LEMMA StepExecuting ==
    ASSUME Invariant, Executing, [Next]_vars
    PROVE  Executing'
  <1>1. CASE UNCHANGED vars
    BY <1>1, Standing DEF vars, conn, history
  <1>2. ASSUME NEW r \in Requests, Send(r)
        PROVE  Executing'
    BY <1>2, SendExecuting
  <1>3. CASE Receive
    BY <1>3, Standing DEF Receive
  <1>4. CASE Close
    BY <1>4, Standing DEF Close, history
  <1>5. CASE Server
    <2>1. ASSUME NEW n \in 1 .. Len(wire), Read(n)
          PROVE  Executing'
      BY <2>1, ReadExecuting
    <2>2. CASE ReadEnd
      BY <2>2, ReadEndExecuting
    <2>3. CASE ParseEnd
      BY <2>3, ParseEndExecuting
    <2>4. CASE Inline
      BY <2>4, InlineExecuting
    <2>5. CASE MultibulkLength
      BY <2>5, MultibulkLengthExecuting
    <2>6. CASE BulkLength
      BY <2>6, BulkLengthExecuting
    <2>7. CASE BulkArgument
      BY <2>7, BulkArgumentExecuting
    <2>8. CASE Execute
      BY <2>8, ExecuteExecuting
    <2>9. CASE Writable
      <3>1. pc = "ready" /\ pc' = "send" /\ UNCHANGED <<wire, q, pos, asked, eager, done, replies>>
        BY <2>9 DEF Writable, conn, history
      <3> QED
        BY <3>1, Standing
    <2>10. ASSUME NEW n \in 1 .. Len(Source), Write(n)
           PROVE  Executing'
      <3>1. UNCHANGED <<pc, wire, q, pos, asked, eager, done, replies>>
        BY <2>10 DEF Write, history
      <3> QED
        BY <3>1, Standing
    <2>11. CASE WriteBlocked
      BY <2>11, Standing DEF WriteBlocked, conn, history
    <2>12. CASE WriteFails
      BY <2>12, Ended DEF WriteFails, history, Gone
    <2>13. CASE SendEnd
      <3>1. pc = "send" /\ pc' = "ready" /\ UNCHANGED <<wire, q, pos, asked, eager, done, replies>>
        BY <2>13 DEF SendEnd, conn, history
      <3> QED
        BY <3>1, Standing
    <2> QED
      BY <1>5, <2>1, <2>2, <2>3, <2>4, <2>5, <2>6, <2>7, <2>8, <2>9, <2>10, <2>11, <2>12,
         <2>13 DEF Server
  <1> QED
    BY <1>1, <1>2, <1>3, <1>4, <1>5 DEF Next

(* The parser and the peer agree on where they are in the request, in each *)
(* state that can be reached (networking.c:252-451, Server.c processCommand). *)
THEOREM ExecutingAlways == Spec => [](Invariant /\ Executing)
  <1>1. Init => Invariant /\ Executing
    BY InitInvariant, InitExecuting
  <1>2. Invariant /\ Executing /\ [Next]_vars => (Invariant /\ Executing)'
    BY StepInvariant, StepExecuting
  <1> QED
    BY <1>1, <1>2, PTL DEF Spec

(* However a request is cut into reads, the command executed is the one    *)
(* that was sent, once and in order, as long as the peer waits for each    *)
(* answer and for every set of requests of the protocol                    *)
(* (networking.c:252-313, 315-451).                                        *)
THEOREM RequestsExecuted == Spec => []ExecutedAsSent
  <1>1. ASSUME Executing
        PROVE  ExecutedAsSent
    BY <1>1, ExecutingPrefix, MeantByAll DEF ExecutedAsSent
  <1> QED
    BY <1>1, ExecutingAlways, PTL

(* When the server rests and nothing is on the wire, the query buffer is   *)
(* empty and every request has its reply: the parser never waits for bytes *)
(* behind the end of a request (networking.c:330-451).                     *)
THEOREM NothingLeft == Spec => []NothingLeftBehind
  <1>1. ASSUME Executing
        PROVE  NothingLeftBehind
    <2> SUFFICES ASSUME Plain, ~eager, pc = "ready", wire = <<>>
                 PROVE  q.buf = <<>> /\ replies = Due
      BY DEF NothingLeftBehind
    <2>1. Idle
      BY <1>1, RestIdle DEF Executing
    <2> QED
      BY <2>1, MeantByAll DEF Idle, EmptyQuery
  <1> QED
    BY <1>1, ExecutingAlways, PTL
=============================================================================
