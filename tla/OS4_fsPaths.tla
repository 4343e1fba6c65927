---------------------------- MODULE OS4_fsPaths ----------------------------
(***************************************************************************)
(* What the operators of OS4_fs compute, for any table of directories:     *)
(* where find leads, what a slot that is added or removed does to what a   *)
(* directory contains, which id Alloc gives out. The table, the kinds of   *)
(* the inodes and the directories in use are parameters, so that the       *)
(* lemmas speak of the state before and after a command alike.             *)
(***************************************************************************)
EXTENDS OS4_fs, NaturalsInduction, WellFoundedInduction, SequenceTheorems, FiniteSetTheorems, TLAPS

-----------------------------------------------------------------------------
(* Induction, over sets instead of predicates.                             *)

\* A nonempty set of natural numbers has a least element, and First is it.
LEMMA FirstIsLeast ==
  ASSUME NEW S \in SUBSET Nat, S # {}
  PROVE  First(S) \in S /\ \A y \in S : First(S) <= y
<1>1. PICK x \in S : \A y \in S : ~ (<<y, x>> \in OpToRel(<, Nat))
  BY NatLessThanWellFounded, WFMin, Zenon
<1>2. \A a, b \in Nat : a < b => <<a, b>> \in OpToRel(<, Nat)
  BY SMT DEF OpToRel
<1>3. \A y \in S : ~ (y < x)
  BY <1>1, <1>2, Zenon
<1>4. \A y \in S : x <= y
  BY <1>3, SMT
<1> QED  BY <1>4, Zenon DEF First

\* A set of natural numbers with 0 and every successor is all of them.
LEMMA NatBySuccessor ==
  ASSUME NEW X, 0 \in X, \A n \in Nat : n \in X => n + 1 \in X
  PROVE  Nat \subseteq X
<1> DEFINE Y == Nat \ X
<1>1. SUFFICES ASSUME Y # {} PROVE FALSE  OBVIOUS
<1>2. First(Y) \in Y /\ \A y \in Y : First(Y) <= y  BY <1>1, FirstIsLeast
<1>3. PICK n : n = First(Y)  OBVIOUS
<1>4. n \in Nat /\ n \notin X /\ n # 0  BY <1>2, <1>3
<1>5. n - 1 \in Nat /\ (n - 1) + 1 = n /\ ~(n <= n - 1)  BY <1>4, SMT
<1>6. n - 1 \notin Y  BY <1>2, <1>3, <1>5
<1> QED  BY <1>4, <1>5, <1>6

\* A set with the empty sequence, and with every sequence in it each longer by
\* one element, holds all sequences.
LEMMA SeqByAppend ==
  ASSUME NEW S, NEW X, <<>> \in X, \A s \in Seq(S), e \in S : s \in X => Append(s, e) \in X
  PROVE  Seq(S) \subseteq X
<1> DEFINE L == {n \in Nat : \A s \in Seq(S) : Len(s) = n => s \in X}
<1>1. 0 \in L
  BY SMT, EmptySeq
<1>2. \A n \in Nat : n \in L => n + 1 \in L
  <2> SUFFICES ASSUME NEW n \in Nat, n \in L, NEW s \in Seq(S), Len(s) = n + 1 PROVE s \in X  OBVIOUS
  <2>1. s # <<>>  BY SMT
  <2>2. PICK r \in Seq(S), e \in S : s = Append(r, e)  BY <2>1, SequenceEmptyOrAppend
  <2>3. Len(r) = n
    <3>1. Len(s) = Len(r) + 1 /\ Len(r) \in Nat  BY <2>2, AppendProperties, LenProperties
    <3> QED  BY <3>1, SMT
  <2> QED  BY <2>2, <2>3
<1> HIDE DEF L
<1>3. Nat \subseteq L  BY <1>1, <1>2, NatBySuccessor
<1> QED  BY <1>3, LenProperties DEF L

-----------------------------------------------------------------------------
(* find, with the table of directories as a parameter.                     *)
Root == [ok |-> TRUE, dir |-> 0, inode |-> 0]
NamedIn(t, d, name) == {s \in (0 .. t[d].sub_cnt - 1) \cap Slots : t[d].file_name[s] = name}
StepIn(t, w, name) ==
  LET S == NamedIn(t, w.dir, name) IN
  IF ~w.ok \/ S = {} THEN [w EXCEPT !.ok = FALSE]
  ELSE IF t[w.dir].file_inode[First(S)] = 0 THEN w
  ELSE [ok |-> TRUE, dir |-> t[w.dir].sub_dir_ids[First(S)], inode |-> t[w.dir].file_inode[First(S)]]
Walks(t, p, N, f) == f = [n \in 0 .. N |-> IF n = 0 THEN Root ELSE StepIn(t, f[n - 1], p[n])]
FindIn(t, p) == (CHOOSE f : Walks(t, p, Len(p), f))[Len(p)]

\* find goes by dir_table and nothing else.
LEMMA FindIsFindIn == \A p : find(p) = FindIn(dir_table, p)
BY DEF find, FindIn, Walks, StepIn, NamedIn, Named, Used, Root

\* The recursive function of find exists, for every length ...
LEMMA WalkExists ==
  ASSUME NEW t, NEW p, NEW N \in Nat
  PROVE  \E f : Walks(t, p, N, f)
<1> DEFINE X == {n \in Nat : \E f : Walks(t, p, n, f)}
<1>1. 0 \in X
  <2>1. Walks(t, p, 0, [n \in 0 .. 0 |-> Root])  BY SMT DEF Walks
  <2> QED  BY <2>1
<1>2. \A n \in Nat : n \in X => n + 1 \in X
  <2> SUFFICES ASSUME NEW n \in Nat, NEW f, Walks(t, p, n, f) PROVE \E g : Walks(t, p, n + 1, g)  OBVIOUS
  <2> DEFINE g == [k \in 0 .. n + 1 |-> IF k = n + 1 THEN StepIn(t, f[n], p[n + 1]) ELSE f[k]]
  <2>1. \A k \in 0 .. n + 1 : g[k] = IF k = 0 THEN Root ELSE StepIn(t, g[k - 1], p[k])
    <3> SUFFICES ASSUME NEW k \in 0 .. n + 1 PROVE g[k] = IF k = 0 THEN Root ELSE StepIn(t, g[k - 1], p[k])  OBVIOUS
    <3>1. CASE k = n + 1
      <4>1. k # 0 /\ k - 1 = n /\ n \in 0 .. n + 1 /\ n # n + 1  BY <3>1, SMT
      <4> QED  BY <3>1, <4>1, Zenon
    <3>2. CASE k # n + 1
      <4>1. k \in 0 .. n  BY <3>2, SMT
      <4>2. f[k] = IF k = 0 THEN Root ELSE StepIn(t, f[k - 1], p[k])  BY <4>1, Zenon DEF Walks
      <4>3. k # 0 => k - 1 \in 0 .. n + 1 /\ k - 1 # n + 1  BY <4>1, SMT
      <4> QED  BY <3>2, <4>2, <4>3, Zenon
    <3> QED  BY <3>1, <3>2
  <2>2. Walks(t, p, n + 1, g)  BY <2>1, Zenon DEF Walks
  <2> QED  BY <2>2
<1> HIDE DEF X
<1>3. N \in X  BY <1>1, <1>2, NatBySuccessor
<1> QED  BY <1>3 DEF X

\* ... and at each place is what the names before it make it.
LEMMA WalksAgree ==
  ASSUME NEW t, NEW p, NEW q, NEW N \in Nat, NEW M \in Nat, NEW f, NEW g, Walks(t, p, N, f), Walks(t, q, M, g),
         N <= M, \A j \in 1 .. N : p[j] = q[j]
  PROVE  f[N] = g[N]
<1> DEFINE X == {k \in Nat : k <= N => f[k] = g[k]}
<1>1. 0 \in X
  <2>1. 0 \in 0 .. N /\ 0 \in 0 .. M  BY SMT
  <2>2. f[0] = Root /\ g[0] = Root  BY <2>1, Zenon DEF Walks
  <2> QED  BY <2>2
<1>2. \A k \in Nat : k \in X => k + 1 \in X
  <2> SUFFICES ASSUME NEW k \in Nat, k \in X, k + 1 <= N PROVE f[k + 1] = g[k + 1]  OBVIOUS
  <2>1. /\ k + 1 \in 0 .. N /\ k + 1 \in 0 .. M /\ k + 1 # 0 /\ (k + 1) - 1 = k /\ k <= N
        /\ k + 1 \in 1 .. N
    BY SMT
  <2>2. f[k + 1] = StepIn(t, f[k], p[k + 1])  BY <2>1, Zenon DEF Walks
  <2>3. g[k + 1] = StepIn(t, g[k], q[k + 1])  BY <2>1, Zenon DEF Walks
  <2>4. f[k] = g[k] /\ p[k + 1] = q[k + 1]  BY <2>1
  <2> QED  BY <2>2, <2>3, <2>4
<1> HIDE DEF X
<1>3. N \in X  BY <1>1, <1>2, NatBySuccessor
<1> QED  BY <1>3 DEF X

\* find begins at the root ...
LEMMA FindEmpty == \A t : FindIn(t, <<>>) = Root
<1> SUFFICES ASSUME NEW t PROVE FindIn(t, <<>>) = Root  OBVIOUS
<1>1. Len(<<>>) = 0  BY SMT
<1>2. PICK f : f = CHOOSE g : Walks(t, <<>>, 0, g)  OBVIOUS
<1>3. Walks(t, <<>>, 0, f)  BY <1>2, WalkExists
<1>4. f[0] = Root
  <2>1. 0 \in 0 .. 0  BY SMT
  <2> QED  BY <1>3, <2>1, Zenon DEF Walks
<1> QED  BY <1>1, <1>2, <1>4 DEF FindIn

\* ... and takes one step for each name.
LEMMA FindAppend ==
  ASSUME NEW t, NEW S, NEW p \in Seq(S), NEW x \in S
  PROVE  FindIn(t, Append(p, x)) = StepIn(t, FindIn(t, p), x)
<1>1. PICK q : q = Append(p, x)  OBVIOUS
<1>2. PICK N \in Nat : N = Len(p)  BY LenProperties
<1>3. Len(q) = N + 1 /\ q[N + 1] = x /\ \A j \in 1 .. N : p[j] = q[j]
  BY <1>1, <1>2, AppendProperties
<1>4. PICK f : f = CHOOSE h : Walks(t, p, N, h)  OBVIOUS
<1>5. PICK g : g = CHOOSE h : Walks(t, q, N + 1, h)  OBVIOUS
<1>6. N + 1 \in Nat /\ N <= N /\ N <= N + 1 /\ N + 1 \in 0 .. N + 1 /\ N + 1 # 0 /\ (N + 1) - 1 = N  BY SMT
<1>7. Walks(t, p, N, f)  BY <1>4, WalkExists
<1>8. Walks(t, q, N + 1, g)  BY <1>5, <1>6, WalkExists
<1>9. f[N] = g[N]
  <2>1. PICK M \in Nat : M = N + 1  BY <1>6
  <2>2. Walks(t, q, M, g) /\ N <= M  BY <1>6, <1>8, <2>1
  <2>3. \A j \in 1 .. N : p[j] = q[j]  BY <1>3
  <2> QED  BY <1>7, <2>2, <2>3, WalksAgree
<1>10. g[N + 1] = StepIn(t, g[N], q[N + 1])  BY <1>6, <1>8, Zenon DEF Walks
<1>11. FindIn(t, p) = f[N] /\ FindIn(t, q) = g[N + 1]  BY <1>2, <1>3, <1>4, <1>5 DEF FindIn
<1> QED  BY <1>1, <1>3, <1>9, <1>10, <1>11

-----------------------------------------------------------------------------
(* Directories that contain each other, with the kinds of the inodes and   *)
(* the directories in use as parameters.                                   *)
Entry == [d_name : Names \cup {None}, inode_id : Inodes, parent_id : Dirs, sub_cnt : 0 .. DIR_INCLUDE_NUM,
          file_name : [Slots -> Names \cup {None}], file_inode : [Slots -> Inodes], sub_dir_ids : [Slots -> Dirs]]
Tables == [Dirs -> Entry]
Places == [ok : BOOLEAN, dir : Dirs, inode : Inodes]

(* What directory d contains: of each slot the name, the inode and the     *)
(* place in the table.                                                     *)
SlotOf(t, d, s) == <<t[d].file_name[s], t[d].file_inode[s], t[d].sub_dir_ids[s]>>
Entries(t, d) == {SlotOf(t, d, s) : s \in 0 .. t[d].sub_cnt - 1}

(* The directories in use, G, form a forest: an entry's name is the only   *)
(* one of its directory, and an entry that is a directory is one in use,   *)
(* which knows its name, its inode and its parent.                         *)
ChildOf(t, G, d, e) ==
  e[3] \in G \ {0} /\ t[e[3]].d_name = e[1] /\ t[e[3]].inode_id = e[2] /\ t[e[3]].parent_id = d
NamesOnce(t, d) ==
  \A r, s \in 0 .. t[d].sub_cnt - 1 : t[d].file_name[r] = t[d].file_name[s] => r = s
Forest(t, kd, G) ==
  /\ 0 \in G /\ G \subseteq Dirs
  /\ \A d \in G :
       /\ NamesOnce(t, d)
       /\ \A e \in Entries(t, d) :
            /\ e[1] \in Names /\ e[2] # 0 /\ kd[e[2]] \in {"dir", "file"}
            /\ kd[e[2]] = "dir" => ChildOf(t, G, d, e)

(* Path p is that of a directory; of something; of directory d.            *)
DirIn(t, kd, p) == FindIn(t, p).ok /\ kd[FindIn(t, p).inode] = "dir"
ExistsIn(t, kd, p) == FindIn(t, p).ok /\ \A n \in 1 .. Len(p) - 1 : DirIn(t, kd, SubSeq(p, 1, n))
Leads(t, kd, p, d) ==
  /\ FindIn(t, p).ok /\ FindIn(t, p).dir = d
  /\ \A n \in 1 .. Len(p) : DirIn(t, kd, SubSeq(p, 1, n))

\* Where the slots of a directory are.
LEMMA SlotsUsed ==
  ASSUME NEW t \in Tables, NEW d \in Dirs
  PROVE  /\ t[d] \in Entry /\ t[d].sub_cnt \in Nat /\ t[d].sub_cnt <= DIR_INCLUDE_NUM
         /\ 0 .. t[d].sub_cnt - 1 \subseteq Slots /\ Slots \subseteq Nat
         /\ \A s \in Slots : /\ t[d].file_name[s] \in Names \cup {None}
                             /\ t[d].file_inode[s] \in Inodes /\ t[d].sub_dir_ids[s] \in Dirs
<1>1. t[d] \in Entry  BY DEF Tables
<1>2. t[d].sub_cnt \in 0 .. DIR_INCLUDE_NUM  BY <1>1, Zenon DEF Entry
<1>3. DIR_INCLUDE_NUM \in Nat  BY SizeAssumption DEF SizeAssumption
<1>4. \A s \in Slots : /\ t[d].file_name[s] \in Names \cup {None}
                       /\ t[d].file_inode[s] \in Inodes /\ t[d].sub_dir_ids[s] \in Dirs
  <2>1. /\ t[d].file_name \in [Slots -> Names \cup {None}] /\ t[d].file_inode \in [Slots -> Inodes]
        /\ t[d].sub_dir_ids \in [Slots -> Dirs]
    BY <1>1, Zenon DEF Entry
  <2> QED  BY <2>1
<1>5. /\ t[d].sub_cnt \in Nat /\ t[d].sub_cnt <= DIR_INCLUDE_NUM
      /\ 0 .. t[d].sub_cnt - 1 \subseteq Slots /\ Slots \subseteq Nat
  BY <1>2, <1>3, SMT DEF Slots
<1> QED  BY <1>1, <1>4, <1>5

\* The root's place in the table and its inode are ids like others.
LEMMA RootIsDir == 0 \in Dirs /\ 0 \in Inodes
<1>1. {Word, DMAP_SIZE, IMAP_SIZE} \subseteq Nat \ {0}  BY SizeAssumption DEF SizeAssumption
<1>2. \A a, b \in Nat \ {0} : 0 <= a * b - 1 /\ a * b - 1 \in Int  BY SMT
<1>3. 0 <= DMAP_SIZE * Word - 1 /\ 0 <= IMAP_SIZE * Word - 1 /\ DMAP_SIZE * Word - 1 \in Int /\ IMAP_SIZE * Word - 1 \in Int
  BY <1>1, <1>2
<1> QED  BY <1>3, SMT DEF Dirs, Inodes

\* Of a name, find takes the slot with that name.
LEMMA StepTyped ==
  ASSUME NEW t \in Tables, NEW w \in Places, NEW x
  PROVE  StepIn(t, w, x) \in Places
<1> DEFINE S == NamedIn(t, w.dir, x)
<1>1. w.dir \in Dirs /\ [w EXCEPT !.ok = FALSE] \in Places  BY DEF Places
<1>2. S \subseteq Slots  BY DEF NamedIn
<1>3. ASSUME S # {}
      PROVE  [ok |-> TRUE, dir |-> t[w.dir].sub_dir_ids[First(S)], inode |-> t[w.dir].file_inode[First(S)]] \in Places
  <2>1. S \subseteq Nat /\ First(S) \in Slots  BY <1>1, <1>2, <1>3, SlotsUsed, FirstIsLeast
  <2>2. t[w.dir].file_inode[First(S)] \in Inodes /\ t[w.dir].sub_dir_ids[First(S)] \in Dirs
    BY <1>1, <2>1, SlotsUsed
  <2> HIDE DEF S
  <2> QED  BY <2>2 DEF Places
<1> QED  BY <1>1, <1>3 DEF StepIn

\* What find returns is a place in the table and an inode.
LEMMA FindTyped ==
  ASSUME NEW t \in Tables, NEW p \in Seq(Names)
  PROVE  FindIn(t, p) \in Places
<1> DEFINE X == {q \in Seq(Names) : FindIn(t, q) \in Places}
<1>1. <<>> \in X
  <2>1. Root \in Places  BY RootIsDir DEF Root, Places
  <2> QED  BY <2>1, FindEmpty
<1>2. \A q \in Seq(Names), x \in Names : q \in X => Append(q, x) \in X
  BY FindAppend, StepTyped, AppendProperties
<1> HIDE DEF X
<1>3. Seq(Names) \subseteq X  BY <1>1, <1>2, SeqByAppend
<1> QED  BY <1>3 DEF X

-----------------------------------------------------------------------------
\* The prefixes of a path that is one name longer.
LEMMA PrefixOfAppend ==
  ASSUME NEW S, NEW p \in Seq(S), NEW x \in S
  PROVE  /\ Len(Append(p, x)) = Len(p) + 1 /\ Len(p) \in Nat
         /\ \A n \in 0 .. Len(p) : SubSeq(Append(p, x), 1, n) = SubSeq(p, 1, n)
         /\ SubSeq(Append(p, x), 1, Len(p) + 1) = Append(p, x)
         /\ SubSeq(p, 1, Len(p)) = p
<1>1. PICK q : q = Append(p, x)  OBVIOUS
<1>2. q \in Seq(S) /\ Len(q) = Len(p) + 1 /\ Len(p) \in Nat /\ \A i \in 1 .. Len(p) : q[i] = p[i]
  BY <1>1, AppendProperties, LenProperties
<1>3. SubSeq(q, 1, Len(q)) = q /\ SubSeq(p, 1, Len(p)) = p  BY <1>2, SubSeqFull
<1>4. ASSUME NEW n \in 0 .. Len(p) PROVE SubSeq(q, 1, n) = SubSeq(p, 1, n)
  <2>1. n \in Int /\ 1 \in Int /\ \A i \in 1 .. n : i \in 1 .. Len(p) /\ i \in 1 .. Len(q)  BY <1>2, SMT
  <2>2. \A i \in 1 .. n : q[i] \in S /\ p[i] \in S /\ q[i] = p[i]  BY <1>2, <2>1, ElementOfSeq
  <2>3. PICK a : a = SubSeq(q, 1, n)  OBVIOUS
  <2>4. PICK b : b = SubSeq(p, 1, n)  OBVIOUS
  <2>5. a \in Seq(S) /\ Len(a) = (IF 1 <= n THEN n - 1 + 1 ELSE 0) /\ \A i \in 1 .. n - 1 + 1 : a[i] = q[1 + i - 1]
    BY <2>1, <2>2, <2>3, SubSeqProperties
  <2>6. b \in Seq(S) /\ Len(b) = (IF 1 <= n THEN n - 1 + 1 ELSE 0) /\ \A i \in 1 .. n - 1 + 1 : b[i] = p[1 + i - 1]
    BY <2>1, <2>2, <2>4, SubSeqProperties
  <2>7. Len(a) = n /\ Len(b) = n  BY <1>2, <2>5, <2>6, SMT
  <2>8. \A i \in 1 .. n : i \in 1 .. n - 1 + 1 /\ 1 + i - 1 = i  BY <2>1, SMT
  <2>9. \A i \in 1 .. n : a[i] = b[i]  BY <2>2, <2>5, <2>6, <2>8
  <2> QED  BY <2>3, <2>4, <2>5, <2>6, <2>7, <2>9, SeqEqual
<1> QED  BY <1>1, <1>2, <1>3, <1>4

\* A directory's path is one name longer than its parent's ...
LEMMA LeadsPrefix ==
  ASSUME NEW t, NEW kd, NEW p \in Seq(Names), NEW x \in Names, NEW d
  PROVE  /\ ExistsIn(t, kd, Append(p, x)) <=>
              FindIn(t, Append(p, x)).ok /\ \A n \in 1 .. Len(p) : DirIn(t, kd, SubSeq(p, 1, n))
         /\ Leads(t, kd, Append(p, x), d) <=>
              /\ \A n \in 1 .. Len(p) : DirIn(t, kd, SubSeq(p, 1, n))
              /\ DirIn(t, kd, Append(p, x)) /\ FindIn(t, Append(p, x)).dir = d
<1>1. PICK q : q = Append(p, x)  OBVIOUS
<1>2. PICK N : N = Len(p)  OBVIOUS
<1>3. /\ Len(q) = N + 1 /\ N \in Nat /\ SubSeq(q, 1, N + 1) = q
      /\ \A n \in 0 .. N : SubSeq(q, 1, n) = SubSeq(p, 1, n)
  BY <1>1, <1>2, PrefixOfAppend
<1>4. 1 .. Len(q) - 1 = 1 .. N /\ 1 .. Len(q) = (1 .. N) \cup {N + 1} /\ 1 .. N \subseteq 0 .. N  BY <1>3, SMT
<1>5. \A n \in 1 .. N : SubSeq(q, 1, n) = SubSeq(p, 1, n)  BY <1>3, <1>4
<1>6. ExistsIn(t, kd, q) <=> FindIn(t, q).ok /\ \A n \in 1 .. N : DirIn(t, kd, SubSeq(p, 1, n))
  BY <1>4, <1>5 DEF ExistsIn
<1>7. Leads(t, kd, q, d) <=>
        FindIn(t, q).ok /\ FindIn(t, q).dir = d /\ (\A n \in 1 .. N : DirIn(t, kd, SubSeq(p, 1, n))) /\ DirIn(t, kd, q)
  BY <1>3, <1>4, <1>5 DEF Leads
<1> QED  BY <1>1, <1>2, <1>6, <1>7 DEF DirIn

\* The empty path is the root's, and no other directory's.
LEMMA LeadsEmpty == \A t, kd, d : Leads(t, kd, <<>>, d) <=> d = 0
<1>1. Len(<<>>) = 0 /\ 1 .. 0 = {}  BY SMT
<1>2. \A t : FindIn(t, <<>>).ok = TRUE /\ FindIn(t, <<>>).dir = 0  BY FindEmpty DEF Root
<1> QED  BY <1>1, <1>2 DEF Leads

\* In a forest, find's step from a directory in use is to the entry with the name.
LEMMA StepToEntry ==
  ASSUME NEW t \in Tables, NEW kd, NEW G, Forest(t, kd, G), NEW w \in Places, w.ok, w.dir \in G, NEW x
  PROVE  /\ StepIn(t, w, x).ok => \E e \in Entries(t, w.dir) : e[1] = x
         /\ \A e \in Entries(t, w.dir) : e[1] = x => StepIn(t, w, x) = [ok |-> TRUE, dir |-> e[3], inode |-> e[2]]
<1> DEFINE d == w.dir
           S == NamedIn(t, d, x)
<1>1. /\ d \in Dirs /\ NamesOnce(t, d) /\ w.ok = TRUE /\ [w EXCEPT !.ok = FALSE].ok = FALSE
      /\ \A e \in Entries(t, d) : e[2] # 0
  BY DEF Forest, Places
<1>2. 0 .. t[d].sub_cnt - 1 \subseteq Slots /\ Slots \subseteq Nat  BY <1>1, SlotsUsed
<1>3. S = {s \in 0 .. t[d].sub_cnt - 1 : t[d].file_name[s] = x} /\ S \subseteq Nat  BY <1>2 DEF NamedIn
<1>4. ASSUME StepIn(t, w, x).ok PROVE S # {}
  BY <1>1, <1>4 DEF StepIn
<1>5. ASSUME S # {} PROVE SlotOf(t, d, First(S)) \in Entries(t, d) /\ SlotOf(t, d, First(S))[1] = x
  <2>1. First(S) \in S  BY <1>3, <1>5, FirstIsLeast
  <2> QED  BY <1>3, <2>1 DEF Entries, SlotOf
<1>6. ASSUME NEW e \in Entries(t, d), e[1] = x
      PROVE  StepIn(t, w, x) = [ok |-> TRUE, dir |-> e[3], inode |-> e[2]]
  <2>1. PICK s \in 0 .. t[d].sub_cnt - 1 : e = SlotOf(t, d, s)  BY DEF Entries
  <2>2. /\ e[1] = t[d].file_name[s] /\ e[2] = t[d].file_inode[s] /\ e[3] = t[d].sub_dir_ids[s]
    BY <2>1 DEF SlotOf
  <2>3. s \in S  BY <1>3, <1>6, <2>1, <2>2
  <2>4. First(S) \in S  BY <1>3, <2>3, FirstIsLeast
  <2>5. First(S) = s  BY <1>1, <1>3, <2>3, <2>4 DEF NamesOnce
  <2>6. t[d].file_inode[First(S)] # 0  BY <1>1, <2>2, <2>5
  <2>7. S # {} /\ ~(~w.ok \/ S = {})  BY <1>1, <2>3
  <2> HIDE DEF S
  <2>8. S = NamedIn(t, w.dir, x)  BY DEF S
  <2> QED  BY <2>2, <2>5, <2>6, <2>7, <2>8 DEF StepIn
<1> QED  BY <1>4, <1>5, <1>6

\* A path that leads somewhere leads to a directory in use.
LEMMA LeadsTaken ==
  ASSUME NEW t \in Tables, NEW kd, NEW G, Forest(t, kd, G)
  PROVE  \A p \in Seq(Names) : \A d : Leads(t, kd, p, d) => d \in G
<1> DEFINE X == {p \in Seq(Names) : \A d : Leads(t, kd, p, d) => d \in G}
<1>1. <<>> \in X  BY LeadsEmpty, EmptySeq DEF Forest
<1>2. ASSUME NEW p \in Seq(Names), NEW x \in Names, p \in X PROVE Append(p, x) \in X
  <2> SUFFICES ASSUME NEW d, Leads(t, kd, Append(p, x), d) PROVE d \in G
    BY AppendProperties
  <2>1. (\A n \in 1 .. Len(p) : DirIn(t, kd, SubSeq(p, 1, n)))
        /\ DirIn(t, kd, Append(p, x)) /\ FindIn(t, Append(p, x)).dir = d  BY LeadsPrefix
  <2>2. PICK w \in Places : w = FindIn(t, p)  BY FindTyped
  <2>3. FindIn(t, Append(p, x)) = StepIn(t, w, x)  BY <2>2, FindAppend
  <2>4. StepIn(t, w, x).ok /\ kd[StepIn(t, w, x).inode] = "dir" /\ StepIn(t, w, x).dir = d
    BY <2>1, <2>3 DEF DirIn
  <2>5. w.ok
    <3>1. w.ok \in BOOLEAN /\ [w EXCEPT !.ok = FALSE].ok = FALSE  BY DEF Places
    <3> QED  BY <2>4, <3>1 DEF StepIn
  <2>6. Leads(t, kd, p, w.dir)  BY <2>1, <2>2, <2>5 DEF Leads
  <2>7. w.dir \in G  BY <1>2, <2>6
  <2>8. PICK e \in Entries(t, w.dir) : e[1] = x  BY <2>4, <2>5, <2>7, StepToEntry
  <2>9. StepIn(t, w, x) = [ok |-> TRUE, dir |-> e[3], inode |-> e[2]]  BY <2>5, <2>7, <2>8, StepToEntry
  <2>10. e[3] = d /\ kd[e[2]] = "dir"  BY <2>4, <2>9
  <2> QED  BY <2>7, <2>10 DEF Forest, ChildOf
<1> HIDE DEF X
<1>3. Seq(Names) \subseteq X  BY <1>1, <1>2, SeqByAppend
<1> QED  BY <1>3 DEF X

\* Something of the name x in the directory of p: its entry is what find returns.
LEMMA ExistsAppend ==
  ASSUME NEW t \in Tables, NEW kd, NEW G, Forest(t, kd, G), NEW p \in Seq(Names), NEW x \in Names
  PROVE  /\ ExistsIn(t, kd, Append(p, x)) => \E c \in G : Leads(t, kd, p, c) /\ \E e \in Entries(t, c) : e[1] = x
         /\ \A c : Leads(t, kd, p, c) => \A e \in Entries(t, c) : e[1] = x =>
              /\ ExistsIn(t, kd, Append(p, x))
              /\ FindIn(t, Append(p, x)) = [ok |-> TRUE, dir |-> e[3], inode |-> e[2]]
<1>1. PICK w \in Places : w = FindIn(t, p)  BY FindTyped
<1>2. FindIn(t, Append(p, x)) = StepIn(t, w, x)  BY <1>1, FindAppend
<1>3. ASSUME ExistsIn(t, kd, Append(p, x))
      PROVE  \E c \in G : Leads(t, kd, p, c) /\ \E e \in Entries(t, c) : e[1] = x
  <2>1. FindIn(t, Append(p, x)).ok /\ \A n \in 1 .. Len(p) : DirIn(t, kd, SubSeq(p, 1, n))
    BY <1>3, LeadsPrefix
  <2>2. w.ok
    <3>1. w.ok \in BOOLEAN /\ [w EXCEPT !.ok = FALSE].ok = FALSE  BY DEF Places
    <3> QED  BY <1>2, <2>1, <3>1 DEF StepIn
  <2>3. Leads(t, kd, p, w.dir)  BY <1>1, <2>1, <2>2 DEF Leads
  <2>4. w.dir \in G  BY <2>3, LeadsTaken
  <2>5. \E e \in Entries(t, w.dir) : e[1] = x  BY <1>2, <2>1, <2>2, <2>4, StepToEntry
  <2> QED  BY <2>3, <2>4, <2>5
<1>4. ASSUME NEW c, Leads(t, kd, p, c), NEW e \in Entries(t, c), e[1] = x
      PROVE  ExistsIn(t, kd, Append(p, x)) /\ FindIn(t, Append(p, x)) = [ok |-> TRUE, dir |-> e[3], inode |-> e[2]]
  <2>1. w.ok /\ w.dir = c /\ c \in G  BY <1>1, <1>4, LeadsTaken DEF Leads
  <2>2. StepIn(t, w, x) = [ok |-> TRUE, dir |-> e[3], inode |-> e[2]]  BY <1>4, <2>1, StepToEntry
  <2>3. \A n \in 1 .. Len(p) : DirIn(t, kd, SubSeq(p, 1, n))  BY <1>4 DEF Leads
  <2>4. FindIn(t, Append(p, x)).ok  BY <1>2, <2>2
  <2>5. ExistsIn(t, kd, Append(p, x))  BY <2>3, <2>4, LeadsPrefix
  <2> QED  BY <1>2, <2>2, <2>5
<1> QED  BY <1>3, <1>4

\* A directory's path is its parent's path and its name.
LEMMA LeadsAppend ==
  ASSUME NEW t \in Tables, NEW kd, NEW G, Forest(t, kd, G), NEW p \in Seq(Names), NEW x \in Names, NEW d
  PROVE  Leads(t, kd, Append(p, x), d) <=>
           \E c \in G : Leads(t, kd, p, c) /\ \E e \in Entries(t, c) : e[1] = x /\ e[3] = d /\ kd[e[2]] = "dir"
<1>1. ASSUME Leads(t, kd, Append(p, x), d)
      PROVE  \E c \in G : Leads(t, kd, p, c) /\ \E e \in Entries(t, c) : e[1] = x /\ e[3] = d /\ kd[e[2]] = "dir"
  <2>1. ExistsIn(t, kd, Append(p, x)) /\ DirIn(t, kd, Append(p, x)) /\ FindIn(t, Append(p, x)).dir = d
    <3>1. (\A n \in 1 .. Len(p) : DirIn(t, kd, SubSeq(p, 1, n)))
          /\ DirIn(t, kd, Append(p, x)) /\ FindIn(t, Append(p, x)).dir = d
      BY <1>1, LeadsPrefix
    <3>2. FindIn(t, Append(p, x)).ok  BY <3>1 DEF DirIn
    <3>3. ExistsIn(t, kd, Append(p, x))  BY <3>1, <3>2, LeadsPrefix
    <3> QED  BY <3>1, <3>3
  <2>2. PICK c \in G : Leads(t, kd, p, c) /\ \E e \in Entries(t, c) : e[1] = x  BY <2>1, ExistsAppend
  <2>3. PICK e \in Entries(t, c) : e[1] = x  BY <2>2
  <2>4. FindIn(t, Append(p, x)) = [ok |-> TRUE, dir |-> e[3], inode |-> e[2]]  BY <2>2, <2>3, ExistsAppend
  <2>5. e[3] = d /\ kd[e[2]] = "dir"  BY <2>1, <2>4 DEF DirIn
  <2> QED  BY <2>2, <2>3, <2>5
<1>2. ASSUME NEW c \in G, Leads(t, kd, p, c), NEW e \in Entries(t, c), e[1] = x, e[3] = d, kd[e[2]] = "dir"
      PROVE  Leads(t, kd, Append(p, x), d)
  <2>1. /\ ExistsIn(t, kd, Append(p, x))
        /\ FindIn(t, Append(p, x)) = [ok |-> TRUE, dir |-> e[3], inode |-> e[2]]  BY <1>2, ExistsAppend
  <2>2. \A n \in 1 .. Len(p) : DirIn(t, kd, SubSeq(p, 1, n))  BY <1>2 DEF Leads
  <2>3. DirIn(t, kd, Append(p, x)) /\ FindIn(t, Append(p, x)).dir = d  BY <1>2, <2>1 DEF DirIn
  <2> QED  BY <2>2, <2>3, LeadsPrefix
<1> QED  BY <1>1, <1>2

\* No directory but the root has the empty path, and a directory has one path only.
LEMMA PathOnce ==
  ASSUME NEW t \in Tables, NEW kd, NEW G, Forest(t, kd, G)
  PROVE  \A p, q \in Seq(Names) : \A d : Leads(t, kd, p, d) /\ Leads(t, kd, q, d) => p = q
<1> DEFINE X == {p \in Seq(Names) : \A q \in Seq(Names) : \A d : Leads(t, kd, p, d) /\ Leads(t, kd, q, d) => p = q}
<1>1. ASSUME NEW p \in Seq(Names), NEW x \in Names, NEW d, Leads(t, kd, Append(p, x), d)
      PROVE  \E c \in G : Leads(t, kd, p, c) /\ d # 0 /\ t[d].parent_id = c /\ t[d].d_name = x
  <2>1. PICK c \in G : Leads(t, kd, p, c) /\ \E e \in Entries(t, c) : e[1] = x /\ e[3] = d /\ kd[e[2]] = "dir"
    BY <1>1, LeadsAppend
  <2>2. PICK e \in Entries(t, c) : e[1] = x /\ e[3] = d /\ kd[e[2]] = "dir"  BY <2>1
  <2>3. ChildOf(t, G, c, e)  BY <2>2 DEF Forest
  <2> QED  BY <2>1, <2>2, <2>3 DEF ChildOf
<1>2. <<>> \in X
  <2> SUFFICES ASSUME NEW q \in Seq(Names), NEW d, Leads(t, kd, <<>>, d), Leads(t, kd, q, d) PROVE q = <<>>
    BY EmptySeq
  <2>1. d = 0  BY LeadsEmpty
  <2> SUFFICES ASSUME q # <<>> PROVE FALSE  OBVIOUS
  <2>2. PICK r \in Seq(Names), y \in Names : q = Append(r, y)  BY SequenceEmptyOrAppend
  <2> QED  BY <1>1, <2>1, <2>2
<1>3. ASSUME NEW p \in Seq(Names), NEW x \in Names, p \in X PROVE Append(p, x) \in X
  <2> SUFFICES ASSUME NEW q \in Seq(Names), NEW d, Leads(t, kd, Append(p, x), d), Leads(t, kd, q, d)
               PROVE  Append(p, x) = q
    BY AppendProperties
  <2>1. PICK c \in G : Leads(t, kd, p, c) /\ d # 0 /\ t[d].parent_id = c /\ t[d].d_name = x  BY <1>1
  <2>2. q # <<>>  BY <2>1, LeadsEmpty
  <2>3. PICK r \in Seq(Names), y \in Names : q = Append(r, y)  BY <2>2, SequenceEmptyOrAppend
  <2>4. PICK b \in G : Leads(t, kd, r, b) /\ d # 0 /\ t[d].parent_id = b /\ t[d].d_name = y  BY <1>1, <2>3
  <2>5. p = r  BY <1>3, <2>1, <2>4
  <2> QED  BY <2>1, <2>3, <2>4, <2>5
<1> HIDE DEF X
<1>4. Seq(Names) \subseteq X  BY <1>2, <1>3, SeqByAppend
<1> QED  BY <1>4 DEF X

-----------------------------------------------------------------------------
(* The names from a directory up: no directory is above itself.            *)
Grounded(t) ==
  \A D \in SUBSET (Dirs \ {0}) : D # {} => \E d \in D : t[d].parent_id \notin D
Climbs(t, f) == f = [d \in Dirs |-> IF d = 0 THEN <<>> ELSE Append(f[t[d].parent_id], t[d].d_name)]
NameIn(t, id) == (CHOOSE f : Climbs(t, f))[id]

\* PathName goes by dir_table and nothing else.
LEMMA PathNameIsNameIn == \A id : PathName(id) = NameIn(dir_table, id)
BY DEF PathName, NameIn, Climbs

\* There are finitely many ids.
LEMMA DirsFinite == IsFiniteSet(Dirs) /\ IsFiniteSet(Inodes) /\ IsFiniteSet(Blocks)
<1>1. {Word, DMAP_SIZE, IMAP_SIZE, BMAP_SIZE} \subseteq Nat  BY SizeAssumption DEF SizeAssumption
<1>2. \A a, b \in Nat : a * b - 1 \in Int  BY SMT
<1>3. DMAP_SIZE * Word - 1 \in Int /\ IMAP_SIZE * Word - 1 \in Int /\ BMAP_SIZE * Word - 1 \in Int
  BY <1>1, <1>2
<1>4. 0 \in Int  BY SMT
<1> QED  BY <1>3, <1>4, FS_Interval DEF Dirs, Inodes, Blocks

\* The recursive function of PathName exists: it is found one directory after
\* the other, each after its parent.
LEMMA ClimbExists ==
  ASSUME NEW t \in Tables, Grounded(t)
  PROVE  \E f : Climbs(t, f)
<1> DEFINE Up(f, d) == IF d = 0 THEN <<>> ELSE Append(f[t[d].parent_id], t[d].d_name)
           Solved(A, f) == /\ A \subseteq Dirs /\ \A d \in A : d = 0 \/ t[d].parent_id \in A
                           /\ \A d \in A : f[d] = Up(f, d)
           X == {n \in Nat : \E A, f : Solved(A, f) /\ Cardinality(Dirs \ A) = n}
<1>1. \A A : A \subseteq Dirs => IsFiniteSet(Dirs \ A) /\ Cardinality(Dirs \ A) \in Nat
  BY DirsFinite, FS_Subset, FS_CardinalityType
<1>2. X # {}
  <2>1. Solved({}, <<>>)  OBVIOUS
  <2> QED  BY <1>1, <2>1
<1>3. PICK n : n = First(X)  OBVIOUS
<1>4. n \in X /\ \A m \in X : n <= m  BY <1>2, <1>3, FirstIsLeast
<1>5. PICK A, f : Solved(A, f) /\ Cardinality(Dirs \ A) = n  BY <1>4
<1>6. ASSUME A # Dirs PROVE FALSE
  <2> DEFINE D == Dirs \ A
  <2>1. D # {} /\ IsFiniteSet(D)  BY <1>1, <1>5, <1>6
  <2>2. PICK d \in D : d = 0 \/ t[d].parent_id \in A
    <3>1. CASE 0 \in D  BY <3>1
    <3>2. CASE 0 \notin D
      <4>1. D \in SUBSET (Dirs \ {0})  BY <3>2
      <4>2. PICK d \in D : t[d].parent_id \notin D  BY <2>1, <4>1 DEF Grounded
      <4>3. t[d].parent_id \in Dirs  BY <4>2 DEF Tables, Entry
      <4> QED  BY <4>2, <4>3
    <3> QED  BY <3>1, <3>2
  <2> DEFINE B == A \cup {d}
             g == [c \in Dirs |-> IF c = d THEN Up(f, d) ELSE f[c]]
  <2>3. B \subseteq Dirs /\ d \notin A /\ \A c \in B : c = 0 \/ t[c].parent_id \in A  BY <1>5, <2>2
  <2>4. ASSUME NEW c \in B PROVE g[c] = Up(g, c)
    <3>1. c \in Dirs /\ (c # 0 => t[c].parent_id \in A)  BY <2>3
    <3>2. c # 0 => g[t[c].parent_id] = f[t[c].parent_id]  BY <1>5, <2>3, <3>1
    <3>3. Up(g, c) = Up(f, c)  BY <3>2
    <3>4. g[c] = IF c = d THEN Up(f, d) ELSE f[c]  BY <3>1
    <3>5. c # d => f[c] = Up(f, c)  BY <1>5
    <3> QED  BY <3>3, <3>4, <3>5
  <2>5. Solved(B, g)  BY <2>3, <2>4
  <2>6. Dirs \ B = D \ {d} /\ Cardinality(D \ {d}) = n - 1
    <3>1. Cardinality(D \ {d}) = Cardinality(D) - 1  BY <2>1, <2>2, FS_RemoveElement
    <3> QED  BY <1>5, <3>1
  <2>7. Cardinality(Dirs \ B) \in X  BY <1>1, <2>3, <2>5
  <2>8. n <= n - 1  BY <1>4, <2>6, <2>7
  <2>9. n \in Nat  BY <1>4
  <2> QED  BY <2>8, <2>9, SMT
<1>7. \A d \in Dirs : f[d] = Up(f, d) /\ (d # 0 => t[d].parent_id \in Dirs)  BY <1>5, <1>6
<1> DEFINE h == [d \in Dirs |-> f[d]]
<1>8. \A d \in Dirs : h[d] = Up(h, d)  BY <1>7
<1>9. Climbs(t, h)  BY <1>8, Zenon DEF Climbs
<1> QED  BY <1>9

\* PathName gives the path that leads to a directory.
LEMMA NameInIsPath ==
  ASSUME NEW t \in Tables, Grounded(t), NEW kd, NEW G, Forest(t, kd, G)
  PROVE  \A p \in Seq(Names) : \A d : Leads(t, kd, p, d) => NameIn(t, d) = p
<1> DEFINE X == {p \in Seq(Names) : \A d : Leads(t, kd, p, d) => NameIn(t, d) = p}
<1>1. PICK f : f = CHOOSE g : Climbs(t, g)  OBVIOUS
<1>2. Climbs(t, f)  BY <1>1, ClimbExists
<1>3. \A d : NameIn(t, d) = f[d]  BY <1>1 DEF NameIn
<1>4. \A d \in Dirs : f[d] = IF d = 0 THEN <<>> ELSE Append(f[t[d].parent_id], t[d].d_name)
  BY <1>2, Zenon DEF Climbs
<1>5. <<>> \in X  BY <1>3, <1>4, LeadsEmpty, RootIsDir, EmptySeq
<1>6. ASSUME NEW p \in Seq(Names), NEW x \in Names, p \in X PROVE Append(p, x) \in X
  <2> SUFFICES ASSUME NEW d, Leads(t, kd, Append(p, x), d) PROVE f[d] = Append(p, x)
    BY <1>3, AppendProperties
  <2>1. PICK c \in G : Leads(t, kd, p, c) /\ \E e \in Entries(t, c) : e[1] = x /\ e[3] = d /\ kd[e[2]] = "dir"
    BY LeadsAppend
  <2>2. PICK e \in Entries(t, c) : e[1] = x /\ e[3] = d /\ kd[e[2]] = "dir"  BY <2>1
  <2>3. ChildOf(t, G, c, e) /\ G \subseteq Dirs  BY <2>2 DEF Forest
  <2>4. d \in Dirs /\ d # 0 /\ t[d].parent_id = c /\ t[d].d_name = x  BY <2>2, <2>3 DEF ChildOf
  <2>5. f[c] = p  BY <1>3, <1>6, <2>1
  <2> QED  BY <1>4, <2>4, <2>5
<1> HIDE DEF X
<1>7. Seq(Names) \subseteq X  BY <1>5, <1>6, SeqByAppend
<1> QED  BY <1>7 DEF X

-----------------------------------------------------------------------------
(* Path p is that of entry e of directory c.                               *)
IsEntry(t, kd, G, p, c, e) ==
  c \in G /\ e \in Entries(t, c) /\ \E r \in Seq(Names) : p = Append(r, e[1]) /\ Leads(t, kd, r, c)

\* There is something at a path just when it is that of an entry, which find returns.
LEMMA EntryFound ==
  ASSUME NEW t \in Tables, NEW kd, NEW G, Forest(t, kd, G), NEW p
  PROVE  /\ p \in Seq(Names) /\ p # <<>> /\ ExistsIn(t, kd, p) => \E c \in G : \E e \in Entries(t, c) : IsEntry(t, kd, G, p, c, e)
         /\ \A c, e : IsEntry(t, kd, G, p, c, e) =>
              /\ p \in Seq(Names) /\ p # <<>> /\ ExistsIn(t, kd, p)
              /\ FindIn(t, p) = [ok |-> TRUE, dir |-> e[3], inode |-> e[2]]
<1>1. ASSUME p \in Seq(Names), p # <<>>, ExistsIn(t, kd, p)
      PROVE  \E c \in G : \E e \in Entries(t, c) : IsEntry(t, kd, G, p, c, e)
  <2>1. PICK r \in Seq(Names), x \in Names : p = Append(r, x)  BY <1>1, SequenceEmptyOrAppend
  <2>2. PICK c \in G : Leads(t, kd, r, c) /\ \E e \in Entries(t, c) : e[1] = x  BY <1>1, <2>1, ExistsAppend
  <2> QED  BY <2>1, <2>2 DEF IsEntry
<1>2. ASSUME NEW c, NEW e, IsEntry(t, kd, G, p, c, e)
      PROVE  /\ p \in Seq(Names) /\ p # <<>> /\ ExistsIn(t, kd, p)
             /\ FindIn(t, p) = [ok |-> TRUE, dir |-> e[3], inode |-> e[2]]
  <2>1. c \in G /\ e \in Entries(t, c)  BY <1>2 DEF IsEntry
  <2>2. PICK r \in Seq(Names) : p = Append(r, e[1]) /\ Leads(t, kd, r, c)  BY <1>2 DEF IsEntry
  <2>3. e[1] \in Names  BY <2>1 DEF Forest
  <2>4. PICK x \in Names : x = e[1]  BY <2>3
  <2>5. /\ ExistsIn(t, kd, Append(r, x))
        /\ FindIn(t, Append(r, x)) = [ok |-> TRUE, dir |-> e[3], inode |-> e[2]]
    <3>1. \A h \in Entries(t, c) : h[1] = x =>
            /\ ExistsIn(t, kd, Append(r, x))
            /\ FindIn(t, Append(r, x)) = [ok |-> TRUE, dir |-> h[3], inode |-> h[2]]
      BY <2>2, ExistsAppend
    <3> QED  BY <2>1, <2>4, <3>1
  <2>6. Append(r, x) \in Seq(Names) /\ Append(r, x) # <<>>  BY AppendProperties
  <2> QED  BY <2>2, <2>4, <2>5, <2>6
<1> QED  BY <1>1, <1>2

\* A directory that is not the root is an entry, and of the kind of a directory.
LEMMA LeadsToEntry ==
  ASSUME NEW t \in Tables, NEW kd, NEW G, Forest(t, kd, G), NEW p \in Seq(Names), p # <<>>, NEW d
  PROVE  Leads(t, kd, p, d) <=>
           \E c \in G : \E e \in Entries(t, c) : IsEntry(t, kd, G, p, c, e) /\ e[3] = d /\ kd[e[2]] = "dir"
<1>1. PICK r \in Seq(Names), x \in Names : p = Append(r, x)  BY SequenceEmptyOrAppend
<1>2. Leads(t, kd, p, d) <=>
        \E c \in G : Leads(t, kd, r, c) /\ \E e \in Entries(t, c) : e[1] = x /\ e[3] = d /\ kd[e[2]] = "dir"
  BY <1>1, LeadsAppend
<1>3. ASSUME NEW c \in G, NEW e \in Entries(t, c)
      PROVE  IsEntry(t, kd, G, p, c, e) <=> e[1] = x /\ Leads(t, kd, r, c)
  <2>1. e[1] \in Names  BY DEF Forest
  <2>2. \A s \in Seq(Names) : Append(r, x) = Append(s, e[1]) <=> r = s /\ x = e[1]  BY <2>1, AppendInjective
  <2> QED  BY <1>1, <2>2 DEF IsEntry
<1> QED  BY <1>2, <1>3

\* A path is that of one entry, and an entry has one path.
LEMMA EntryAlone ==
  ASSUME NEW t \in Tables, NEW kd, NEW G, Forest(t, kd, G), NEW p, NEW q, NEW c, NEW e, NEW b, NEW f,
         IsEntry(t, kd, G, p, c, e), IsEntry(t, kd, G, q, b, f)
  PROVE  p = q <=> c = b /\ e = f
<1>1. c \in G /\ e \in Entries(t, c) /\ b \in G /\ f \in Entries(t, b)  BY DEF IsEntry
<1>2. PICK r \in Seq(Names) : p = Append(r, e[1]) /\ Leads(t, kd, r, c)  BY DEF IsEntry
<1>3. PICK s \in Seq(Names) : q = Append(s, f[1]) /\ Leads(t, kd, s, b)  BY DEF IsEntry
<1>4. e[1] \in Names /\ f[1] \in Names  BY <1>1 DEF Forest
<1>5. p = q <=> r = s /\ e[1] = f[1]  BY <1>2, <1>3, <1>4, AppendInjective
<1>6. r = s => c = b  BY <1>2, <1>3 DEF Leads
<1>7. c = b => r = s  BY <1>2, <1>3, PathOnce
<1>8. ASSUME c = b, e[1] = f[1] PROVE e = f
  <2>1. PICK k \in 0 .. t[c].sub_cnt - 1 : e = SlotOf(t, c, k)  BY <1>1 DEF Entries
  <2>2. PICK l \in 0 .. t[c].sub_cnt - 1 : f = SlotOf(t, c, l)  BY <1>1, <1>8 DEF Entries
  <2>3. t[c].file_name[k] = t[c].file_name[l]  BY <1>8, <2>1, <2>2 DEF SlotOf
  <2>4. NamesOnce(t, c)  BY <1>1 DEF Forest
  <2>5. k = l  BY <2>3, <2>4 DEF NamesOnce
  <2> QED  BY <2>1, <2>2, <2>5
<1> QED  BY <1>5, <1>6, <1>7, <1>8

\* A path is below itself, and what is below its parent.
LEMMA BelowAppend ==
  ASSUME NEW p \in Seq(Names), NEW x \in Names, NEW q \in Seq(Names)
  PROVE  /\ Below(Append(p, x), q) <=> Below(p, q) \/ q = Append(p, x)
         /\ Below(<<>>, q) <=> q = <<>>
         /\ Below(p, p)
<1>1. Len(q) \in Nat /\ SubSeq(q, 1, Len(q)) = q  BY LenProperties, SubSeqFull
<1>2. Below(Append(p, x), q) <=> Below(p, q) \/ q = Append(p, x)
  <2>1. PICK a : a = Append(p, x)  OBVIOUS
  <2>2. /\ Len(a) = Len(p) + 1 /\ Len(p) \in Nat /\ SubSeq(a, 1, Len(p) + 1) = a
        /\ \A n \in 0 .. Len(p) : SubSeq(a, 1, n) = SubSeq(p, 1, n)
    BY <2>1, PrefixOfAppend
  <2>3. PICK L \in Nat, N \in Nat : L = Len(q) /\ N = Len(p)  BY <1>1, <2>2
  <2>4. Len(a) = N + 1  BY <2>2, <2>3
  <2>5. CASE L <= N
    <3>1. L \in 0 .. N /\ L <= N + 1 /\ L # N + 1  BY <2>5, SMT
    <3>2. q # a  BY <2>3, <2>4, <3>1
    <3>3. SubSeq(a, 1, L) = SubSeq(p, 1, L)  BY <2>2, <2>3, <3>1
    <3> QED  BY <2>1, <2>3, <2>4, <2>5, <3>1, <3>2, <3>3 DEF Below
  <2>6. CASE L = N + 1
    <3>1. L <= N + 1 /\ ~(L <= N)  BY <2>6, SMT
    <3> QED  BY <2>1, <2>2, <2>3, <2>4, <2>6, <3>1 DEF Below
  <2>7. CASE ~(L <= N) /\ L # N + 1
    <3>1. ~(L <= N + 1)  BY <2>7, SMT
    <3>2. q # a  BY <2>3, <2>4, <2>7
    <3> QED  BY <2>1, <2>3, <2>4, <2>7, <3>1, <3>2 DEF Below
  <2> QED  BY <2>5, <2>6, <2>7
<1>3. Below(<<>>, q) <=> q = <<>>
  <2>1. Len(<<>>) = 0  BY SMT
  <2>2. q # <<>> => ~(Len(q) <= 0)  BY EmptySeq, SMT
  <2>3. SubSeq(<<>>, 1, 0) = <<>> /\ 0 <= 0  BY EmptySeq, SubSeqFull, <2>1
  <2> QED  BY <2>1, <2>2, <2>3 DEF Below
<1>4. Below(p, p)
  <2>1. Len(p) <= Len(p)  BY LenProperties, SMT
  <2> QED  BY <2>1, SubSeqFull DEF Below
<1> QED  BY <1>2, <1>3, <1>4

-----------------------------------------------------------------------------
(* What is added to the directory c0 at path cp as entry e0 appears below  *)
(* cp, and changes nothing else.                                           *)
Grown(t, kd, G, u, ku, H, cp, c0, e0) ==
  /\ Forest(t, kd, G) /\ Forest(u, ku, H)
  /\ cp \in Seq(Names) /\ Leads(t, kd, cp, c0)
  /\ G \subseteq H /\ \A c \in H \ G : Entries(u, c) = {}
  /\ \A c \in G : Entries(u, c) = IF c = c0 THEN Entries(t, c) \cup {e0} ELSE Entries(t, c)
  /\ \A c \in G : \A e \in Entries(t, c) : ku[e[2]] = kd[e[2]]
  /\ ku[e0[2]] = "dir" => e0[3] \notin G
PathsGrow(t, kd, G, u, ku, H, cp, c0, e0) ==
  /\ \A p \in Seq(Names) : \A d :
       Leads(u, ku, p, d) <=>
         Leads(t, kd, p, d) \/ (ku[e0[2]] = "dir" /\ p = Append(cp, e0[1]) /\ d = e0[3])
  /\ \A p, c, e :
       IsEntry(u, ku, H, p, c, e) <=>
         IsEntry(t, kd, G, p, c, e) \/ (p = Append(cp, e0[1]) /\ c = c0 /\ e = e0)

\* A new entry makes one new path, and a new directory one that leads to it.
LEMMA TreeGrows ==
  ASSUME NEW t \in Tables, NEW kd, NEW G, NEW u \in Tables, NEW ku, NEW H, NEW cp, NEW c0, NEW e0,
         Grown(t, kd, G, u, ku, H, cp, c0, e0)
  PROVE  PathsGrow(t, kd, G, u, ku, H, cp, c0, e0)
<1> DEFINE Same(p) == \A d : Leads(u, ku, p, d) <=>
                        Leads(t, kd, p, d) \/ (ku[e0[2]] = "dir" /\ p = Append(cp, e0[1]) /\ d = e0[3])
           X == {p \in Seq(Names) : Same(p)}
<1>1. /\ Forest(t, kd, G) /\ Forest(u, ku, H) /\ cp \in Seq(Names) /\ Leads(t, kd, cp, c0) /\ c0 \in G
      /\ G \subseteq H /\ e0 \in Entries(u, c0) /\ e0[1] \in Names
  <2>1. c0 \in G  BY LeadsTaken DEF Grown
  <2>2. e0 \in Entries(u, c0) /\ c0 \in H  BY <2>1 DEF Grown
  <2>3. e0[1] \in Names  BY <2>2 DEF Grown, Forest
  <2> QED  BY <2>1, <2>2, <2>3 DEF Grown
<1>2. ASSUME NEW r \in Seq(Names), Same(r), NEW c \in H, Leads(u, ku, r, c), NEW e \in Entries(u, c)
      PROVE  c \in G /\ Leads(t, kd, r, c) /\ (e \in Entries(t, c) \/ (c = c0 /\ e = e0 /\ r = cp))
  <2>1. c \in G  BY <1>2 DEF Grown
  <2>2. Leads(t, kd, r, c)  BY <1>2, <2>1 DEF Grown
  <2>3. c = c0 => r = cp  BY <1>1, <2>2, PathOnce
  <2> QED  BY <1>2, <2>1, <2>2, <2>3 DEF Grown
<1>3. ASSUME NEW r \in Seq(Names), Same(r), NEW c \in G, Leads(t, kd, r, c), NEW e \in Entries(t, c)
      PROVE  c \in H /\ Leads(u, ku, r, c) /\ e \in Entries(u, c) /\ ku[e[2]] = kd[e[2]]
  BY <1>3 DEF Grown
<1>4. ASSUME Same(cp) PROVE Leads(u, ku, cp, c0) /\ c0 \in H /\ e0 \in Entries(u, c0)
  BY <1>1, <1>4
<1>5. <<>> \in X
  <2>1. Append(cp, e0[1]) # <<>>  BY <1>1, AppendProperties
  <2> QED  BY <2>1, LeadsEmpty, EmptySeq
<1>6. ASSUME NEW r \in Seq(Names), NEW x \in Names, r \in X PROVE Append(r, x) \in X
  <2>1. \A d : Leads(u, ku, Append(r, x), d) <=>
          \E c \in H : Leads(u, ku, r, c) /\ \E e \in Entries(u, c) : e[1] = x /\ e[3] = d /\ ku[e[2]] = "dir"
    BY <1>1, LeadsAppend
  <2>2. \A d : Leads(t, kd, Append(r, x), d) <=>
          \E c \in G : Leads(t, kd, r, c) /\ \E e \in Entries(t, c) : e[1] = x /\ e[3] = d /\ kd[e[2]] = "dir"
    BY <1>1, LeadsAppend
  <2>3. Append(r, x) = Append(cp, e0[1]) <=> r = cp /\ x = e0[1]  BY <1>1, AppendInjective
  <2>4. Same(r)  BY <1>6
  <2>5. ASSUME NEW d, Leads(u, ku, Append(r, x), d)
        PROVE  Leads(t, kd, Append(r, x), d) \/ (ku[e0[2]] = "dir" /\ Append(r, x) = Append(cp, e0[1]) /\ d = e0[3])
    <3>1. PICK c \in H : Leads(u, ku, r, c) /\ \E e \in Entries(u, c) : e[1] = x /\ e[3] = d /\ ku[e[2]] = "dir"
      BY <2>1, <2>5
    <3>2. PICK e \in Entries(u, c) : e[1] = x /\ e[3] = d /\ ku[e[2]] = "dir"  BY <3>1
    <3>3. c \in G /\ Leads(t, kd, r, c) /\ (e \in Entries(t, c) \/ (c = c0 /\ e = e0 /\ r = cp))
      BY <1>2, <2>4, <3>1, <3>2
    <3>4. CASE e \in Entries(t, c)
      <4>1. kd[e[2]] = "dir"  BY <1>3, <2>4, <3>2, <3>3, <3>4
      <4> QED  BY <2>2, <3>2, <3>3, <3>4, <4>1
    <3>5. CASE c = c0 /\ e = e0 /\ r = cp  BY <2>3, <3>2, <3>5
    <3> QED  BY <3>3, <3>4, <3>5
  <2>6. ASSUME NEW d, Leads(t, kd, Append(r, x), d) PROVE Leads(u, ku, Append(r, x), d)
    <3>1. PICK c \in G : Leads(t, kd, r, c) /\ \E e \in Entries(t, c) : e[1] = x /\ e[3] = d /\ kd[e[2]] = "dir"
      BY <2>2, <2>6
    <3>2. PICK e \in Entries(t, c) : e[1] = x /\ e[3] = d /\ kd[e[2]] = "dir"  BY <3>1
    <3>3. c \in H /\ Leads(u, ku, r, c) /\ e \in Entries(u, c) /\ ku[e[2]] = kd[e[2]]
      BY <1>3, <2>4, <3>1, <3>2
    <3> QED  BY <2>1, <3>2, <3>3
  <2>7. ASSUME NEW d, ku[e0[2]] = "dir", Append(r, x) = Append(cp, e0[1]), d = e0[3]
        PROVE  Leads(u, ku, Append(r, x), d)
    <3>1. r = cp /\ x = e0[1]  BY <2>3, <2>7
    <3>2. Leads(u, ku, r, c0) /\ c0 \in H /\ e0 \in Entries(u, c0)  BY <1>4, <2>4, <3>1
    <3> QED  BY <2>1, <2>7, <3>1, <3>2
  <2>8. Same(Append(r, x))  BY <2>5, <2>6, <2>7
  <2> QED  BY <2>8, AppendProperties
<1> HIDE DEF X
<1>7. Seq(Names) \subseteq X  BY <1>5, <1>6, SeqByAppend
<1>8. \A p \in Seq(Names) : Same(p)  BY <1>7 DEF X
<1> HIDE DEF Same
<1>9. ASSUME NEW p, NEW c, NEW e, IsEntry(u, ku, H, p, c, e)
      PROVE  IsEntry(t, kd, G, p, c, e) \/ (p = Append(cp, e0[1]) /\ c = c0 /\ e = e0)
  <2>1. PICK r \in Seq(Names) : p = Append(r, e[1]) /\ Leads(u, ku, r, c)  BY <1>9 DEF IsEntry
  <2>2. c \in H /\ e \in Entries(u, c)  BY <1>9 DEF IsEntry
  <2>3. c \in G /\ Leads(t, kd, r, c) /\ (e \in Entries(t, c) \/ (c = c0 /\ e = e0 /\ r = cp))
    BY <1>2, <1>8, <2>1, <2>2
  <2> QED  BY <2>1, <2>3 DEF IsEntry
<1>10. ASSUME NEW p, NEW c, NEW e, IsEntry(t, kd, G, p, c, e) PROVE IsEntry(u, ku, H, p, c, e)
  <2>1. PICK r \in Seq(Names) : p = Append(r, e[1]) /\ Leads(t, kd, r, c)  BY <1>10 DEF IsEntry
  <2>2. c \in G /\ e \in Entries(t, c)  BY <1>10 DEF IsEntry
  <2> QED  BY <1>3, <1>8, <2>1, <2>2 DEF IsEntry
<1>11. IsEntry(u, ku, H, Append(cp, e0[1]), c0, e0)  BY <1>1, <1>4, <1>8 DEF IsEntry
<1> QED  BY <1>8, <1>9, <1>10, <1>11 DEF Same, PathsGrow

(* When entry e0 of directory c0, with path q, is removed, and is no       *)
(* longer in use if it was a directory, then what was below q vanishes,    *)
(* and nothing else.                                                       *)
Pruned(t, kd, G, u, ku, H, q, c0, e0) ==
  /\ Forest(t, kd, G) /\ Forest(u, ku, H)
  /\ IsEntry(t, kd, G, q, c0, e0)
  /\ H = IF kd[e0[2]] = "dir" THEN G \ {e0[3]} ELSE G
  /\ \A c \in H : Entries(u, c) = IF c = c0 THEN Entries(t, c) \ {e0} ELSE Entries(t, c)
  /\ \A c \in H : \A e \in Entries(u, c) : ku[e[2]] = kd[e[2]]
PathsShrink(t, kd, G, u, ku, H, q) ==
  /\ \A p \in Seq(Names) : \A d : Leads(u, ku, p, d) <=> Leads(t, kd, p, d) /\ ~Below(p, q)
  /\ \A p, c, e : IsEntry(u, ku, H, p, c, e) <=> IsEntry(t, kd, G, p, c, e) /\ ~Below(p, q)

\* An entry that is removed takes its path away, and those below it.
LEMMA TreeShrinks ==
  ASSUME NEW t \in Tables, NEW kd, NEW G, NEW u \in Tables, NEW ku, NEW H, NEW q, NEW c0, NEW e0,
         Pruned(t, kd, G, u, ku, H, q, c0, e0)
  PROVE  PathsShrink(t, kd, G, u, ku, H, q)
<1> DEFINE Same(p) == \A d : Leads(u, ku, p, d) <=> Leads(t, kd, p, d) /\ ~Below(p, q)
           X == {p \in Seq(Names) : Same(p)}
<1>1. /\ Forest(t, kd, G) /\ Forest(u, ku, H) /\ H \subseteq G /\ IsEntry(t, kd, G, q, c0, e0)
      /\ q \in Seq(Names) /\ q # <<>>
  <2>1. Forest(t, kd, G) /\ Forest(u, ku, H) /\ H \subseteq G /\ IsEntry(t, kd, G, q, c0, e0)  BY DEF Pruned
  <2> QED  BY <2>1, EntryFound
<1>2. ASSUME NEW r \in Seq(Names), Same(r), NEW x \in Names, NEW c, NEW e
      PROVE  IsEntry(u, ku, H, Append(r, x), c, e) <=> IsEntry(t, kd, G, Append(r, x), c, e) /\ ~Below(Append(r, x), q)
  <2>1. Below(Append(r, x), q) <=> Below(r, q) \/ q = Append(r, x)  BY <1>1, BelowAppend
  <2>2. ASSUME NEW y \in Names, NEW s \in Seq(Names) PROVE Append(r, x) = Append(s, y) <=> r = s /\ x = y
    BY AppendInjective
  <2>3. ASSUME IsEntry(u, ku, H, Append(r, x), c, e)
        PROVE  IsEntry(t, kd, G, Append(r, x), c, e) /\ ~Below(Append(r, x), q)
    <3>1. c \in H /\ e \in Entries(u, c)  BY <2>3 DEF IsEntry
    <3>2. e[1] \in Names  BY <1>1, <3>1 DEF Forest
    <3>3. PICK s \in Seq(Names) : Append(r, x) = Append(s, e[1]) /\ Leads(u, ku, s, c)  BY <2>3 DEF IsEntry
    <3>4. r = s /\ x = e[1]  BY <2>2, <3>2, <3>3
    <3>5. Leads(t, kd, r, c) /\ ~Below(r, q)  BY <1>2, <3>3, <3>4
    <3>6. c \in G /\ e \in Entries(t, c) /\ (c = c0 => e # e0)  BY <1>1, <3>1 DEF Pruned
    <3>7. IsEntry(t, kd, G, Append(r, x), c, e)  BY <3>3, <3>4, <3>5, <3>6 DEF IsEntry
    <3>8. PICK p : p = Append(r, x)  OBVIOUS
    <3>9. IsEntry(t, kd, G, p, c, e)  BY <3>7, <3>8
    <3>10. p = q <=> c = c0 /\ e = e0  BY <1>1, <3>9, EntryAlone
    <3>11. q # Append(r, x)  BY <3>6, <3>8, <3>10
    <3> QED  BY <2>1, <3>5, <3>7, <3>11
  <2>4. ASSUME IsEntry(t, kd, G, Append(r, x), c, e), ~Below(Append(r, x), q)
        PROVE  IsEntry(u, ku, H, Append(r, x), c, e)
    <3>1. c \in G /\ e \in Entries(t, c)  BY <2>4 DEF IsEntry
    <3>2. e[1] \in Names  BY <1>1, <3>1 DEF Forest
    <3>3. PICK s \in Seq(Names) : Append(r, x) = Append(s, e[1]) /\ Leads(t, kd, s, c)  BY <2>4 DEF IsEntry
    <3>4. r = s /\ x = e[1]  BY <2>2, <3>2, <3>3
    <3>5. Leads(u, ku, r, c)  BY <1>2, <2>1, <2>4, <3>3, <3>4
    <3>6. c \in H  BY <1>1, <3>5, LeadsTaken
    <3>7. ~(c = c0 /\ e = e0)
      <4> SUFFICES ASSUME c = c0, e = e0 PROVE FALSE  OBVIOUS
      <4>1. PICK p : p = Append(r, x)  OBVIOUS
      <4>2. IsEntry(t, kd, G, p, c0, e0)  BY <2>4, <4>1
      <4>3. p = q <=> c0 = c0 /\ e0 = e0  BY <1>1, <4>2, EntryAlone
      <4> QED  BY <2>1, <2>4, <4>1, <4>3
    <3>8. e \in Entries(u, c)  BY <3>1, <3>6, <3>7 DEF Pruned
    <3> QED  BY <3>3, <3>4, <3>5, <3>6, <3>8 DEF IsEntry
  <2> QED  BY <2>3, <2>4
<1>3. <<>> \in X
  <2>1. ~Below(<<>>, q)
    <3>1. Len(q) \in Nat /\ Len(q) # 0 /\ Len(<<>>) = 0  BY <1>1, EmptySeq
    <3>2. ~(Len(q) <= Len(<<>>))  BY <3>1, SMT
    <3> QED  BY <3>2 DEF Below
  <2> QED  BY <2>1, LeadsEmpty, EmptySeq
<1>4. ASSUME NEW r \in Seq(Names), NEW x \in Names, r \in X PROVE Append(r, x) \in X
  <2> DEFINE p == Append(r, x)
  <2>1. p \in Seq(Names) /\ p # <<>>  BY AppendProperties
  <2>2. \A c, e : IsEntry(u, ku, H, p, c, e) <=> IsEntry(t, kd, G, p, c, e) /\ ~Below(p, q)  BY <1>2, <1>4
  <2> HIDE DEF p
  <2>3. ASSUME NEW d, Leads(u, ku, p, d) PROVE Leads(t, kd, p, d) /\ ~Below(p, q)
    <3>1. PICK c \in H : \E e \in Entries(u, c) : IsEntry(u, ku, H, p, c, e) /\ e[3] = d /\ ku[e[2]] = "dir"
      BY <1>1, <2>1, <2>3, LeadsToEntry
    <3>2. PICK e \in Entries(u, c) : IsEntry(u, ku, H, p, c, e) /\ e[3] = d /\ ku[e[2]] = "dir"  BY <3>1
    <3>3. IsEntry(t, kd, G, p, c, e) /\ ~Below(p, q) /\ c \in G /\ e \in Entries(t, c)  BY <2>2, <3>2 DEF IsEntry
    <3>4. kd[e[2]] = "dir"  BY <3>2 DEF Pruned
    <3> QED  BY <1>1, <2>1, <3>2, <3>3, <3>4, LeadsToEntry
  <2>4. ASSUME NEW d, Leads(t, kd, p, d), ~Below(p, q) PROVE Leads(u, ku, p, d)
    <3>1. PICK c \in G : \E e \in Entries(t, c) : IsEntry(t, kd, G, p, c, e) /\ e[3] = d /\ kd[e[2]] = "dir"
      BY <1>1, <2>1, <2>4, LeadsToEntry
    <3>2. PICK e \in Entries(t, c) : IsEntry(t, kd, G, p, c, e) /\ e[3] = d /\ kd[e[2]] = "dir"  BY <3>1
    <3>3. IsEntry(u, ku, H, p, c, e) /\ c \in H /\ e \in Entries(u, c)  BY <2>2, <2>4, <3>2 DEF IsEntry
    <3>4. ku[e[2]] = "dir"  BY <3>2, <3>3 DEF Pruned
    <3> QED  BY <1>1, <2>1, <3>2, <3>3, <3>4, LeadsToEntry
  <2> QED  BY <2>1, <2>3, <2>4 DEF p
<1> HIDE DEF X
<1>5. Seq(Names) \subseteq X  BY <1>3, <1>4, SeqByAppend
<1>6. \A p \in Seq(Names) : Same(p)  BY <1>5 DEF X
<1>7. \A p, c, e : IsEntry(u, ku, H, p, c, e) <=> IsEntry(t, kd, G, p, c, e) /\ ~Below(p, q)
  <2>1. ASSUME NEW p, NEW c, NEW e, IsEntry(u, ku, H, p, c, e) \/ IsEntry(t, kd, G, p, c, e)
        PROVE  \E r \in Seq(Names) : \E x \in Names : p = Append(r, x)
    <3>1. \E r \in Seq(Names) : p = Append(r, e[1])  BY <2>1 DEF IsEntry
    <3>2. e[1] \in Names
      <4>1. CASE IsEntry(u, ku, H, p, c, e)  BY <1>1, <4>1 DEF IsEntry, Forest
      <4>2. CASE IsEntry(t, kd, G, p, c, e)  BY <1>1, <4>2 DEF IsEntry, Forest
      <4> QED  BY <2>1, <4>1, <4>2
    <3> QED  BY <3>1, <3>2
  <2>2. ASSUME NEW r \in Seq(Names), NEW x \in Names, NEW c, NEW e
        PROVE  IsEntry(u, ku, H, Append(r, x), c, e) <=> IsEntry(t, kd, G, Append(r, x), c, e) /\ ~Below(Append(r, x), q)
    BY <1>2, <1>6
  <2>3. ASSUME NEW p, NEW c, NEW e
        PROVE  IsEntry(u, ku, H, p, c, e) <=> IsEntry(t, kd, G, p, c, e) /\ ~Below(p, q)
    <3>1. CASE \E r \in Seq(Names) : \E x \in Names : p = Append(r, x)  BY <2>2, <3>1
    <3>2. CASE ~(IsEntry(u, ku, H, p, c, e) \/ IsEntry(t, kd, G, p, c, e))  BY <3>2
    <3> QED  BY <2>1, <3>1, <3>2
  <2> QED  BY <2>3
<1> QED  BY <1>6, <1>7 DEF PathsShrink

-----------------------------------------------------------------------------
(* Slots, bitmaps and direct addresses.                                    *)

\* First of a single slot is that slot.
LEMMA FirstOfOne == \A s : First({s}) = s
BY DEF First

\* A slot that is added to a directory adds one entry; with a new name, names stay
\* different.
LEMMA EntryAdded ==
  ASSUME NEW t \in Tables, NEW c \in Dirs, t[c].sub_cnt < DIR_INCLUDE_NUM,
         NEW x \in Names, NEW i \in Inodes, NEW b \in Dirs, NEW n, n = Added(t[c], x, i, b)
  PROVE  /\ n \in Entry /\ n.d_name = t[c].d_name /\ n.inode_id = t[c].inode_id /\ n.parent_id = t[c].parent_id
         /\ \A u : u[c] = n => Entries(u, c) = Entries(t, c) \cup {<<x, i, b>>}
         /\ \A u : u[c] = n /\ NamesOnce(t, c) /\ (\A e \in Entries(t, c) : e[1] # x) => NamesOnce(u, c)
<1> DEFINE d == t[c]
           k == t[c].sub_cnt
<1>1. /\ d \in Entry /\ k \in Nat /\ k < DIR_INCLUDE_NUM /\ 0 .. k - 1 \subseteq Slots
      /\ d.file_name \in [Slots -> Names \cup {None}] /\ d.file_inode \in [Slots -> Inodes]
      /\ d.sub_dir_ids \in [Slots -> Dirs]
  <2>1. d \in Entry /\ k \in Nat /\ 0 .. k - 1 \subseteq Slots  BY SlotsUsed
  <2> QED  BY <2>1, Zenon DEF Entry
<1>2. /\ k \in Slots /\ k + 1 \in 0 .. DIR_INCLUDE_NUM /\ 0 .. (k + 1) - 1 = (0 .. k - 1) \cup {k} /\ k \notin 0 .. k - 1
  <2>1. DIR_INCLUDE_NUM \in Nat  BY SizeAssumption DEF SizeAssumption
  <2> QED  BY <1>1, <2>1, SMT DEF Slots
<1>3. n = [d EXCEPT !.sub_cnt = k + 1, !.file_name = [@ EXCEPT ![k] = x], !.file_inode = [@ EXCEPT ![k] = i],
                    !.sub_dir_ids = [@ EXCEPT ![k] = b]]
  BY DEF Added
<1>4. /\ n.d_name = d.d_name /\ n.inode_id = d.inode_id /\ n.parent_id = d.parent_id /\ n.sub_cnt = k + 1
      /\ n.file_name = [d.file_name EXCEPT ![k] = x] /\ n.file_inode = [d.file_inode EXCEPT ![k] = i]
      /\ n.sub_dir_ids = [d.sub_dir_ids EXCEPT ![k] = b]
  BY <1>1, <1>3 DEF Entry
<1>5. n \in Entry
  <2>1. [d.file_name EXCEPT ![k] = x] \in [Slots -> Names \cup {None}]  BY <1>1, <1>2
  <2>2. [d.file_inode EXCEPT ![k] = i] \in [Slots -> Inodes] /\ [d.sub_dir_ids EXCEPT ![k] = b] \in [Slots -> Dirs]
    BY <1>1, <1>2
  <2> QED  BY <1>1, <1>2, <1>3, <2>1, <2>2 DEF Entry
<1>6. /\ \A s \in 0 .. k - 1 : n.file_name[s] = d.file_name[s] /\ n.file_inode[s] = d.file_inode[s]
                               /\ n.sub_dir_ids[s] = d.sub_dir_ids[s]
      /\ n.file_name[k] = x /\ n.file_inode[k] = i /\ n.sub_dir_ids[k] = b
  BY <1>1, <1>2, <1>4, Zenon
<1>7. ASSUME NEW u, u[c] = n PROVE Entries(u, c) = Entries(t, c) \cup {<<x, i, b>>}
  <2>1. \A s \in 0 .. k - 1 : SlotOf(u, c, s) = SlotOf(t, c, s)  BY <1>6, <1>7 DEF SlotOf
  <2>2. SlotOf(u, c, k) = <<x, i, b>>  BY <1>6, <1>7 DEF SlotOf
  <2>3. Entries(u, c) = {SlotOf(u, c, s) : s \in (0 .. k - 1) \cup {k}}  BY <1>2, <1>4, <1>7 DEF Entries
  <2> QED  BY <2>1, <2>2, <2>3 DEF Entries
<1>8. ASSUME NEW u, u[c] = n, NamesOnce(t, c), \A e \in Entries(t, c) : e[1] # x PROVE NamesOnce(u, c)
  <2>1. \A s \in 0 .. k - 1 : u[c].file_name[s] = t[c].file_name[s] /\ t[c].file_name[s] # x
    <3> SUFFICES ASSUME NEW s \in 0 .. k - 1 PROVE u[c].file_name[s] = t[c].file_name[s] /\ t[c].file_name[s] # x
      OBVIOUS
    <3>1. SlotOf(t, c, s) \in Entries(t, c)  BY DEF Entries
    <3> QED  BY <1>6, <1>8, <3>1 DEF SlotOf
  <2>2. u[c].file_name[k] = x /\ 0 .. u[c].sub_cnt - 1 = (0 .. k - 1) \cup {k}  BY <1>2, <1>4, <1>6, <1>8
  <2>3. \A r, s \in 0 .. k - 1 : t[c].file_name[r] = t[c].file_name[s] => r = s  BY <1>8 DEF NamesOnce
  <2> QED  BY <2>1, <2>2, <2>3 DEF NamesOnce
<1> QED  BY <1>4, <1>5, <1>7, <1>8

(* n is directory c of table t without slot s.                             *)
SlotAway(t, c, s, n) ==
  /\ n \in Entry /\ n.d_name = t[c].d_name /\ n.inode_id = t[c].inode_id /\ n.parent_id = t[c].parent_id
  /\ \A u : u[c] = n => Entries(u, c) = Entries(t, c) \ {SlotOf(t, c, s)} /\ NamesOnce(u, c)

\* A slot that is removed from a directory takes its entry away and leaves the others,
\* which have moved up.
LEMMA EntryShrunk ==
  ASSUME NEW t \in Tables, NEW c \in Dirs, NEW s \in 0 .. t[c].sub_cnt - 1, NamesOnce(t, c)
  PROVE  SlotAway(t, c, s, Shrunk(t[c], {s}))
<1> DEFINE n == Shrunk(t[c], {s})
<1> DEFINE d == t[c]
           k == t[c].sub_cnt
           To(r) == IF r >= s THEN r + 1 ELSE r
<1>1. /\ d \in Entry /\ k \in Nat /\ k <= DIR_INCLUDE_NUM /\ 0 .. k - 1 \subseteq Slots /\ Slots \subseteq Nat
      /\ d.file_name \in [Slots -> Names \cup {None}] /\ d.file_inode \in [Slots -> Inodes]
      /\ d.sub_dir_ids \in [Slots -> Dirs]
  <2>1. d \in Entry /\ k \in Nat /\ k <= DIR_INCLUDE_NUM /\ 0 .. k - 1 \subseteq Slots /\ Slots \subseteq Nat
    BY SlotsUsed
  <2> QED  BY <2>1, Zenon DEF Entry
<1>2. /\ s \in Nat /\ k - 1 \in Nat /\ k - 1 \in 0 .. DIR_INCLUDE_NUM
      /\ \A r \in Slots : r >= s /\ r + 1 < k => r + 1 \in Slots
      /\ \A r \in 0 .. (k - 1) - 1 : To(r) \in 0 .. k - 1 /\ To(r) # s /\ r \in Slots
      /\ \A r, q \in 0 .. (k - 1) - 1 : To(r) = To(q) => r = q
      /\ \A r \in 0 .. k - 1 : r # s => \E q \in 0 .. (k - 1) - 1 : r = To(q)
  <2>1. DIR_INCLUDE_NUM \in Nat  BY SizeAssumption DEF SizeAssumption
  <2>2. s \in Nat /\ k - 1 \in Nat /\ k - 1 \in 0 .. DIR_INCLUDE_NUM  BY <1>1, <2>1, SMT
  <2>3. \A r \in Slots : r >= s /\ r + 1 < k => r + 1 \in Slots  BY <1>1, <2>1, <2>2, SMT DEF Slots
  <2>4. \A r \in 0 .. (k - 1) - 1 : To(r) \in 0 .. k - 1 /\ To(r) # s /\ r \in Slots
    BY <1>1, <2>1, <2>2, SMT DEF Slots
  <2>5. \A r, q \in 0 .. (k - 1) - 1 : To(r) = To(q) => r = q  BY <1>1, <2>2, SMT
  <2>6. ASSUME NEW r \in 0 .. k - 1, r # s PROVE \E q \in 0 .. (k - 1) - 1 : r = To(q)
    <3>1. CASE r < s
      <4>1. r \in 0 .. (k - 1) - 1 /\ r = To(r)  BY <1>1, <2>2, <3>1, SMT
      <4> QED  BY <4>1
    <3>2. CASE ~(r < s)
      <4>1. r - 1 \in 0 .. (k - 1) - 1 /\ r = To(r - 1)  BY <1>1, <2>2, <2>6, <3>2, SMT
      <4> QED  BY <4>1
    <3> QED  BY <3>1, <3>2
  <2> QED  BY <2>2, <2>3, <2>4, <2>5, <2>6
<1>3. n = [d EXCEPT !.sub_cnt = k - 1, !.file_name = Moved(@, s, k), !.file_inode = Moved(@, s, k),
                    !.sub_dir_ids = Moved(@, s, k)]
  <2>1. {s} # {} /\ First({s}) = s  BY FirstOfOne
  <2> QED  BY <2>1 DEF Shrunk
<1>4. /\ n.d_name = d.d_name /\ n.inode_id = d.inode_id /\ n.parent_id = d.parent_id /\ n.sub_cnt = k - 1
      /\ n.file_name = Moved(d.file_name, s, k) /\ n.file_inode = Moved(d.file_inode, s, k)
      /\ n.sub_dir_ids = Moved(d.sub_dir_ids, s, k)
  BY <1>1, <1>3 DEF Entry
<1>5. ASSUME NEW T, NEW f \in [Slots -> T]
      PROVE  /\ Moved(f, s, k) \in [Slots -> T]
             /\ \A r \in 0 .. (k - 1) - 1 : Moved(f, s, k)[r] = f[To(r)]
  <2>1. Moved(f, s, k) \in [Slots -> T]  BY <1>2, Zenon DEF Moved
  <2>2. ASSUME NEW r \in 0 .. (k - 1) - 1 PROVE Moved(f, s, k)[r] = f[To(r)]
    <3>1. r \in Slots /\ (r + 1 < k)  BY <1>1, <1>2, SMT
    <3> QED  BY <3>1, Zenon DEF Moved
  <2> QED  BY <2>1, <2>2
<1>6. n \in Entry
  <2>1. /\ Moved(d.file_name, s, k) \in [Slots -> Names \cup {None}] /\ Moved(d.file_inode, s, k) \in [Slots -> Inodes]
        /\ Moved(d.sub_dir_ids, s, k) \in [Slots -> Dirs]
    BY <1>1, <1>5
  <2> QED  BY <1>1, <1>2, <1>3, <2>1 DEF Entry
<1> HIDE DEF To
<1>7. \A r \in 0 .. (k - 1) - 1 : /\ n.file_name[r] = d.file_name[To(r)] /\ n.file_inode[r] = d.file_inode[To(r)]
                                  /\ n.sub_dir_ids[r] = d.sub_dir_ids[To(r)]
  <2>1. \A r \in 0 .. (k - 1) - 1 : Moved(d.file_name, s, k)[r] = d.file_name[To(r)]  BY <1>1, <1>5
  <2>2. \A r \in 0 .. (k - 1) - 1 : Moved(d.file_inode, s, k)[r] = d.file_inode[To(r)]  BY <1>1, <1>5
  <2>3. \A r \in 0 .. (k - 1) - 1 : Moved(d.sub_dir_ids, s, k)[r] = d.sub_dir_ids[To(r)]  BY <1>1, <1>5
  <2> QED  BY <1>4, <2>1, <2>2, <2>3
<1>8. ASSUME NEW u, u[c] = n PROVE Entries(u, c) = Entries(t, c) \ {SlotOf(t, c, s)} /\ NamesOnce(u, c)
  <2>1. \A r \in 0 .. (k - 1) - 1 : SlotOf(u, c, r) = SlotOf(t, c, To(r))  BY <1>7, <1>8 DEF SlotOf
  <2>2. Entries(u, c) = {SlotOf(u, c, r) : r \in 0 .. (k - 1) - 1} /\ Entries(t, c) = {SlotOf(t, c, r) : r \in 0 .. k - 1}
    BY <1>4, <1>8 DEF Entries
  <2>3. \A r \in 0 .. k - 1 : SlotOf(t, c, r) = SlotOf(t, c, s) => r = s  BY DEF SlotOf, NamesOnce
  <2>4. \A r \in 0 .. (k - 1) - 1 : SlotOf(u, c, r) \in Entries(t, c) \ {SlotOf(t, c, s)}
    BY <1>2, <2>1, <2>2, <2>3
  <2>5. ASSUME NEW e \in Entries(t, c), e # SlotOf(t, c, s) PROVE e \in Entries(u, c)
    <3>1. PICK r \in 0 .. k - 1 : e = SlotOf(t, c, r)  BY <2>2
    <3>2. PICK q \in 0 .. (k - 1) - 1 : r = To(q)  BY <1>2, <2>5, <3>1
    <3> QED  BY <2>1, <2>2, <3>1, <3>2
  <2>6. ASSUME NEW r \in 0 .. (k - 1) - 1, NEW q \in 0 .. (k - 1) - 1, n.file_name[r] = n.file_name[q] PROVE r = q
    <3>1. d.file_name[To(r)] = d.file_name[To(q)] /\ To(r) \in 0 .. k - 1 /\ To(q) \in 0 .. k - 1
      BY <1>2, <1>7, <2>6
    <3>2. To(r) = To(q)  BY <3>1 DEF NamesOnce
    <3> QED  BY <1>2, <3>2
  <2>7. NamesOnce(u, c)  BY <1>4, <1>8, <2>6 DEF NamesOnce
  <2> QED  BY <2>2, <2>4, <2>5, <2>7
<1> QED  BY <1>4, <1>6, <1>8 DEF SlotAway

\* What mkdir_t clears of an old entry leaves ids.
LEMMA ClearedTyped ==
  ASSUME NEW T, 0 \in T, NEW f \in [Slots -> T]
  PROVE  Cleared(f) \in [Slots -> T]
BY Zenon DEF Cleared

\* A bitmap with a free bit gives out a free one, of the last word with one.
LEMMA AllocIsFree ==
  ASSUME NEW B \in Nat, NEW map \in SUBSET (0 .. B - 1), map # {}
  PROVE  /\ Alloc(map) \in map
         /\ \A j \in map : j >= Word => Alloc(map) >= Word
<1>1. Word \in Nat \ {0}  BY SizeAssumption DEF SizeAssumption
<1>2. \A j \in map : j \in Nat /\ j < B  BY SMT
<1>3. \A j \in Nat : j \div Word \in Nat /\ j \div Word <= j /\ (j < Word => j \div Word = 0) /\ (j \div Word = 0 => j < Word)
  BY <1>1, SMT
<1> DEFINE W == {B - (j \div Word) : j \in map}
<1>4. W \in SUBSET Nat /\ W # {}
  <2>1. \A j \in map : B - (j \div Word) \in Nat
    <3> SUFFICES ASSUME NEW j \in map PROVE B - (j \div Word) \in Nat  OBVIOUS
    <3>1. PICK w \in Nat : w = j \div Word /\ w <= j /\ j \in Nat /\ j < B  BY <1>2, <1>3
    <3>2. B - w \in Nat  BY <3>1, SMT
    <3> QED  BY <3>1, <3>2
  <2> QED  BY <2>1
<1>5. PICK m \in map : \A j \in map : j \div Word <= m \div Word
  <2>1. First(W) \in W /\ \A y \in W : First(W) <= y  BY <1>4, FirstIsLeast
  <2>2. PICK m \in map : First(W) = B - (m \div Word)  BY <2>1
  <2>3. ASSUME NEW j \in map PROVE j \div Word <= m \div Word
    <3>1. B - (m \div Word) <= B - (j \div Word)  BY <2>1, <2>2
    <3>2. PICK v \in Nat, w \in Nat : v = j \div Word /\ w = m \div Word  BY <1>2, <1>3
    <3>3. B - w <= B - v => v <= w  BY <3>2, SMT
    <3> QED  BY <3>1, <3>2, <3>3
  <2> QED  BY <2>3
<1> DEFINE V == {j \in map : j \div Word = m \div Word}
<1>6. V \in SUBSET Nat /\ V # {}  BY <1>2
<1>7. PICK a : a \in V /\ \A j \in V : a <= j  BY <1>6, FirstIsLeast
<1>8. /\ a \in map /\ \A j \in map : j \div Word <= a \div Word
      /\ \A j \in map : j \div Word = a \div Word => a <= j
  BY <1>5, <1>7
<1>9. /\ Alloc(map) \in map /\ \A j \in map : j \div Word <= Alloc(map) \div Word
  BY <1>8, Zenon DEF Alloc
<1>10. PICK b \in map : b = Alloc(map)  BY <1>9
<1>11. ASSUME NEW j \in map, j >= Word PROVE b >= Word
  <2>1. PICK v \in Nat, w \in Nat : v = j \div Word /\ w = b \div Word /\ v <= w  BY <1>2, <1>3, <1>9, <1>10
  <2>2. b \in Nat /\ j \in Nat /\ (w = 0 <=> b < Word) /\ (v = 0 <=> j < Word)  BY <1>2, <1>3, <2>1
  <2> QED  BY <1>1, <1>11, <2>1, <2>2, SMT
<1> QED  BY <1>9, <1>10, <1>11

(* The recursive function of Allocated: what is left of the bitmap after   *)
(* each block.                                                             *)
OneLess(left) == IF left = {} THEN {} ELSE left \ {Alloc(left)}
Leaves(map, n, f) ==
  f = [k \in 0 .. n |-> IF k = 0 \/ f[k - 1] = {} THEN (IF k = 0 THEN map ELSE {}) ELSE f[k - 1] \ {Alloc(f[k - 1])}]

\* The recursive function of Allocated exists.
LEMMA LeavesExists ==
  ASSUME NEW map, NEW N \in Nat
  PROVE  \E f : Leaves(map, N, f)
<1> DEFINE X == {n \in Nat : \E f : Leaves(map, n, f)}
<1>1. 0 \in X
  <2>1. Leaves(map, 0, [n \in 0 .. 0 |-> map])  BY SMT DEF Leaves
  <2> QED  BY <2>1
<1>2. \A n \in Nat : n \in X => n + 1 \in X
  <2> SUFFICES ASSUME NEW n \in Nat, NEW f, Leaves(map, n, f) PROVE \E g : Leaves(map, n + 1, g)  OBVIOUS
  <2> DEFINE Step(g, k) == IF k = 0 \/ g[k - 1] = {} THEN (IF k = 0 THEN map ELSE {}) ELSE g[k - 1] \ {Alloc(g[k - 1])}
             g == [k \in 0 .. n + 1 |-> IF k = n + 1 THEN Step(f, k) ELSE f[k]]
  <2>1. \A k \in 0 .. n + 1 : g[k] = Step(g, k)
    <3> SUFFICES ASSUME NEW k \in 0 .. n + 1 PROVE g[k] = Step(g, k)  OBVIOUS
    <3>1. CASE k = n + 1
      <4>1. k # 0 /\ k - 1 = n /\ n \in 0 .. n + 1 /\ n # n + 1  BY <3>1, SMT
      <4>2. g[k - 1] = f[k - 1]  BY <4>1, Zenon
      <4> QED  BY <3>1, <4>1, <4>2, Zenon
    <3>2. CASE k # n + 1
      <4>1. k \in 0 .. n  BY <3>2, SMT
      <4>2. f[k] = Step(f, k)  BY <4>1, Zenon DEF Leaves
      <4>3. k # 0 => k - 1 \in 0 .. n + 1 /\ k - 1 # n + 1  BY <4>1, SMT
      <4>4. k # 0 => g[k - 1] = f[k - 1]  BY <4>3, Zenon
      <4> QED  BY <3>2, <4>2, <4>4, Zenon
    <3> QED  BY <3>1, <3>2
  <2>2. Leaves(map, n + 1, g)  BY <2>1, Zenon DEF Leaves
  <2> QED  BY <2>2
<1> HIDE DEF X
<1>3. N \in X  BY <1>1, <1>2, NatBySuccessor
<1> QED  BY <1>3 DEF X

(* Some elements of map, at most n and each of them once.                  *)
Sample(a, map, n) ==
  \E m \in 0 .. n : a \in [1 .. m -> map] /\ \A j, k \in 1 .. m : a[j] = a[k] => j = k

\* Allocated gives out free blocks, no more than asked for and each of them once.
LEMMA AllocatedIsFree ==
  ASSUME NEW B \in Nat, NEW map \in SUBSET (0 .. B - 1), NEW n \in Nat
  PROVE  Sample(Allocated(map, n), map, n)
<1>1. PICK f : f = CHOOSE g : Leaves(map, n, g)  OBVIOUS
<1>2. Leaves(map, n, f)  BY <1>1, LeavesExists
<1> DEFINE C == Cardinality(map)
           m == IF n <= C THEN n ELSE C
<1>3. IsFiniteSet(map) /\ C \in Nat
  <2>1. IsFiniteSet(0 .. B - 1)  BY FS_Interval, SMT
  <2> QED  BY <2>1, FS_Subset, FS_CardinalityType
<1>4. m \in 0 .. n /\ m <= C  BY <1>3, SMT
<1>5. f[0] = map /\ \A k \in Nat : k + 1 <= n => f[k + 1] = OneLess(f[k])
  <2>1. f[0] = map
    <3>1. 0 \in 0 .. n  BY SMT
    <3> QED  BY <1>2, <3>1, Zenon DEF Leaves
  <2>2. ASSUME NEW k \in Nat, k + 1 <= n PROVE f[k + 1] = OneLess(f[k])
    <3>1. k + 1 \in 0 .. n /\ k + 1 # 0 /\ (k + 1) - 1 = k  BY <2>2, SMT
    <3> QED  BY <1>2, <3>1, Zenon DEF Leaves, OneLess
  <2> QED  BY <2>1, <2>2
<1> DEFINE Left(k) == k <= m => f[k] \in SUBSET map /\ Cardinality(f[k]) = C - k
           X == {k \in Nat : Left(k)}
<1>6. 0 \in X  BY <1>3, <1>5
<1>7. ASSUME NEW k \in Nat, k + 1 <= m, Left(k)
      PROVE  /\ f[k] \in SUBSET map /\ Alloc(f[k]) \in f[k] /\ f[k + 1] = f[k] \ {Alloc(f[k])}
             /\ Cardinality(f[k + 1]) = C - (k + 1)
  <2>1. k <= m /\ k + 1 <= n /\ C - k # 0 /\ (C - k) - 1 = C - (k + 1)  BY <1>3, <1>4, <1>7, SMT
  <2>2. f[k] \in SUBSET map /\ Cardinality(f[k]) = C - k  BY <1>7, <2>1
  <2>3. IsFiniteSet(f[k])  BY <1>3, <2>2, FS_Subset
  <2>4. f[k] # {}  BY <2>1, <2>2, FS_EmptySet
  <2>5. Alloc(f[k]) \in f[k]  BY <2>2, <2>4, AllocIsFree
  <2>6. f[k + 1] = f[k] \ {Alloc(f[k])}  BY <1>5, <2>1, <2>4 DEF OneLess
  <2>7. Cardinality(f[k + 1]) = Cardinality(f[k]) - 1  BY <2>3, <2>5, <2>6, FS_RemoveElement
  <2> QED  BY <2>1, <2>2, <2>5, <2>6, <2>7
<1>8. \A k \in Nat : k \in X => k + 1 \in X
  <2> SUFFICES ASSUME NEW k \in Nat, Left(k), k + 1 <= m
               PROVE  f[k + 1] \in SUBSET map /\ Cardinality(f[k + 1]) = C - (k + 1)
    OBVIOUS
  <2> QED  BY <1>7
<1> HIDE DEF X
<1>9. \A k \in Nat : Left(k)
  <2>1. Nat \subseteq X  BY <1>6, <1>8, NatBySuccessor
  <2> QED  BY <2>1 DEF X
<1> HIDE DEF Left
<1>10. ASSUME NEW j \in Nat, j + 1 <= m
       PROVE  \A k \in Nat : j + 1 <= k /\ k <= m => Alloc(f[j]) \notin f[k]
  <2> DEFINE Y == {k \in Nat : j + 1 <= k /\ k <= m => Alloc(f[j]) \notin f[k]}
  <2>1. 0 \in Y  BY SMT
  <2>2. ASSUME NEW k \in Nat, k \in Y, j + 1 <= k + 1, k + 1 <= m PROVE Alloc(f[j]) \notin f[k + 1]
    <3>1. f[k + 1] = f[k] \ {Alloc(f[k])}  BY <1>7, <1>9, <2>2
    <3>2. CASE j = k  BY <3>1, <3>2
    <3>3. CASE j # k
      <4>1. j + 1 <= k /\ k <= m  BY <1>4, <2>2, <3>3, SMT
      <4> QED  BY <2>2, <3>1, <4>1
    <3> QED  BY <3>2, <3>3
  <2>3. \A k \in Nat : k \in Y => k + 1 \in Y  BY <2>2
  <2> HIDE DEF Y
  <2>4. Nat \subseteq Y  BY <2>1, <2>3, NatBySuccessor
  <2> QED  BY <2>4 DEF Y
<1>11. Allocated(map, n) = [k \in 1 .. m |-> Alloc(f[k - 1])]  BY <1>1 DEF Allocated, Leaves
<1> HIDE DEF m
<1> DEFINE a == Allocated(map, n)
<1>12. \A k \in 1 .. m : k - 1 \in Nat /\ (k - 1) + 1 <= m /\ (k - 1) + 1 = k /\ k \in Nat  BY <1>3, <1>4, SMT
<1>13. ASSUME NEW k \in 1 .. m PROVE a[k] = Alloc(f[k - 1]) /\ a[k] \in f[k - 1] /\ a[k] \in map
  <2>1. a[k] = Alloc(f[k - 1])  BY <1>11
  <2> QED  BY <1>7, <1>9, <1>12, <2>1
<1>14. ASSUME NEW j \in 1 .. m, NEW k \in 1 .. m, a[j] = a[k], j < k PROVE FALSE
  <2>1. (j - 1) + 1 <= k - 1 /\ k - 1 <= m  BY <1>3, <1>4, <1>14, SMT
  <2>2. Alloc(f[j - 1]) \notin f[k - 1]  BY <1>10, <1>12, <2>1
  <2> QED  BY <1>13, <1>14, <2>2
<1>15. ASSUME NEW j \in 1 .. m, NEW k \in 1 .. m, a[j] = a[k] PROVE j = k
  <2>1. j < k \/ k < j \/ j = k  BY <1>3, <1>4, SMT
  <2> QED  BY <1>14, <1>15, <2>1
<1>16. a \in [1 .. m -> map]  BY <1>11, <1>13
<1> QED  BY <1>4, <1>15, <1>16 DEF Sample

(* Of two sequences of lengths m and j, the first over the second.         *)
Longer(m, j) == IF m >= j THEN m ELSE j
Covers(r, new, m, old, j, S) ==
  /\ r \in [1 .. Longer(m, j) -> S]
  /\ \A k \in 1 .. Longer(m, j) : r[k] = IF k <= m THEN new[k] ELSE old[k]

\* Over puts the new addresses in front of what it leaves of the old ones.
LEMMA OverIs ==
  ASSUME NEW S, NEW m \in Nat, NEW j \in Nat, NEW new \in [1 .. m -> S], NEW old \in [1 .. j -> S]
  PROVE  Covers(Over(new, old), new, m, old, j, S)
<1>1. new \in Seq(S) /\ old \in Seq(S)  BY SeqDef
<1>2. Len(new) = m /\ Len(old) = j
  <2>1. DOMAIN new = 1 .. Len(new) /\ DOMAIN old = 1 .. Len(old) /\ Len(new) \in Nat /\ Len(old) \in Nat
    BY <1>1, LenProperties
  <2>2. 1 .. Len(new) = 1 .. m /\ 1 .. Len(old) = 1 .. j  BY <2>1
  <2>3. \A a, b \in Nat : 1 .. a = 1 .. b => a = b
    <3> SUFFICES ASSUME NEW a \in Nat, NEW b \in Nat, 1 .. a = 1 .. b PROVE a = b  OBVIOUS
    <3>1. (a = 0 \/ a \in 1 .. b) /\ (b = 0 \/ b \in 1 .. a)
      <4>1. (a = 0 \/ a \in 1 .. a) /\ (b = 0 \/ b \in 1 .. b)  BY SMT
      <4> QED  BY <4>1
    <3>2. (a = 0 => 1 .. a = {}) /\ (b = 0 => 1 .. b = {}) /\ (a # 0 => 1 \in 1 .. a) /\ (b # 0 => 1 \in 1 .. b)  BY SMT
    <3> QED  BY <3>1, <3>2, SMT
  <2> QED  BY <2>1, <2>2, <2>3
<1> DEFINE t == SubSeq(old, m + 1, j)
<1>3. /\ t \in Seq(S) /\ Len(t) = (IF m + 1 <= j THEN j - (m + 1) + 1 ELSE 0)
      /\ \A i \in 1 .. j - (m + 1) + 1 : t[i] = old[(m + 1) + i - 1]
  <2>1. m + 1 \in Int /\ j \in Int /\ \A i \in (m + 1) .. j : i \in 1 .. j  BY SMT
  <2>2. \A i \in (m + 1) .. j : old[i] \in S  BY <2>1
  <2> QED  BY <2>1, <2>2, SubSeqProperties
<1> HIDE DEF t
<1> DEFINE r == new \o t
           n == Longer(m, j)
<1>4. r \in Seq(S) /\ Len(r) = m + Len(t) /\ \A i \in 1 .. m + Len(t) : r[i] = IF i <= m THEN new[i] ELSE t[i - m]
  BY <1>1, <1>2, <1>3, ConcatProperties
<1>5. n \in Nat /\ m + Len(t) = n  BY <1>3, SMT DEF Longer
<1>6. \A k \in 1 .. n : r[k] = IF k <= m THEN new[k] ELSE old[k]
  <2> SUFFICES ASSUME NEW k \in 1 .. n PROVE r[k] = IF k <= m THEN new[k] ELSE old[k]  OBVIOUS
  <2>1. r[k] = IF k <= m THEN new[k] ELSE t[k - m]  BY <1>4, <1>5
  <2>2. ~(k <= m) => k - m \in 1 .. j - (m + 1) + 1 /\ (m + 1) + (k - m) - 1 = k  BY SMT DEF Longer
  <2> QED  BY <1>3, <2>1, <2>2
<1>7. r \in [1 .. n -> S]  BY <1>4, <1>5, LenProperties
<1>8. Over(new, old) = r  BY <1>2 DEF Over, t
<1> QED  BY <1>6, <1>7, <1>8 DEF Covers

-----------------------------------------------------------------------------
(* What a command does to the table leaves a forest.                       *)

\* The table u with entry e0 added to directory c0 of table t.
LEMMA ForestGrows ==
  ASSUME NEW t \in Tables, NEW kd, NEW G, Forest(t, kd, G), NEW u \in Tables, NEW ku, NEW H, NEW c0 \in G, NEW e0,
         G \subseteq H, H \subseteq Dirs,
         \A c \in H \ G : Entries(u, c) = {} /\ NamesOnce(u, c),
         \A c \in G : Entries(u, c) = IF c = c0 THEN Entries(t, c) \cup {e0} ELSE Entries(t, c),
         \A c \in G : NamesOnce(u, c),
         \A c \in G : u[c].d_name = t[c].d_name /\ u[c].inode_id = t[c].inode_id /\ u[c].parent_id = t[c].parent_id,
         \A c \in G : \A e \in Entries(t, c) : ku[e[2]] = kd[e[2]],
         e0[1] \in Names, e0[2] # 0, ku[e0[2]] \in {"dir", "file"}, ku[e0[2]] = "dir" => ChildOf(u, H, c0, e0)
  PROVE  Forest(u, ku, H)
<1>1. 0 \in H  BY DEF Forest
<1>2. ASSUME NEW d \in H PROVE NamesOnce(u, d)  OBVIOUS
<1>3. ASSUME NEW d \in H, NEW e \in Entries(u, d)
      PROVE  /\ e[1] \in Names /\ e[2] # 0 /\ ku[e[2]] \in {"dir", "file"}
             /\ ku[e[2]] = "dir" => ChildOf(u, H, d, e)
  <2>1. d \in G /\ (e \in Entries(t, d) \/ (d = c0 /\ e = e0))  OBVIOUS
  <2>2. CASE e \in Entries(t, d)
    <3>1. e[1] \in Names /\ e[2] # 0 /\ kd[e[2]] \in {"dir", "file"} /\ (kd[e[2]] = "dir" => ChildOf(t, G, d, e))
      BY <2>1, <2>2 DEF Forest
    <3>2. ku[e[2]] = kd[e[2]]  BY <2>1, <2>2
    <3>3. ChildOf(t, G, d, e) => ChildOf(u, H, d, e)
      <4> SUFFICES ASSUME ChildOf(t, G, d, e) PROVE ChildOf(u, H, d, e)  OBVIOUS
      <4>1. e[3] \in G \ {0} /\ t[e[3]].d_name = e[1] /\ t[e[3]].inode_id = e[2] /\ t[e[3]].parent_id = d  BY DEF ChildOf
      <4>2. u[e[3]].d_name = t[e[3]].d_name /\ u[e[3]].inode_id = t[e[3]].inode_id /\ u[e[3]].parent_id = t[e[3]].parent_id
        BY <4>1
      <4> QED  BY <4>1, <4>2 DEF ChildOf
    <3> QED  BY <3>1, <3>2, <3>3
  <2>3. CASE d = c0 /\ e = e0  BY <2>3
  <2> QED  BY <2>1, <2>2, <2>3
<1> QED  BY <1>1, <1>2, <1>3 DEF Forest

(* Table u is t with entry e0 removed from directory c0; what the entry    *)
(* was is no longer in use, if it was a directory.                         *)
Removal(t, kd, G, u, ku, H, c0, e0) ==
  /\ c0 \in G /\ e0 \in Entries(t, c0)
  /\ H = IF kd[e0[2]] = "dir" THEN G \ {e0[3]} ELSE G
  /\ \A c \in H : /\ Entries(u, c) = IF c = c0 THEN Entries(t, c) \ {e0} ELSE Entries(t, c)
                  /\ NamesOnce(u, c)
                  /\ \A e \in Entries(u, c) : ku[e[2]] = kd[e[2]]
  /\ \A c \in Dirs : u[c].d_name = t[c].d_name /\ u[c].inode_id = t[c].inode_id /\ u[c].parent_id = t[c].parent_id

\* What is left after the removal of an entry is a forest, with the entry's directory.
LEMMA ForestShrinks ==
  ASSUME NEW t \in Tables, NEW kd, NEW G, Forest(t, kd, G), Grounded(t), NEW u \in Tables, NEW ku, NEW H, NEW c0, NEW e0,
         Removal(t, kd, G, u, ku, H, c0, e0)
  PROVE  Forest(u, ku, H) /\ c0 \in H
<1> USE DEF Removal
<1>1. \A d \in G : \A e \in Entries(t, d) :
        e[1] \in Names /\ e[2] # 0 /\ kd[e[2]] \in {"dir", "file"} /\ (kd[e[2]] = "dir" => ChildOf(t, G, d, e))
  BY DEF Forest
<1>2. 0 \in H /\ H \subseteq Dirs /\ G \subseteq Dirs
  <2>1. 0 \in G /\ G \subseteq Dirs  BY DEF Forest
  <2>2. kd[e0[2]] = "dir" => e0[3] # 0  BY <1>1 DEF ChildOf
  <2> QED  BY <2>1, <2>2
<1>3. c0 \in H
  <2> SUFFICES ASSUME kd[e0[2]] = "dir", e0[3] = c0 PROVE FALSE  OBVIOUS
  <2>1. c0 # 0 /\ t[c0].parent_id = c0  BY <1>1 DEF ChildOf
  <2>2. {c0} \in SUBSET (Dirs \ {0}) /\ {c0} # {}  BY <1>2, <2>1
  <2> QED  BY <2>1, <2>2 DEF Grounded
<1>4. ASSUME NEW d \in H, NEW e \in Entries(u, d)
      PROVE  /\ e[1] \in Names /\ e[2] # 0 /\ ku[e[2]] \in {"dir", "file"}
             /\ ku[e[2]] = "dir" => ChildOf(u, H, d, e)
  <2>1. d \in G /\ e \in Entries(t, d) /\ ~(d = c0 /\ e = e0)  OBVIOUS
  <2>2. ku[e[2]] = kd[e[2]]  OBVIOUS
  <2>3. ASSUME kd[e[2]] = "dir" PROVE ChildOf(u, H, d, e)
    <3>1. e[3] \in G \ {0} /\ t[e[3]].d_name = e[1] /\ t[e[3]].inode_id = e[2] /\ t[e[3]].parent_id = d
      BY <1>1, <2>1, <2>3 DEF ChildOf
    <3>2. u[e[3]].d_name = t[e[3]].d_name /\ u[e[3]].inode_id = t[e[3]].inode_id /\ u[e[3]].parent_id = t[e[3]].parent_id
      BY <1>2, <3>1
    <3>3. ASSUME kd[e0[2]] = "dir", e[3] = e0[3] PROVE FALSE
      <4>1. t[e0[3]].d_name = e0[1] /\ t[e0[3]].parent_id = c0  BY <1>1, <3>3 DEF ChildOf
      <4>2. e[1] = e0[1] /\ d = c0  BY <3>1, <3>3, <4>1
      <4>3. PICK k \in 0 .. t[c0].sub_cnt - 1 : e = SlotOf(t, c0, k)  BY <2>1, <4>2 DEF Entries
      <4>4. PICK l \in 0 .. t[c0].sub_cnt - 1 : e0 = SlotOf(t, c0, l)  BY DEF Entries
      <4>5. t[c0].file_name[k] = t[c0].file_name[l]  BY <4>2, <4>3, <4>4 DEF SlotOf
      <4>6. NamesOnce(t, c0)  BY DEF Forest
      <4>7. k = l  BY <4>5, <4>6 DEF NamesOnce
      <4> QED  BY <2>1, <4>2, <4>3, <4>4, <4>7
    <3>4. e[3] \in H  BY <3>1, <3>3
    <3> QED  BY <3>1, <3>2, <3>4 DEF ChildOf
  <2> QED  BY <1>1, <2>1, <2>2, <2>3
<1>5. \A d \in H : NamesOnce(u, d)  OBVIOUS
<1> QED  BY <1>2, <1>3, <1>4, <1>5 DEF Forest

\* A new directory below one that a path leads to is not above itself.
LEMMA GroundedGrows ==
  ASSUME NEW t \in Tables, NEW kd, NEW G, Forest(t, kd, G), Grounded(t), NEW u \in Tables,
         NEW p \in Seq(Names), NEW c0, Leads(t, kd, p, c0), NEW s \in Dirs \ G,
         \A d \in Dirs : u[d].parent_id = IF d = s THEN c0 ELSE t[d].parent_id
  PROVE  Grounded(u)
<1> DEFINE Closed(A) == A \subseteq G /\ \A a \in A : a = 0 \/ t[a].parent_id \in A
           X == {q \in Seq(Names) : \A d : Leads(t, kd, q, d) => \E A : Closed(A) /\ d \in A}
<1>1. <<>> \in X
  <2>1. Closed({0})  BY DEF Forest
  <2> QED  BY <2>1, LeadsEmpty, EmptySeq
<1>2. ASSUME NEW q \in Seq(Names), NEW x \in Names, q \in X PROVE Append(q, x) \in X
  <2> SUFFICES ASSUME NEW d, Leads(t, kd, Append(q, x), d) PROVE \E A : Closed(A) /\ d \in A
    BY AppendProperties
  <2>1. PICK c \in G : Leads(t, kd, q, c) /\ \E e \in Entries(t, c) : e[1] = x /\ e[3] = d /\ kd[e[2]] = "dir"
    BY LeadsAppend
  <2>2. PICK A : Closed(A) /\ c \in A  BY <1>2, <2>1
  <2>3. PICK e \in Entries(t, c) : e[3] = d /\ kd[e[2]] = "dir"  BY <2>1
  <2>4. d \in G /\ t[d].parent_id = c  BY <2>3 DEF Forest, ChildOf
  <2>5. Closed(A \cup {d})  BY <2>2, <2>4
  <2> QED  BY <2>5
<1> HIDE DEF X
<1>3. Seq(Names) \subseteq X  BY <1>1, <1>2, SeqByAppend
<1>4. PICK A : Closed(A) /\ c0 \in A  BY <1>3 DEF X
<1>5. ASSUME NEW D \in SUBSET (Dirs \ {0}), D # {}, \A d \in D : u[d].parent_id \in D PROVE FALSE
  <2>1. CASE s \notin D
    <3>1. \A d \in D : t[d].parent_id \in D  BY <1>5, <2>1
    <3> QED  BY <1>5, <3>1 DEF Grounded
  <2>2. CASE s \in D
    <3>1. c0 \in D  BY <1>5, <2>2
    <3>2. s \notin A /\ A \subseteq Dirs  BY <1>4 DEF Forest
    <3>3. \A a \in D \cap A : t[a].parent_id \in D \cap A  BY <1>4, <1>5, <3>2
    <3>4. D \cap A \in SUBSET (Dirs \ {0}) /\ D \cap A # {}  BY <1>4, <3>1
    <3> QED  BY <3>3, <3>4 DEF Grounded
  <2> QED  BY <2>1, <2>2
<1> QED  BY <1>5 DEF Grounded

\* Directories with entries as before are as before.
LEMMA SameSlots ==
  ASSUME NEW t, NEW u, NEW c, u[c].sub_cnt = t[c].sub_cnt, u[c].file_name = t[c].file_name,
         u[c].file_inode = t[c].file_inode, u[c].sub_dir_ids = t[c].sub_dir_ids
  PROVE  Entries(u, c) = Entries(t, c) /\ (NamesOnce(u, c) <=> NamesOnce(t, c))
BY DEF Entries, SlotOf, NamesOnce
=============================================================================
