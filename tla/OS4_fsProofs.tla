---------------------------- MODULE OS4_fsProofs ----------------------------
(***************************************************************************)
(* The invariants of OS4_fs, and what its commands do to the tree, for a   *)
(* file system of any size whose directories are not mixed.                *)
(***************************************************************************)
EXTENDS OS4_fsPaths

-----------------------------------------------------------------------------
(* The kinds of the inodes, as Node has them; the directories that are in  *)
(* use, of which the root is marked as free; and the one that format_fs    *)
(* marked as used instead.                                                 *)
Kind     == [i \in Inodes |-> Node(i).dir_or_file]
Taken    == {0} \cup (Dirs \ dmap)
Reserved == (DMAP_SIZE - 1) * Word
Stands(i, d) == dinodes[i].direct_addr # <<>> /\ dinodes[i].direct_addr[1] = d

(* An inode is that of one entry of one directory.                         *)
InodesOnce(t, G) ==
  \A d, c \in G : \A e \in Entries(t, d), f \in Entries(t, c) : e[2] = f[2] => d = c /\ e = f

(* What an entry names is marked as used, and knows where it stands. That  *)
(* is asked of all directories in use, also of those that no path leads to *)
(* any more: rmdir_t leaves them behind.                                   *)
Marks ==
  \A d \in Taken : \A e \in Entries(dir_table, d) :
    /\ e[2] \notin imap /\ e[2] >= Word
    /\ Kind[e[2]] = "dir" => Stands(e[2], e[3])
    /\ Kind[e[2]] = "file" => Node(e[2]).parent_id = d

(* The entries of a directory are of one kind.                             *)
Sorted == \A d \in Taken : \A e, f \in Entries(dir_table, d) : Kind[e[2]] = Kind[f[2]]

(* A directory that is marked as used has an inode of its own, found from  *)
(* a path or not. So there are no more of them than inodes.                *)
OwnInode ==
  \A d \in Dirs \ dmap : d # Reserved =>
    LET i == dir_table[d].inode_id
    IN i >= Word /\ i \notin imap /\ Kind[i] = "dir" /\ Stands(i, d)

OpenFile == t_fp # None => t_fp.dir_or_file = "file" /\ t_fp.i_into \notin imap

(* The blocks of the files that there are, found from a path or not.       *)
Files == {i \in Inodes \ imap : Kind[i] = "file"}
BlocksOnce ==
  \A i, j \in Files : \A k \in DOMAIN Node(i).direct_addr, l \in DOMAIN Node(j).direct_addr :
    /\ Node(i).direct_addr[k] \in Blocks \ bmap
    /\ Node(i).direct_addr[k] = Node(j).direct_addr[l] => i = j /\ k = l

Here == Leads(dir_table, Kind, curr_path, curr_dir_id)

TreeInv == Forest(dir_table, Kind, Taken) /\ InodesOnce(dir_table, Taken) /\ Grounded(dir_table)
NodeInv == Marks /\ Sorted /\ OwnInode /\ OpenFile
IInv == TypeOK /\ TreeInv /\ NodeInv /\ BlocksOnce /\ Here

-----------------------------------------------------------------------------
(* Types.                                                                  *)
Addrs == UNION {[1 .. n -> Dirs \cup Blocks] : n \in 0 .. D_ADDR_NUM}

\* The sizes, as numbers.
LEMMA SizesAreNumbers ==
  /\ Word \in Nat \ {0} /\ DMAP_SIZE \in Nat \ {0} /\ IMAP_SIZE \in Nat \ {0} /\ BMAP_SIZE \in Nat \ {0}
  /\ DIR_INCLUDE_NUM \in Nat \ {0} /\ D_ADDR_NUM \in Nat \ {0} /\ Depth \in Nat \ {0} /\ IMAP_SIZE < DMAP_SIZE
BY SizeAssumption DEF SizeAssumption

\* What an entry consists of.
LEMMA EntryTyped ==
  ASSUME NEW t \in Tables, NEW d \in Dirs, NEW e \in Entries(t, d)
  PROVE  e[1] \in Names \cup {None} /\ e[2] \in Inodes /\ e[3] \in Dirs /\ e = <<e[1], e[2], e[3]>>
<1>1. PICK s \in 0 .. t[d].sub_cnt - 1 : e = SlotOf(t, d, s)  BY DEF Entries
<1>2. s \in Slots  BY SlotsUsed
<1>3. t[d].file_name[s] \in Names \cup {None} /\ t[d].file_inode[s] \in Inodes /\ t[d].sub_dir_ids[s] \in Dirs
  BY <1>2, SlotsUsed
<1> QED  BY <1>1, <1>3 DEF SlotOf

\* A path is a sequence of names.
LEMMA PathsAreSeqs == Paths \subseteq Seq(Names) \ {<<>>}
<1>1. ASSUME NEW n \in 1 .. Depth, NEW p \in [1 .. n -> Names] PROVE p \in Seq(Names) /\ p # <<>>
  <2>1. n \in Nat /\ 1 \in 1 .. n  BY SizesAreNumbers, SMT
  <2>2. p \in Seq(Names)  BY <2>1, SeqDef
  <2>3. DOMAIN p = 1 .. n /\ DOMAIN <<>> = {}  BY SMT
  <2> QED  BY <2>1, <2>2, <2>3
<1> QED  BY <1>1 DEF Paths

\* Of an inode, on disk or in memory.
LEMMA NodeTyped ==
  ASSUME dinodes \in [Inodes -> DirInode], t_fp \in OpenInode \cup {None}, NEW i \in Inodes
  PROVE  /\ Node(i).dir_or_file \in {"none", "file", "dir"} /\ Node(i).parent_id \in Dirs \cup {-1}
         /\ Node(i).direct_addr \in Addrs /\ dinodes[i].direct_addr \in Addrs
         /\ Kind[i] = Node(i).dir_or_file
<1>1. dinodes[i] \in DirInode  OBVIOUS
<1>2. dinodes[i].dir_or_file \in {"none", "file", "dir"} /\ dinodes[i].parent_id \in Dirs \cup {-1} /\ dinodes[i].direct_addr \in Addrs
  BY <1>1 DEF DirInode, Addrs
<1>3. t_fp # None => /\ t_fp.dir_or_file \in {"none", "file", "dir"} /\ t_fp.parent_id \in Dirs \cup {-1}
                     /\ t_fp.direct_addr \in Addrs
  BY DEF OpenInode, Addrs
<1> QED  BY <1>2, <1>3 DEF Node, Kind

\* The type invariant, with the tables' type by name.
LEMMA TypeByName ==
  TypeOK <=> /\ dmap \subseteq Dirs /\ imap \subseteq Inodes /\ bmap \subseteq Blocks
             /\ dir_table \in Tables /\ dinodes \in [Inodes -> DirInode] /\ t_fp \in OpenInode \cup {None}
             /\ curr_dir_id \in Dirs /\ curr_path \in Paths \cup {<<>>}
BY DEF TypeOK, Tables, Entry

\* What the model says of paths is what the lemmas say of the table and the kinds.
LEMMA PathsByTable ==
  ASSUME dir_table \in Tables, dinodes \in [Inodes -> DirInode], t_fp \in OpenInode \cup {None}, NEW p \in Seq(Names)
  PROVE  /\ find(p) = FindIn(dir_table, p) /\ FindIn(dir_table, p) \in Places
         /\ IsDirectory(p) <=> DirIn(dir_table, Kind, p)
         /\ Exists(p) <=> ExistsIn(dir_table, Kind, p)
<1>1. \A q \in Seq(Names) : find(q) = FindIn(dir_table, q) /\ FindIn(dir_table, q) \in Places /\ find(q).inode \in Inodes
  BY FindIsFindIn, FindTyped DEF Places
<1>2. \A q \in Seq(Names) : IsDirectory(q) <=> DirIn(dir_table, Kind, q)  BY <1>1 DEF IsDirectory, DirIn, Kind
<1>3. \A n \in 1 .. Len(p) - 1 : SubSeq(p, 1, n) \in Seq(Names)
  <2> SUFFICES ASSUME NEW n \in 1 .. Len(p) - 1 PROVE SubSeq(p, 1, n) \in Seq(Names)  OBVIOUS
  <2>1. Len(p) \in Nat  BY LenProperties
  <2>2. 1 \in Int /\ n \in Int /\ \A i \in 1 .. n : i \in 1 .. Len(p)  BY <2>1, SMT
  <2>3. \A i \in 1 .. n : p[i] \in Names  BY <2>2, ElementOfSeq
  <2> QED  BY <2>2, <2>3, SubSeqProperties
<1> QED  BY <1>1, <1>2, <1>3 DEF Exists, ExistsIn

-----------------------------------------------------------------------------
(* The initial state.                                                      *)

\* What format_fs makes satisfies the invariant.
LEMMA InitIInv == Init => IInv
<1> SUFFICES ASSUME Init PROVE IInv  OBVIOUS
<1> USE SizesAreNumbers
<1>1. 0 \in Dirs /\ 0 \in Inodes  BY RootIsDir
<1>2. Reserved \in Dirs /\ (IMAP_SIZE - 1) * Word \in Inodes
  <2>1. \A a, b \in Nat \ {0} : (a - 1) * b \in Nat /\ (a - 1) * b <= a * b - 1 /\ a * b - 1 \in Int
    <3> SUFFICES ASSUME NEW a \in Nat \ {0}, NEW b \in Nat \ {0}
                 PROVE  (a - 1) * b \in Nat /\ (a - 1) * b <= a * b - 1 /\ a * b - 1 \in Int
      OBVIOUS
    <3>1. (a - 1) * b = a * b - b /\ a * b \in Nat /\ b <= a * b  BY SMT
    <3> QED  BY <3>1, SMT
  <2>2. \A x \in Nat, y \in Int : x <= y => x \in 0 .. y  BY SMT
  <2> QED  BY <2>1, <2>2 DEF Reserved, Dirs, Inodes
<1>3. Taken \subseteq {0, Reserved} /\ 0 \in Taken  BY <1>1 DEF Taken, Init, Reserved
<1>4. /\ dinodes \in [Inodes -> DirInode] /\ t_fp = None /\ dinodes[0].dir_or_file = "dir"
      /\ \A i \in Inodes : dinodes[i].dir_or_file # "file"
  <2>1. NoInode \in DirInode
    <3>1. <<>> \in [1 .. 0 -> Dirs \cup Blocks] /\ 0 \in 0 .. D_ADDR_NUM  BY SMT
    <3>2. <<>> \in UNION {[1 .. n -> Dirs \cup Blocks] : n \in 0 .. D_ADDR_NUM}  BY <3>1
    <3> QED  BY <1>1, <3>2 DEF NoInode, DirInode
  <2>2. [dir_or_file |-> "dir", parent_id |-> -1, direct_addr |-> <<0>>] \in DirInode
    <3>1. <<0>> \in [1 .. 1 -> Dirs \cup Blocks] /\ 1 \in 0 .. D_ADDR_NUM  BY <1>1, SMT
    <3>2. <<0>> \in UNION {[1 .. n -> Dirs \cup Blocks] : n \in 0 .. D_ADDR_NUM}  BY <3>1
    <3> QED  BY <3>2 DEF DirInode
  <2>3. dinodes = [[i \in Inodes |-> NoInode] EXCEPT ![0] = [dir_or_file |-> "dir", parent_id |-> -1, direct_addr |-> <<0>>]]
    BY DEF Init
  <2>4. dinodes \in [Inodes -> DirInode]  BY <2>1, <2>2, <2>3
  <2>5. \A i \in Inodes : dinodes[i] = IF i = 0 THEN [dir_or_file |-> "dir", parent_id |-> -1, direct_addr |-> <<0>>] ELSE NoInode
    BY <2>3
  <2> QED  BY <1>1, <2>4, <2>5 DEF Init, NoInode
<1>5. dir_table = [d \in Dirs |-> NoDir] /\ NoDir \in Entry
  <2>1. 0 \in 0 .. DIR_INCLUDE_NUM  BY SMT
  <2> QED  BY <1>1, <2>1 DEF Init, NoDir, Entry
<1>6. TypeOK
  <2>1. dir_table \in Tables  BY <1>5 DEF Tables
  <2>2. dmap \subseteq Dirs /\ imap \subseteq Inodes /\ bmap \subseteq Blocks /\ curr_dir_id \in Dirs /\ curr_path = <<>>
    BY <1>1 DEF Init
  <2> QED  BY <1>4, <2>1, <2>2, TypeByName
<1>7. \A d \in Dirs : Entries(dir_table, d) = {} /\ NamesOnce(dir_table, d) /\ dir_table[d].parent_id = 0
  <2> SUFFICES ASSUME NEW d \in Dirs
               PROVE  Entries(dir_table, d) = {} /\ NamesOnce(dir_table, d) /\ dir_table[d].parent_id = 0
    OBVIOUS
  <2>1. dir_table[d].sub_cnt = 0 /\ dir_table[d].parent_id = 0  BY <1>5 DEF NoDir
  <2>2. 0 .. 0 - 1 = {}  BY SMT
  <2> QED  BY <2>1, <2>2 DEF Entries, NamesOnce
<1>8. Taken \subseteq Dirs  BY <1>1, <1>2, <1>3
<1>9. TreeInv
  <2>1. Forest(dir_table, Kind, Taken)  BY <1>3, <1>7, <1>8 DEF Forest
  <2>2. InodesOnce(dir_table, Taken)  BY <1>7, <1>8 DEF InodesOnce
  <2>3. Grounded(dir_table)  BY <1>7 DEF Grounded
  <2> QED  BY <2>1, <2>2, <2>3 DEF TreeInv
<1>10. NodeInv
  <2>1. Marks /\ Sorted  BY <1>7, <1>8 DEF Marks, Sorted
  <2>2. OwnInode  BY DEF OwnInode, Init, Reserved
  <2>3. OpenFile  BY <1>4 DEF OpenFile
  <2> QED  BY <2>1, <2>2, <2>3 DEF NodeInv
<1>11. BlocksOnce  BY <1>4 DEF BlocksOnce, Files, Kind, Node
<1>12. Here  BY LeadsEmpty DEF Here, Init
<1> QED  BY <1>6, <1>9, <1>10, <1>11, <1>12 DEF IInv

-----------------------------------------------------------------------------
(* Commands that leave the table alone.                                    *)

\* chdir_t goes to where the path leads, and the path it shows is that one.
LEMMA ChdirKeeps ==
  ASSUME IInv, NEW path \in Paths \cup {<<>>}, chdir_t(path)
  PROVE  /\ curr_path' = path /\ Leads(dir_table, Kind, path, curr_dir_id')
         /\ IInv'
<1> USE TypeByName
<1>1. path \in Seq(Names)  BY PathsAreSeqs, EmptySeq
<1>2. /\ dir_table \in Tables /\ dinodes \in [Inodes -> DirInode] /\ t_fp \in OpenInode \cup {None}
      /\ Forest(dir_table, Kind, Taken) /\ Grounded(dir_table)
  BY DEF IInv, TreeInv
<1>3. Leads(dir_table, Kind, path, curr_dir_id')
  <2>1. CASE path = <<>>  BY <2>1, LeadsEmpty DEF chdir_t
  <2>2. CASE path # <<>>
    <3>1. Exists(path) /\ IsDirectory(path) /\ curr_dir_id' = dinodes[find(path).inode].direct_addr[1]  BY <2>2 DEF chdir_t
    <3>2. ExistsIn(dir_table, Kind, path) /\ find(path) = FindIn(dir_table, path) /\ DirIn(dir_table, Kind, path)
      BY <1>1, <1>2, <3>1, PathsByTable
    <3>3. PICK c \in Taken : \E e \in Entries(dir_table, c) : IsEntry(dir_table, Kind, Taken, path, c, e)
      BY <1>1, <1>2, <2>2, <3>2, EntryFound
    <3>4. PICK e \in Entries(dir_table, c) : IsEntry(dir_table, Kind, Taken, path, c, e)  BY <3>3
    <3>5. FindIn(dir_table, path) = [ok |-> TRUE, dir |-> e[3], inode |-> e[2]]  BY <1>2, <3>4, EntryFound
    <3>6. Kind[e[2]] = "dir"  BY <3>2, <3>5 DEF DirIn
    <3>7. Stands(e[2], e[3])  BY <3>4, <3>6 DEF IInv, NodeInv, Marks
    <3>8. curr_dir_id' = e[3]  BY <3>1, <3>2, <3>5, <3>7 DEF Stands
    <3> QED  BY <1>1, <1>2, <2>2, <3>4, <3>6, <3>8, LeadsToEntry
  <2> QED  BY <2>1, <2>2
<1>4. curr_path' = path
  <2>1. curr_path' = NameIn(dir_table, curr_dir_id')  BY PathNameIsNameIn DEF chdir_t, PathName, NameIn, Climbs
  <2> QED  BY <1>1, <1>2, <1>3, <2>1, NameInIsPath
<1>5. curr_dir_id' \in Dirs  BY <1>1, <1>2, <1>3, LeadsTaken DEF Forest
<1>6. UNCHANGED <<dmap, imap, bmap, dir_table, dinodes, t_fp>>  BY DEF chdir_t
<1>7. TypeOK'  BY <1>4, <1>5, <1>6 DEF IInv, TypeOK
<1>8. Kind' = Kind /\ Taken' = Taken  BY <1>6 DEF Kind, Node, Taken
<1>9. Here'  BY <1>3, <1>4, <1>6, <1>8 DEF Here
<1>10. TreeInv'  BY <1>6, <1>8 DEF IInv, TreeInv
<1>11. NodeInv'  BY <1>6, <1>8 DEF IInv, NodeInv, Marks, Sorted, OwnInode, OpenFile, Stands, Node
<1>12. BlocksOnce'  BY <1>6, <1>8 DEF IInv, BlocksOnce, Files, Node
<1> QED  BY <1>3, <1>4, <1>7, <1>9, <1>10, <1>11, <1>12 DEF IInv

\* A restart begins at the root.
LEMMA RestartKeeps ==
  ASSUME IInv, Restart
  PROVE  IInv'
<1>1. /\ UNCHANGED <<dmap, imap, bmap, dir_table, dinodes, t_fp>> /\ curr_dir_id' = 0 /\ curr_path' = <<>>
  BY DEF Restart
<1>2. TypeOK'  BY <1>1, RootIsDir DEF IInv, TypeOK
<1>3. Kind' = Kind /\ Taken' = Taken  BY <1>1 DEF Kind, Node, Taken
<1>4. Here'  BY <1>1, LeadsEmpty DEF Here
<1>5. TreeInv'  BY <1>1, <1>3 DEF IInv, TreeInv
<1>6. NodeInv'  BY <1>1, <1>3 DEF IInv, NodeInv, Marks, Sorted, OwnInode, OpenFile, Stands, Node
<1>7. BlocksOnce'  BY <1>1, <1>3 DEF IInv, BlocksOnce, Files, Node
<1> QED  BY <1>2, <1>4, <1>5, <1>6, <1>7 DEF IInv

\* What a command finds at a path is an entry of a directory in use, marked as used.
LEMMA EntryOfPath ==
  ASSUME IInv, NEW path \in Paths, Exists(path)
  PROVE  \E c \in Taken : \E e \in Entries(dir_table, c) :
           /\ IsEntry(dir_table, Kind, Taken, path, c, e) /\ find(path).inode = e[2]
           /\ e[2] \in Inodes \ imap /\ e[3] \in Dirs /\ c \in Dirs
           /\ IsDirectory(path) => Kind[e[2]] = "dir"
           /\ ~IsDirectory(path) => Kind[e[2]] = "file"
<1>1. path \in Seq(Names) /\ path # <<>>  BY PathsAreSeqs
<1>2. /\ dir_table \in Tables /\ dinodes \in [Inodes -> DirInode] /\ t_fp \in OpenInode \cup {None}
      /\ Forest(dir_table, Kind, Taken)
  BY TypeByName DEF IInv, TreeInv
<1>3. /\ find(path) = FindIn(dir_table, path) /\ ExistsIn(dir_table, Kind, path)
      /\ IsDirectory(path) <=> DirIn(dir_table, Kind, path)
  BY <1>1, <1>2, PathsByTable
<1>4. PICK c \in Taken : \E e \in Entries(dir_table, c) : IsEntry(dir_table, Kind, Taken, path, c, e)
  BY <1>1, <1>2, <1>3, EntryFound
<1>5. PICK e \in Entries(dir_table, c) : IsEntry(dir_table, Kind, Taken, path, c, e)  BY <1>4
<1>6. FindIn(dir_table, path) = [ok |-> TRUE, dir |-> e[3], inode |-> e[2]]  BY <1>2, <1>5, EntryFound
<1>7. c \in Dirs /\ Kind[e[2]] \in {"dir", "file"}  BY <1>2 DEF Forest
<1>8. e[2] \in Inodes /\ e[3] \in Dirs  BY <1>2, <1>7, EntryTyped
<1>9. e[2] \notin imap  BY DEF IInv, NodeInv, Marks
<1>10. IsDirectory(path) <=> Kind[e[2]] = "dir"  BY <1>3, <1>6 DEF DirIn
<1>11. find(path).inode = e[2]  BY <1>3, <1>6
<1> QED  BY <1>5, <1>7, <1>8, <1>9, <1>10, <1>11

\* A command that leaves the table, the kinds and the places of the directories alone.
LEMMA TableKept ==
  ASSUME IInv, UNCHANGED <<dmap, imap, dir_table, whereVars>>, TypeOK', OpenFile',
         \A i \in Inodes : /\ (Node(i).dir_or_file)' = Node(i).dir_or_file
                           /\ (Node(i).parent_id)' = Node(i).parent_id
                           /\ Kind[i] = "dir" => (dinodes[i].direct_addr)' = dinodes[i].direct_addr
  PROVE  Kind' = Kind /\ TreeInv' /\ NodeInv' /\ Here'
<1>1. UNCHANGED <<dmap, imap, dir_table, curr_dir_id, curr_path>>  BY DEF whereVars
<1>2. Kind' = Kind /\ Taken' = Taken  BY <1>1 DEF Kind, Taken
<1>3. TreeInv'  BY <1>1, <1>2 DEF IInv, TreeInv
<1>4. Here'  BY <1>1, <1>2 DEF IInv, Here
<1>5. \A i \in Inodes : \A d : Kind[i] = "dir" /\ Stands(i, d) => Stands(i, d)'  BY DEF Stands
<1>6. Taken \subseteq Dirs /\ dir_table \in Tables  BY TypeByName DEF IInv, TreeInv, Forest
<1>7. \A d \in Taken : \A e \in Entries(dir_table, d) : e[2] \in Inodes  BY <1>6, EntryTyped
<1>8. Marks'
  <2>1. Marks  BY DEF IInv, NodeInv
  <2>2. \A d \in Taken : \A e \in Entries(dir_table, d) :
          /\ e[2] \notin imap /\ e[2] >= Word
          /\ Kind[e[2]] = "dir" => Stands(e[2], e[3])'
          /\ Kind[e[2]] = "file" => (Node(e[2]).parent_id)' = d
    BY <1>5, <1>7, <2>1 DEF Marks
  <2> QED  BY <1>1, <1>2, <2>2 DEF Marks
<1>9. Sorted'  BY <1>1, <1>2 DEF IInv, NodeInv, Sorted
<1>10. OwnInode'
  <2>1. \A d \in Dirs : dir_table[d].inode_id \in Inodes  BY <1>6 DEF Tables, Entry
  <2>2. OwnInode  BY DEF IInv, NodeInv
  <2>3. \A d \in Dirs \ dmap : d # Reserved =>
          /\ dir_table[d].inode_id >= Word /\ dir_table[d].inode_id \notin imap /\ Kind[dir_table[d].inode_id] = "dir"
          /\ Stands(dir_table[d].inode_id, d)'
    BY <1>5, <2>1, <2>2 DEF OwnInode
  <2> QED  BY <1>1, <1>2, <2>3 DEF OwnInode, Reserved
<1> QED  BY <1>2, <1>3, <1>4, <1>8, <1>9, <1>10 DEF NodeInv

\* The inode that open_f reads into memory is that of a file in use.
LEMMA OpenKeeps ==
  ASSUME IInv, NEW path \in Paths, open_f(path)
  PROVE  IInv'
<1>1. t_fp = None /\ UNCHANGED <<dmap, imap, bmap, dir_table, dinodes, whereVars>>  BY DEF open_f
<1>2. IsFile(path) /\ t_fp' = InMemory(dinodes[find(path).inode], find(path).inode)  BY DEF open_f
<1>3. PICK i \in Inodes \ imap : i = find(path).inode /\ Kind[i] = "file"
  <2>1. Exists(path) /\ ~IsDirectory(path)  BY <1>2 DEF IsFile
  <2> QED  BY <2>1, EntryOfPath
<1>4. dinodes \in [Inodes -> DirInode]  BY TypeByName DEF IInv
<1>5. t_fp' = InMemory(dinodes[i], i) /\ dinodes[i] \in DirInode  BY <1>2, <1>3, <1>4
<1>6. t_fp' \in OpenInode  BY <1>5 DEF InMemory, OpenInode, DirInode
<1>7. /\ t_fp' # None /\ t_fp'.i_into = i /\ t_fp'.dir_or_file = dinodes[i].dir_or_file
      /\ t_fp'.parent_id = dinodes[i].parent_id /\ t_fp'.direct_addr = dinodes[i].direct_addr
  BY <1>5, <1>6, NoneAssumption DEF InMemory
<1>8. TypeOK'  BY <1>1, <1>6 DEF IInv, TypeOK, whereVars
<1>9. \A j \in Inodes : /\ (Node(j).dir_or_file)' = Node(j).dir_or_file
                        /\ (Node(j).parent_id)' = Node(j).parent_id
                        /\ (Node(j).direct_addr)' = Node(j).direct_addr
                        /\ (dinodes[j].direct_addr)' = dinodes[j].direct_addr
  BY <1>1, <1>7 DEF Node
<1>10. OpenFile'  BY <1>1, <1>3, <1>7 DEF OpenFile, Kind, Node
<1>11. Kind' = Kind /\ TreeInv' /\ NodeInv' /\ Here'  BY <1>1, <1>8, <1>9, <1>10, TableKept
<1>12. BlocksOnce'
  <2>1. Files' = Files /\ Files \subseteq Inodes  BY <1>1, <1>11 DEF Files
  <2>2. BlocksOnce /\ bmap' = bmap  BY <1>1 DEF IInv
  <2> QED  BY <1>9, <2>1, <2>2 DEF BlocksOnce
<1> QED  BY <1>8, <1>11, <1>12 DEF IInv

\* close_f writes back what the inode in memory has become.
LEMMA CloseKeeps ==
  ASSUME IInv, close_f
  PROVE  IInv'
<1>1. t_fp # None /\ t_fp' = None /\ UNCHANGED <<dmap, imap, bmap, dir_table, whereVars>>  BY DEF close_f
<1>2. dinodes \in [Inodes -> DirInode] /\ t_fp \in OpenInode  BY <1>1, TypeByName DEF IInv
<1>3. PICK i \in Inodes : i = t_fp.i_into  BY <1>2 DEF OpenInode
<1>4. dinodes' = [dinodes EXCEPT ![i] = OnDisk(t_fp)]  BY <1>3 DEF close_f
<1>5. OnDisk(t_fp) \in DirInode  BY <1>2 DEF OnDisk, OpenInode, DirInode
<1>6. dinodes' \in [Inodes -> DirInode] /\ \A j \in Inodes : dinodes'[j] = IF j = i THEN OnDisk(t_fp) ELSE dinodes[j]
  BY <1>2, <1>4, <1>5
<1>7. TypeOK'  BY <1>1, <1>6 DEF IInv, TypeOK, whereVars
<1>8. \A j \in Inodes : /\ (Node(j).dir_or_file)' = Node(j).dir_or_file
                        /\ (Node(j).parent_id)' = Node(j).parent_id
                        /\ (Node(j).direct_addr)' = Node(j).direct_addr
  BY <1>1, <1>3, <1>6 DEF Node, OnDisk
<1>9. Kind[i] = "file"  BY <1>1, <1>3 DEF IInv, NodeInv, OpenFile, Kind, Node
<1>10. \A j \in Inodes : Kind[j] = "dir" => (dinodes[j].direct_addr)' = dinodes[j].direct_addr  BY <1>6, <1>9
<1>11. OpenFile'  BY <1>1 DEF OpenFile
<1>12. Kind' = Kind /\ TreeInv' /\ NodeInv' /\ Here'  BY <1>1, <1>7, <1>8, <1>10, <1>11, TableKept
<1>13. BlocksOnce'
  <2>1. Files' = Files /\ Files \subseteq Inodes  BY <1>1, <1>12 DEF Files
  <2>2. BlocksOnce /\ bmap' = bmap  BY <1>1 DEF IInv
  <2> QED  BY <1>8, <2>1, <2>2 DEF BlocksOnce
<1> QED  BY <1>7, <1>12, <1>13 DEF IInv

\* What write_f makes of the open file: the first blocks are new ones.
LEMMA WriteKeeps ==
  ASSUME IInv, NEW n \in 1 .. D_ADDR_NUM, write_f(n)
  PROVE  /\ t_fp # None /\ t_fp' # None /\ t_fp'.i_into = t_fp.i_into /\ t_fp'.dir_or_file = t_fp.dir_or_file
         /\ t_fp'.parent_id = t_fp.parent_id /\ Kind' = Kind
         /\ IInv'
<1> USE SizesAreNumbers
<1>1. t_fp # None /\ bmap # {} /\ UNCHANGED <<dmap, imap, dir_table, dinodes, whereVars>>  BY DEF write_f
<1>2. PICK new : new = Allocated(bmap, n)  OBVIOUS
<1>3. /\ t_fp' = [t_fp EXCEPT !.direct_addr = Over(new, t_fp.direct_addr)]
      /\ bmap' = bmap \ {new[k] : k \in DOMAIN new}
  BY <1>2 DEF write_f
<1>4. /\ dinodes \in [Inodes -> DirInode] /\ t_fp \in OpenInode /\ bmap \subseteq Blocks
      /\ BlocksOnce /\ OpenFile
  BY <1>1, TypeByName DEF IInv, NodeInv
<1>5. PICK m \in 0 .. n : new \in [1 .. m -> bmap] /\ \A j, k \in 1 .. m : new[j] = new[k] => j = k
  <2>1. BMAP_SIZE * Word \in Nat /\ n \in Nat  BY SMT
  <2>2. PICK B \in Nat : B = BMAP_SIZE * Word  BY <2>1
  <2>3. bmap \in SUBSET (0 .. B - 1)  BY <1>4, <2>2 DEF Blocks
  <2>4. Sample(Allocated(bmap, n), bmap, n)  BY <2>1, <2>3, AllocatedIsFree
  <2> QED  BY <1>2, <2>4 DEF Sample
<1>6. m \in Nat /\ m \in 0 .. D_ADDR_NUM  BY SMT
<1>7. PICK o \in 0 .. D_ADDR_NUM : t_fp.direct_addr \in [1 .. o -> Dirs \cup Blocks]  BY <1>4 DEF OpenInode
<1>8. PICK q \in Nat :
        /\ q = (IF m >= o THEN m ELSE o) /\ Over(new, t_fp.direct_addr) \in [1 .. q -> Dirs \cup Blocks]
        /\ \A k \in 1 .. q : Over(new, t_fp.direct_addr)[k] = IF k <= m THEN new[k] ELSE t_fp.direct_addr[k]
  <2>1. o \in Nat /\ Longer(m, o) \in Nat /\ Longer(m, o) = IF m >= o THEN m ELSE o  BY <1>6 DEF Longer
  <2>2. new \in [1 .. m -> Dirs \cup Blocks]  BY <1>4, <1>5
  <2>3. PICK old : old = t_fp.direct_addr  OBVIOUS
  <2>4. old \in [1 .. o -> Dirs \cup Blocks]  BY <1>7, <2>3
  <2>5. Covers(Over(new, old), new, m, old, o, Dirs \cup Blocks)  BY <1>6, <2>1, <2>2, <2>4, OverIs
  <2> QED  BY <2>1, <2>3, <2>5 DEF Covers
<1>9. q \in 0 .. D_ADDR_NUM  BY <1>6, <1>8
<1>10. t_fp' \in OpenInode
  <2>1. Over(new, t_fp.direct_addr) \in Addrs  BY <1>8, <1>9 DEF Addrs
  <2> QED  BY <1>3, <1>4, <2>1 DEF OpenInode, Addrs
<1>11. /\ t_fp' # None /\ t_fp'.i_into = t_fp.i_into /\ t_fp'.dir_or_file = t_fp.dir_or_file
       /\ t_fp'.parent_id = t_fp.parent_id /\ t_fp'.direct_addr = Over(new, t_fp.direct_addr)
  BY <1>3, <1>4, <1>10, NoneAssumption DEF OpenInode
<1>12. TypeOK'
  <2>1. bmap' \subseteq Blocks  BY <1>3, <1>4
  <2> QED  BY <1>1, <1>10, <2>1 DEF IInv, TypeOK, whereVars
<1>13. \A j \in Inodes : /\ (Node(j).dir_or_file)' = Node(j).dir_or_file
                         /\ (Node(j).parent_id)' = Node(j).parent_id
                         /\ (dinodes[j].direct_addr)' = dinodes[j].direct_addr
  BY <1>1, <1>11 DEF Node
<1>14. OpenFile'  BY <1>1, <1>4, <1>11 DEF OpenFile
<1>15. Kind' = Kind /\ TreeInv' /\ NodeInv' /\ Here'  BY <1>1, <1>12, <1>13, <1>14, TableKept
<1>16. PICK x \in Inodes : x = t_fp.i_into /\ x \in Files
  <2>1. t_fp.i_into \in Inodes /\ t_fp.i_into \notin imap /\ t_fp.dir_or_file = "file"  BY <1>1, <1>4 DEF OpenFile, OpenInode
  <2> QED  BY <1>1, <2>1 DEF Files, Kind, Node
<1>17. BlocksOnce'
  <2>1. Files' = Files /\ Files \subseteq Inodes  BY <1>1, <1>15 DEF Files
  <2>2. /\ Node(x).direct_addr = t_fp.direct_addr /\ (Node(x).direct_addr)' = Over(new, t_fp.direct_addr)
        /\ \A i \in Files : i # x => (Node(i).direct_addr)' = Node(i).direct_addr
    BY <1>1, <1>11, <1>16 DEF Node
  <2>3. /\ DOMAIN Over(new, t_fp.direct_addr) = 1 .. q /\ DOMAIN t_fp.direct_addr = 1 .. o
        /\ \A k \in 1 .. q : ~(k <= m) => k \in 1 .. o
        /\ \A k \in 1 .. q : k <= m => k \in 1 .. m
    <3>1. DOMAIN Over(new, t_fp.direct_addr) = 1 .. q /\ DOMAIN t_fp.direct_addr = 1 .. o  BY <1>7, <1>8
    <3>2. \A k \in 1 .. q : (~(k <= m) => k \in 1 .. o) /\ (k <= m => k \in 1 .. m)  BY <1>6, <1>8, SMT
    <3> QED  BY <3>1, <3>2
  (* A block of a file is one that it had, at the same place, or a new one of the open file. *)
  <2>4. ASSUME NEW i \in Files, NEW k \in DOMAIN (Node(i).direct_addr)'
        PROVE  \/ i = x /\ k \in 1 .. m /\ (Node(i).direct_addr)'[k] = new[k] /\ new[k] \in bmap
               \/ /\ k \in DOMAIN Node(i).direct_addr /\ (Node(i).direct_addr)'[k] = Node(i).direct_addr[k]
                  /\ Node(i).direct_addr[k] \in Blocks \ bmap
    <3>1. CASE i # x
      <4>1. (Node(i).direct_addr)' = Node(i).direct_addr  BY <2>2, <3>1
      <4>2. k \in DOMAIN Node(i).direct_addr  BY <2>4, <4>1
      <4>3. Node(i).direct_addr[k] \in Blocks \ bmap  BY <1>4, <4>2 DEF BlocksOnce
      <4> QED  BY <4>1, <4>2, <4>3
    <3>2. CASE i = x
      <4>1. k \in 1 .. q  BY <2>2, <2>3, <2>4, <3>2
      <4>2. CASE k <= m
        <5>1. k \in 1 .. m /\ (Node(i).direct_addr)'[k] = new[k]  BY <1>8, <2>2, <2>3, <3>2, <4>1, <4>2
        <5> QED  BY <1>5, <3>2, <5>1
      <4>3. CASE ~(k <= m)
        <5>1. (Node(i).direct_addr)'[k] = Node(i).direct_addr[k]  BY <1>8, <2>2, <3>2, <4>1, <4>3
        <5>2. k \in DOMAIN Node(i).direct_addr  BY <2>2, <2>3, <3>2, <4>1, <4>3
        <5>3. Node(i).direct_addr[k] \in Blocks \ bmap  BY <1>4, <5>2 DEF BlocksOnce
        <5> QED  BY <5>1, <5>2, <5>3
      <4> QED  BY <4>2, <4>3
    <3> QED  BY <3>1, <3>2
  <2>5. DOMAIN new = 1 .. m  BY <1>5
  <2>6. ASSUME NEW i \in Files, NEW k \in DOMAIN (Node(i).direct_addr)'
        PROVE  (Node(i).direct_addr)'[k] \in Blocks \ bmap'
    <3>1. CASE k \in 1 .. m /\ (Node(i).direct_addr)'[k] = new[k] /\ new[k] \in bmap  BY <1>3, <1>4, <2>5, <3>1
    <3>2. CASE (Node(i).direct_addr)'[k] \in Blocks \ bmap  BY <1>3, <3>2
    <3> QED  BY <2>4, <2>6, <3>1, <3>2
  <2>7. ASSUME NEW i \in Files, NEW j \in Files, NEW k \in DOMAIN (Node(i).direct_addr)', NEW l \in DOMAIN (Node(j).direct_addr)',
               (Node(i).direct_addr)'[k] = (Node(j).direct_addr)'[l]
        PROVE  i = j /\ k = l
    <3>1. CASE i = x /\ k \in 1 .. m /\ (Node(i).direct_addr)'[k] = new[k] /\ new[k] \in bmap
      <4>1. j = x /\ l \in 1 .. m /\ (Node(j).direct_addr)'[l] = new[l]  BY <2>4, <2>7, <3>1
      <4> QED  BY <1>5, <2>7, <3>1, <4>1
    <3>2. CASE /\ k \in DOMAIN Node(i).direct_addr /\ (Node(i).direct_addr)'[k] = Node(i).direct_addr[k]
               /\ Node(i).direct_addr[k] \in Blocks \ bmap
      <4>1. l \in DOMAIN Node(j).direct_addr /\ (Node(j).direct_addr)'[l] = Node(j).direct_addr[l]  BY <2>4, <2>7, <3>2
      <4>2. Node(i).direct_addr[k] = Node(j).direct_addr[l]  BY <2>7, <3>2, <4>1
      <4> QED  BY <1>4, <3>2, <4>1, <4>2 DEF BlocksOnce
    <3> QED  BY <2>4, <2>7, <3>1, <3>2
  <2> QED  BY <2>1, <2>6, <2>7 DEF BlocksOnce
<1> QED  BY <1>1, <1>11, <1>12, <1>15, <1>17 DEF IInv

-----------------------------------------------------------------------------
(* Commands that add an entry.                                             *)

\* The inode that is given out is not the root's, nor one in use.
LEMMA NewInode ==
  ASSUME IInv, Room
  PROVE  Alloc(imap) \in imap /\ Alloc(imap) \in Inodes /\ Alloc(imap) >= Word
<1>1. PICK B \in Nat : B = IMAP_SIZE * Word
  <2>1. IMAP_SIZE * Word \in Nat  BY SizesAreNumbers, SMT
  <2> QED  BY <2>1
<1>2. imap \in SUBSET (0 .. B - 1) /\ imap \subseteq Inodes  BY <1>1, TypeByName DEF IInv, Inodes
<1>3. PICK j \in imap : j >= Word  BY DEF Room
<1>4. Alloc(imap) \in imap /\ \A k \in imap : k >= Word => Alloc(imap) >= Word  BY <1>2, <1>3, AllocIsFree
<1> QED  BY <1>2, <1>3, <1>4

\* Nor is the directory: as long as there is a free inode there is a free place in
\* the table beyond the first word, where the root's is.
LEMMA NewDirectory ==
  ASSUME IInv, Room, dmap # {}
  PROVE  Alloc(dmap) \in dmap /\ Alloc(dmap) \in Dirs \ Taken
<1>1. PICK B \in Nat : B = DMAP_SIZE * Word
  <2>1. DMAP_SIZE * Word \in Nat  BY SizesAreNumbers, SMT
  <2> QED  BY <2>1
<1>2. dmap \in SUBSET (0 .. B - 1) /\ dmap \subseteq Dirs  BY <1>1, TypeByName DEF IInv, Dirs
<1>3. Alloc(dmap) \in dmap /\ \A k \in dmap : k >= Word => Alloc(dmap) >= Word  BY <1>2, AllocIsFree
<1>4. ASSUME \A k \in dmap : ~(k >= Word) PROVE FALSE
  <2> DEFINE D == Word .. (DMAP_SIZE - 1) * Word - 1
             I == Word .. IMAP_SIZE * Word - 1
  <2>1. PICK w \in Nat \ {0}, m \in Nat \ {0}, n \in Nat \ {0} : w = Word /\ m = DMAP_SIZE /\ n = IMAP_SIZE /\ n < m
    BY SizesAreNumbers
  <2>2. PICK mw \in Int, nw \in Int : mw = (m - 1) * w - 1 /\ nw = n * w - 1  BY SMT
  <2>3. nw <= mw /\ mw < m * w - 1
    <3>1. n <= m - 1 /\ n * w <= (m - 1) * w /\ (m - 1) * w = m * w - w  BY <2>1, SMT
    <3> QED  BY <2>2, <3>1, SMT
  <2>4. D = w .. mw /\ I = w .. nw  BY <2>1, <2>2
  <2>5. D \subseteq Dirs \ dmap /\ Reserved \notin D
    <3>1. \A d \in D : d >= Word /\ d \in 0 .. m * w - 1 /\ d # (m - 1) * w
      <4>1. \A d \in w .. mw : d >= w /\ d \in 0 .. m * w - 1 /\ d # (m - 1) * w
        <5>1. PICK z \in Int : z = (m - 1) * w  BY SMT
        <5>2. PICK y \in Int : y = m * w - 1 /\ mw < y  BY <2>3, SMT
        <5>3. mw = z - 1  BY <2>2, <5>1
        <5>4. \A d \in w .. mw : d >= w /\ d \in 0 .. y /\ d # z  BY <5>2, <5>3, SMT
        <5> QED  BY <5>1, <5>2, <5>4
      <4> QED  BY <2>1, <2>4, <4>1
    <3> QED  BY <1>4, <2>1, <3>1 DEF Dirs, Reserved
  <2>6. PICK i \in imap : i \in I
    <3>1. PICK i \in imap : i >= Word  BY DEF Room
    <3>2. i \in Inodes  BY TypeByName DEF IInv
    <3> QED  BY <2>1, <3>1, <3>2, SMT DEF Inodes
  <2> DEFINE f == [d \in D |-> dir_table[d].inode_id]
  <2>7. \A d \in D : /\ dir_table[d].inode_id >= Word /\ dir_table[d].inode_id \notin imap
                     /\ Stands(dir_table[d].inode_id, d) /\ dir_table[d].inode_id \in Inodes
    <3>1. \A d \in Dirs : dir_table[d].inode_id \in Inodes  BY TypeByName DEF IInv, Tables, Entry
    <3> QED  BY <2>5, <3>1 DEF IInv, NodeInv, OwnInode
  <2>8. f \in [D -> I \ {i}]
    <3>1. \A j \in Inodes : j >= Word => j \in I  BY <2>1, SMT DEF Inodes
    <3> QED  BY <2>6, <2>7, <3>1
  <2>9. \A d, c \in D : f[d] = f[c] => d = c  BY <2>7 DEF Stands
  <2> HIDE DEF f, D, I
  <2>10. IsFiniteSet(D) /\ IsFiniteSet(I) /\ i \in I  BY <2>4, <2>6, FS_Interval
  <2>11. Cardinality(D) = (IF w > mw THEN 0 ELSE mw - w + 1) /\ Cardinality(I) = (IF w > nw THEN 0 ELSE nw - w + 1)
    BY <2>4, FS_Interval
  <2>12. IsFiniteSet(I \ {i}) /\ Cardinality(I \ {i}) = Cardinality(I) - 1  BY <2>10, FS_RemoveElement
  <2>13. w <= nw
    <3>1. i \in w .. nw  BY <2>4, <2>6
    <3> QED  BY <3>1, SMT
  <2>14. Cardinality(I \ {i}) < Cardinality(D)  BY <2>3, <2>11, <2>12, <2>13
  <2>15. \E x, y \in D : x # y /\ f[x] = f[y]  BY <2>8, <2>10, <2>12, <2>14, FS_PigeonHole
  <2> QED  BY <2>9, <2>15
<1>5. PICK a \in dmap : a = Alloc(dmap) /\ a >= Word  BY <1>3, <1>4
<1>6. a # 0
  <2>1. Word # 0 /\ Word \in Nat  BY SizesAreNumbers
  <2> QED  BY <1>5, <2>1, SMT
<1> QED  BY <1>2, <1>5, <1>6 DEF Taken

\* A new name is none of the directory's, and a new entry is of the kind of the others.
LEMMA NewEntry ==
  ASSUME IInv, NEW x, Named(curr_dir_id, x) = {}, NEW kind, Only(kind), ~Mixed
  PROVE  /\ \A e \in Entries(dir_table, curr_dir_id) : e[1] # x /\ Kind[e[2]] = kind
         /\ curr_dir_id \in Taken
<1>1. dir_table \in Tables /\ curr_dir_id \in Dirs  BY TypeByName DEF IInv
<1>2. ASSUME NEW e \in Entries(dir_table, curr_dir_id) PROVE e[1] # x /\ Kind[e[2]] = kind
  <2>1. PICK s \in 0 .. dir_table[curr_dir_id].sub_cnt - 1 : e = SlotOf(dir_table, curr_dir_id, s)  BY DEF Entries
  <2>2. s \in Used(curr_dir_id) /\ s \in Slots  BY <1>1, <2>1, SlotsUsed DEF Used
  <2>3. dir_table[curr_dir_id].file_name[s] # x  BY <2>2 DEF Named
  <2>4. Node(dir_table[curr_dir_id].file_inode[s]).dir_or_file = kind  BY <2>2 DEF Only
  <2>5. e[1] = dir_table[curr_dir_id].file_name[s] /\ e[2] = dir_table[curr_dir_id].file_inode[s]  BY <2>1 DEF SlotOf
  <2>6. e[2] \in Inodes  BY <1>1, EntryTyped
  <2> QED  BY <2>3, <2>4, <2>5, <2>6 DEF Kind
<1>3. curr_dir_id \in Taken
  <2>1. curr_path \in Seq(Names)  BY TypeByName, PathsAreSeqs, EmptySeq DEF IInv
  <2> QED  BY <1>1, <2>1, LeadsTaken DEF IInv, Here, TreeInv
<1> QED  BY <1>2, <1>3

(* The current directory gets an entry with the name x, the new inode i    *)
(* and the place b: a file, or a directory that was not in use.            *)
Growth(x, i, b) ==
  /\ x \in Names /\ i \in imap /\ i \in Inodes /\ i >= Word /\ imap' = imap \ {i}
  /\ dir_table' \in Tables /\ dinodes' \in [Inodes -> DirInode] /\ t_fp' \in OpenInode \cup {None}
  /\ Taken \subseteq Taken' /\ Taken' \subseteq Dirs /\ curr_dir_id \in Taken /\ UNCHANGED whereVars
  /\ \A c \in Taken' \ Taken : Entries(dir_table', c) = {} /\ NamesOnce(dir_table', c)
  /\ \A c \in Taken : Entries(dir_table', c) = IF c = curr_dir_id THEN Entries(dir_table, c) \cup {<<x, i, b>>}
                                               ELSE Entries(dir_table, c)
  /\ \A c \in Taken : NamesOnce(dir_table', c)
  /\ \A c \in Taken : /\ dir_table'[c].d_name = dir_table[c].d_name /\ dir_table'[c].inode_id = dir_table[c].inode_id
                      /\ dir_table'[c].parent_id = dir_table[c].parent_id
  /\ \A j \in Inodes : j # i => /\ (Node(j).dir_or_file)' = Node(j).dir_or_file
                                /\ (Node(j).parent_id)' = Node(j).parent_id
                                /\ (dinodes[j].direct_addr)' = dinodes[j].direct_addr
  /\ Kind'[i] \in {"dir", "file"}
  /\ Kind'[i] = "dir" => ChildOf(dir_table', Taken', curr_dir_id, <<x, i, b>>) /\ Stands(i, b)' /\ b \notin Taken
  /\ Kind'[i] = "file" => (Node(i).parent_id)' = curr_dir_id
  /\ Grounded(dir_table')
  /\ \A e \in Entries(dir_table, curr_dir_id) : Kind[e[2]] = Kind'[i]

\* The new entry leaves all as it was.
LEMMA GrowthKeeps ==
  ASSUME IInv, NEW x, NEW i, NEW b, Growth(x, i, b)
  PROVE  /\ Grown(dir_table, Kind, Taken, dir_table', Kind', Taken', curr_path, curr_dir_id, <<x, i, b>>)
         /\ TreeInv' /\ Marks' /\ Sorted' /\ Here'
<1>1. PICK e0 : e0 = <<x, i, b>>  OBVIOUS
<1>2. e0[1] = x /\ e0[2] = i /\ e0[3] = b  BY <1>1
<1>3. PICK G : G = Taken  OBVIOUS
<1>4. /\ dir_table \in Tables /\ Forest(dir_table, Kind, G) /\ InodesOnce(dir_table, G) /\ G \subseteq Dirs
      /\ curr_path \in Seq(Names) /\ Leads(dir_table, Kind, curr_path, curr_dir_id)
      /\ Marks /\ Sorted
  BY <1>3, TypeByName, PathsAreSeqs, EmptySeq DEF IInv, TreeInv, NodeInv, Here, Forest
<1>5. /\ dir_table' \in Tables /\ G \subseteq Taken' /\ Taken' \subseteq Dirs /\ curr_dir_id \in G
      /\ \A c \in Taken' \ G : Entries(dir_table', c) = {} /\ NamesOnce(dir_table', c)
      /\ \A c \in G : Entries(dir_table', c) = IF c = curr_dir_id THEN Entries(dir_table, c) \cup {e0} ELSE Entries(dir_table, c)
      /\ \A c \in G : NamesOnce(dir_table', c)
  BY <1>1, <1>3 DEF Growth
<1>6. \A c \in G : /\ dir_table'[c].d_name = dir_table[c].d_name /\ dir_table'[c].inode_id = dir_table[c].inode_id
                   /\ dir_table'[c].parent_id = dir_table[c].parent_id
  BY <1>3 DEF Growth
<1>7. /\ i \in imap /\ i \in Inodes /\ i >= Word /\ imap' = imap \ {i} /\ x \in Names /\ i # 0
      /\ UNCHANGED <<curr_dir_id, curr_path>>
  <2>1. i \in Inodes /\ i >= Word /\ Word # 0 /\ Word \in Nat  BY SizesAreNumbers DEF Growth
  <2>2. i # 0  BY <2>1, SMT
  <2> QED  BY <2>2 DEF Growth, whereVars
<1>8. \A c \in G : \A e \in Entries(dir_table, c) : e[2] \in Inodes /\ e[2] \notin imap /\ e[2] >= Word /\ e[2] # i
  <2>1. \A c \in G : \A e \in Entries(dir_table, c) : e[2] \in Inodes  BY <1>4, EntryTyped
  <2> QED  BY <1>3, <1>4, <1>7, <2>1 DEF Marks
<1>9. \A c \in G : \A e \in Entries(dir_table, c) :
        /\ Kind'[e[2]] = Kind[e[2]] /\ (Node(e[2]).parent_id)' = Node(e[2]).parent_id
        /\ \A d : Stands(e[2], d) => Stands(e[2], d)'
  <2>1. \A j \in Inodes : j # i => Kind'[j] = Kind[j] /\ (Node(j).parent_id)' = Node(j).parent_id
                                   /\ (dinodes[j].direct_addr)' = dinodes[j].direct_addr
    BY DEF Growth, Kind
  <2> QED  BY <1>8, <2>1 DEF Stands
<1>10. /\ Kind'[i] \in {"dir", "file"} /\ (Kind'[i] = "dir" => ChildOf(dir_table', Taken', curr_dir_id, e0))
       /\ (Kind'[i] = "dir" => Stands(i, b)' /\ b \notin G) /\ (Kind'[i] = "file" => (Node(i).parent_id)' = curr_dir_id)
       /\ \A e \in Entries(dir_table, curr_dir_id) : Kind[e[2]] = Kind'[i]
  BY <1>1, <1>3 DEF Growth
<1>11. PICK u, ku, H : u \in Tables /\ u = dir_table' /\ ku = Kind' /\ H = Taken'  BY <1>5
<1>11a. u \in Tables  BY <1>11
<1>12. Forest(u, ku, H)
  <2>1. \A c \in G : \A e \in Entries(dir_table, c) : ku[e[2]] = Kind[e[2]]  BY <1>9, <1>11
  <2>2. e0[1] \in Names /\ e0[2] # 0 /\ ku[e0[2]] \in {"dir", "file"} /\ (ku[e0[2]] = "dir" => ChildOf(u, H, curr_dir_id, e0))
    BY <1>2, <1>7, <1>10, <1>11
  <2>3. /\ G \subseteq H /\ H \subseteq Dirs /\ curr_dir_id \in G
        /\ \A c \in H \ G : Entries(u, c) = {} /\ NamesOnce(u, c)
        /\ \A c \in G : Entries(u, c) = IF c = curr_dir_id THEN Entries(dir_table, c) \cup {e0} ELSE Entries(dir_table, c)
        /\ \A c \in G : NamesOnce(u, c)
        /\ \A c \in G : u[c].d_name = dir_table[c].d_name /\ u[c].inode_id = dir_table[c].inode_id /\ u[c].parent_id = dir_table[c].parent_id
    BY <1>5, <1>6, <1>11
  <2>4. PICK t, kd, c0 : t = dir_table /\ kd = Kind /\ c0 = curr_dir_id  OBVIOUS
  <2>5. t \in Tables /\ Forest(t, kd, G) /\ c0 \in G  BY <1>4, <2>3, <2>4
  <2>6. /\ \A c \in H \ G : Entries(u, c) = {} /\ NamesOnce(u, c)
        /\ \A c \in G : Entries(u, c) = IF c = c0 THEN Entries(t, c) \cup {e0} ELSE Entries(t, c)
        /\ \A c \in G : NamesOnce(u, c)
        /\ \A c \in G : u[c].d_name = t[c].d_name /\ u[c].inode_id = t[c].inode_id /\ u[c].parent_id = t[c].parent_id
        /\ \A c \in G : \A e \in Entries(t, c) : ku[e[2]] = kd[e[2]]
        /\ ku[e0[2]] = "dir" => ChildOf(u, H, c0, e0)
    BY <2>1, <2>2, <2>3, <2>4
  <2> HIDE <1>11
  <2> QED  BY <1>11a, <2>2, <2>3, <2>5, <2>6, ForestGrows
<1>13. Grown(dir_table, Kind, G, u, ku, H, curr_path, curr_dir_id, e0)
  BY <1>2, <1>4, <1>5, <1>9, <1>10, <1>11, <1>12 DEF Grown
(* Of an entry in the new table. *)
<1>14. ASSUME NEW c \in H, NEW e \in Entries(u, c)
       PROVE  c \in G /\ (e \in Entries(dir_table, c) \/ (c = curr_dir_id /\ e = e0))
  BY <1>5, <1>11
<1>15. InodesOnce(u, H)
  <2> SUFFICES ASSUME NEW d \in H, NEW c \in H, NEW e \in Entries(u, d), NEW f \in Entries(u, c), e[2] = f[2]
               PROVE  d = c /\ e = f
    BY DEF InodesOnce
  <2>1. /\ d \in G /\ (e \in Entries(dir_table, d) \/ (d = curr_dir_id /\ e = e0))
        /\ c \in G /\ (f \in Entries(dir_table, c) \/ (c = curr_dir_id /\ f = e0))
    BY <1>14
  <2>2. CASE e \in Entries(dir_table, d) /\ f \in Entries(dir_table, c)  BY <1>4, <2>1, <2>2 DEF InodesOnce
  <2>3. CASE e \in Entries(dir_table, d) /\ f = e0  BY <1>2, <1>8, <2>1, <2>3
  <2>4. CASE f \in Entries(dir_table, c) /\ e = e0  BY <1>2, <1>8, <2>1, <2>4
  <2> QED  BY <2>1, <2>2, <2>3, <2>4
<1>16. TreeInv'
  <2>1. Grounded(u)  BY <1>11 DEF Growth
  <2> QED  BY <1>11, <1>12, <1>15, <2>1 DEF TreeInv
<1>17. Marks'
  <2>1. ASSUME NEW c \in H, NEW e \in Entries(u, c)
        PROVE  /\ e[2] \notin imap' /\ e[2] >= Word
               /\ ku[e[2]] = "dir" => Stands(e[2], e[3])'
               /\ ku[e[2]] = "file" => (Node(e[2]).parent_id)' = c
    <3>1. CASE c \in G /\ e \in Entries(dir_table, c)
      <4>1. /\ e[2] \notin imap /\ e[2] >= Word /\ (Kind[e[2]] = "dir" => Stands(e[2], e[3]))
            /\ (Kind[e[2]] = "file" => Node(e[2]).parent_id = c)
        BY <1>3, <1>4, <3>1 DEF Marks
      <4>2. ku[e[2]] = Kind[e[2]] /\ (Node(e[2]).parent_id)' = Node(e[2]).parent_id /\ (Stands(e[2], e[3]) => Stands(e[2], e[3])')
        BY <1>9, <1>11, <3>1
      <4> QED  BY <1>7, <4>1, <4>2
    <3>2. CASE c = curr_dir_id /\ e = e0  BY <1>2, <1>7, <1>10, <1>11, <3>2
    <3> QED  BY <1>14, <3>1, <3>2
  <2> QED  BY <1>11, <2>1 DEF Marks
<1>18. Sorted'
  <2>1. ASSUME NEW c \in H, NEW e \in Entries(u, c), NEW f \in Entries(u, c) PROVE ku[e[2]] = ku[f[2]]
    <3>1. \A h \in Entries(u, c) : c \in G /\ (h \in Entries(dir_table, c) \/ (c = curr_dir_id /\ h = e0))  BY <1>14
    <3>2. c \in G => \A h \in Entries(dir_table, c) : ku[h[2]] = Kind[h[2]]  BY <1>9, <1>11
    <3>3. c \in G => \A g, h \in Entries(dir_table, c) : Kind[g[2]] = Kind[h[2]]  BY <1>3, <1>4 DEF Sorted
    <3>4. c = curr_dir_id => \A h \in Entries(dir_table, c) : Kind[h[2]] = ku[e0[2]]  BY <1>2, <1>10, <1>11
    <3> QED  BY <3>1, <3>2, <3>3, <3>4
  <2> QED  BY <1>11, <2>1 DEF Sorted
<1>19. Here'
  <2>1. \A p \in Seq(Names) : \A d :
          Leads(u, ku, p, d) <=>
            Leads(dir_table, Kind, p, d) \/ (ku[e0[2]] = "dir" /\ p = Append(curr_path, e0[1]) /\ d = e0[3])
    <3>1. PICK t, kd, cp, c0 : t = dir_table /\ kd = Kind /\ c0 = curr_dir_id /\ cp = curr_path  OBVIOUS
    <3>2. t \in Tables /\ Grown(t, kd, G, u, ku, H, cp, c0, e0)  BY <1>4, <1>13, <3>1
    <3>3. PathsGrow(t, kd, G, u, ku, H, cp, c0, e0)  BY <1>11a, <3>2, TreeGrows
    <3> QED  BY <3>1, <3>3 DEF PathsGrow
  <2>2. Leads(u, ku, curr_path, curr_dir_id)  BY <1>4, <2>1
  <2> QED  BY <1>7, <1>11, <2>2 DEF Here
<1> QED  BY <1>1, <1>3, <1>11, <1>13, <1>16, <1>17, <1>18, <1>19

\* A new directory: mkdir_t adds an entry for it, and what the table and the new inode
\* say of it agrees with the entry.
LEMMA MkdirKeeps ==
  ASSUME IInv, ~Mixed, NEW x \in Names, mkdir_t(x)
  PROVE  /\ \E i, s : /\ Growth(x, i, s) /\ Kind'[i] = "dir"
                      /\ \A j \in Inodes : j # i => (Node(j).direct_addr)' = Node(j).direct_addr
         /\ IInv'
<1>1. Room /\ Named(curr_dir_id, x) = {} /\ Only("dir") /\ dmap # {}  BY DEF mkdir_t
<1>2. PICK i \in Inodes : i = Alloc(imap) /\ i \in imap /\ i >= Word  BY <1>1, NewInode
<1>3. PICK s \in Dirs : s = Alloc(dmap) /\ s \in dmap /\ s \notin Taken  BY <1>1, NewDirectory
<1>4. PICK p \in Dirs : p = curr_dir_id  BY TypeByName DEF IInv
<1>5. p \in Taken /\ p # s /\ \A e \in Entries(dir_table, p) : e[1] # x /\ Kind[e[2]] = "dir"
  BY <1>1, <1>3, <1>4, NewEntry
<1>6. /\ dir_table \in Tables /\ dinodes \in [Inodes -> DirInode] /\ t_fp \in OpenInode \cup {None}
      /\ dmap \subseteq Dirs /\ imap \subseteq Inodes /\ Forest(dir_table, Kind, Taken)
  BY TypeByName DEF IInv, TreeInv
<1>7. PICK n : n = Added(dir_table[p], x, i, s)  OBVIOUS
<1>8. /\ n \in Entry /\ n.d_name = dir_table[p].d_name /\ n.inode_id = dir_table[p].inode_id
      /\ n.parent_id = dir_table[p].parent_id
      /\ \A u : u[p] = n => Entries(u, p) = Entries(dir_table, p) \cup {<<x, i, s>>}
      /\ \A u : u[p] = n /\ NamesOnce(dir_table, p) /\ (\A e \in Entries(dir_table, p) : e[1] # x) => NamesOnce(u, p)
  <2>1. dir_table[p].sub_cnt < DIR_INCLUDE_NUM  BY <1>1, <1>4 DEF Room
  <2> QED  BY <1>6, <1>7, <2>1, EntryAdded
<1>9. PICK m : m = NewDir(dir_table[s], x, i, p)  OBVIOUS
<1>10. m \in Entry /\ m.d_name = x /\ m.inode_id = i /\ m.parent_id = p /\ m.sub_cnt = 0
  <2>1. dir_table[s] \in Entry  BY <1>6 DEF Tables
  <2>2. dir_table[s].file_inode \in [Slots -> Inodes] /\ dir_table[s].sub_dir_ids \in [Slots -> Dirs]
    BY <2>1, Zenon DEF Entry
  <2>3. Cleared(dir_table[s].file_inode) \in [Slots -> Inodes] /\ Cleared(dir_table[s].sub_dir_ids) \in [Slots -> Dirs]
    BY <2>2, RootIsDir, ClearedTyped
  <2>4. 0 \in 0 .. DIR_INCLUDE_NUM  BY SizesAreNumbers, SMT
  <2> QED  BY <1>9, <2>1, <2>3, <2>4 DEF Entry, NewDir
<1>11. PICK u : u = dir_table'  OBVIOUS
<1>12. u = [[dir_table EXCEPT ![p] = n] EXCEPT ![s] = m]
  <2>1. [dir_table EXCEPT ![p] = n][s] = dir_table[s]  BY <1>5, <1>6 DEF Tables
  <2>2. u = [[dir_table EXCEPT ![p] = n] EXCEPT ![s] = NewDir([dir_table EXCEPT ![p] = n][s], x, i, p)]
    <3>1. dir_table' = [[dir_table EXCEPT ![curr_dir_id] = Added(@, x, Alloc(imap), Alloc(dmap))] EXCEPT
               ![Alloc(dmap)] = NewDir(@, x, Alloc(imap), curr_dir_id)]
      BY Zenon DEF mkdir_t
    <3>2. dir_table' = [[dir_table EXCEPT ![p] = Added(@, x, i, s)] EXCEPT ![s] = NewDir(@, x, i, p)]
      BY <1>2, <1>3, <1>4, <3>1
    <3> QED  BY <1>7, <1>11, <3>2
  <2> QED  BY <1>9, <2>1, <2>2
<1>13. u \in Tables /\ u[p] = n /\ u[s] = m /\ \A d \in Dirs : d # p /\ d # s => u[d] = dir_table[d]
  BY <1>5, <1>6, <1>8, <1>10, <1>12 DEF Tables
<1>14. /\ dmap' = dmap \ {s} /\ imap' = imap \ {i} /\ Taken' = Taken \cup {s}
       /\ bmap' = bmap /\ t_fp' = t_fp /\ whereVars' = whereVars
  BY <1>2, <1>3 DEF mkdir_t, Taken
<1>15. PICK a : a = Over(<<s>>, dinodes[i].direct_addr)  OBVIOUS
<1>16. a \in Addrs /\ a # <<>> /\ a[1] = s
  <2>1. dinodes[i].direct_addr \in Addrs  BY <1>6, NodeTyped
  <2>2. PICK o \in 0 .. D_ADDR_NUM : dinodes[i].direct_addr \in [1 .. o -> Dirs \cup Blocks]  BY <2>1 DEF Addrs
  <2>3. <<s>> \in [1 .. 1 -> Dirs \cup Blocks] /\ o \in Nat /\ 1 \in Nat  BY SMT
  <2>4. PICK old : old = dinodes[i].direct_addr  OBVIOUS
  <2>5. PICK new : new = <<s>>  OBVIOUS
  <2>6. Covers(Over(new, old), new, 1, old, o, Dirs \cup Blocks)  BY <2>2, <2>3, <2>4, <2>5, OverIs
  <2>7. Longer(1, o) \in 0 .. D_ADDR_NUM /\ 1 \in 1 .. Longer(1, o) /\ 1 <= 1 /\ <<s>>[1] = s
    BY <2>3, SizesAreNumbers, SMT DEF Longer
  <2>8. a \in [1 .. Longer(1, o) -> Dirs \cup Blocks] /\ a[1] = s  BY <1>15, <2>4, <2>5, <2>6, <2>7 DEF Covers
  <2>9. DOMAIN a # {} /\ DOMAIN <<>> = {}  BY <2>7, <2>8, SMT
  <2> QED  BY <2>7, <2>8, <2>9 DEF Addrs
<1>17. /\ dinodes' \in [Inodes -> DirInode] /\ dinodes'[i].dir_or_file = "dir" /\ dinodes'[i].direct_addr = a
       /\ \A j \in Inodes : j # i => dinodes'[j] = dinodes[j]
  <2>1. dinodes' = [dinodes EXCEPT ![i] = [dinodes[i] EXCEPT !.dir_or_file = "dir", !.direct_addr = a]]
    BY <1>2, <1>3, <1>6, <1>15 DEF mkdir_t
  <2>2. dinodes[i] \in DirInode  BY <1>6
  <2>3. [dinodes[i] EXCEPT !.dir_or_file = "dir", !.direct_addr = a] \in DirInode  BY <1>16, <2>2 DEF DirInode, Addrs
  <2>4. /\ [dinodes[i] EXCEPT !.dir_or_file = "dir", !.direct_addr = a].dir_or_file = "dir"
        /\ [dinodes[i] EXCEPT !.dir_or_file = "dir", !.direct_addr = a].direct_addr = a
    BY <2>2 DEF DirInode
  <2> QED  BY <1>6, <2>1, <2>3, <2>4
<1>18. /\ \A j \in Inodes : j # i => /\ (Node(j).dir_or_file)' = Node(j).dir_or_file
                                     /\ (Node(j).parent_id)' = Node(j).parent_id
                                     /\ (Node(j).direct_addr)' = Node(j).direct_addr
                                     /\ (dinodes[j].direct_addr)' = dinodes[j].direct_addr
       /\ Kind'[i] = "dir" /\ Stands(i, s)' /\ \A j \in Inodes : j # i => Kind'[j] = Kind[j]
  <2>1. t_fp # None => t_fp.i_into # i  BY <1>2 DEF IInv, NodeInv, OpenFile
  <2>2. \A j \in Inodes : j # i => Node(j)' = Node(j)  BY <1>14, <1>17 DEF Node
  <2>3. Node(i)' = dinodes'[i]  BY <1>14, <2>1 DEF Node
  <2> QED  BY <1>16, <1>17, <2>2, <2>3 DEF Kind, Stands
<1>19. Growth(x, i, s)
  <2>1. Entries(u, s) = {} /\ NamesOnce(u, s)
    <3>1. u[s].sub_cnt = 0 /\ 0 .. 0 - 1 = {}  BY <1>10, <1>13, SMT
    <3> QED  BY <3>1 DEF Entries, NamesOnce
  <2>2. \A c \in Taken : c \in Dirs /\ c # s  BY <1>3, <1>6 DEF Forest
  <2>3. Entries(u, p) = Entries(dir_table, p) \cup {<<x, i, s>>} /\ NamesOnce(u, p)
    BY <1>5, <1>6, <1>8, <1>13 DEF Forest
  <2>4. \A c \in Taken : c # p => Entries(u, c) = Entries(dir_table, c) /\ NamesOnce(u, c)
    <3> SUFFICES ASSUME NEW c \in Taken, c # p PROVE Entries(u, c) = Entries(dir_table, c) /\ NamesOnce(u, c)  OBVIOUS
    <3>1. u[c] = dir_table[c]  BY <1>13, <2>2
    <3>2. NamesOnce(dir_table, c)  BY <1>6 DEF Forest
    <3> QED  BY <3>1, <3>2, SameSlots
  <2>5. \A c \in Taken : u[c].d_name = dir_table[c].d_name /\ u[c].inode_id = dir_table[c].inode_id /\ u[c].parent_id = dir_table[c].parent_id
    BY <1>8, <1>13, <2>2
  <2>6. ChildOf(u, Taken', p, <<x, i, s>>)
    <3>1. s # 0 /\ s \in Taken'  BY <1>3, <1>14 DEF Taken
    <3> QED  BY <1>10, <1>13, <3>1 DEF ChildOf
  <2>7. Grounded(u)
    <3>1. \A d \in Dirs : u[d].parent_id = IF d = s THEN p ELSE dir_table[d].parent_id  BY <1>8, <1>10, <1>13
    <3>2. curr_path \in Seq(Names) /\ Leads(dir_table, Kind, curr_path, p) /\ Grounded(dir_table)
      BY <1>4, TypeByName, PathsAreSeqs, EmptySeq DEF IInv, Here, TreeInv
    <3>3. PICK t, kd, cp, G : t = dir_table /\ kd = Kind /\ cp = curr_path /\ G = Taken  OBVIOUS
    <3>4. /\ t \in Tables /\ Forest(t, kd, G) /\ Grounded(t) /\ cp \in Seq(Names) /\ Leads(t, kd, cp, p)
          /\ s \in Dirs \ G /\ u \in Tables /\ \A d \in Dirs : u[d].parent_id = IF d = s THEN p ELSE t[d].parent_id
      BY <1>3, <1>6, <1>13, <3>1, <3>2, <3>3
    <3> QED  BY <3>4, GroundedGrows
  <2>8. Taken' \subseteq Dirs /\ Taken \subseteq Taken' /\ Taken' \ Taken \subseteq {s}  BY <1>6, <1>14 DEF Forest
  <2>9. <<x, i, s>>[2] = i  OBVIOUS
  <2>10. \A e \in Entries(dir_table, p) : Kind[e[2]] = Kind'[i]  BY <1>5, <1>18
  <2>11. \A c \in Taken : Entries(u, c) = IF c = p THEN Entries(dir_table, c) \cup {<<x, i, s>>} ELSE Entries(dir_table, c)
    BY <2>3, <2>4
  <2>12. \A c \in Taken : NamesOnce(u, c)  BY <2>3, <2>4
  <2> HIDE <1>2, <1>3, <1>4, <1>11
  <2>13. i \in imap /\ i \in Inodes /\ i >= Word  BY <1>2
  <2>14. s \notin Taken /\ p = curr_dir_id /\ u = dir_table'  BY <1>3, <1>4, <1>11
  <2>15. Kind'[i] # "file" /\ Kind'[i] \in {"dir", "file"} /\ Stands(i, s)'  BY <1>18
  <2>16. \A c \in Taken' \ Taken : Entries(u, c) = {} /\ NamesOnce(u, c)  BY <2>1, <2>8
  <2>17. t_fp' \in OpenInode \cup {None}  BY <1>6, <1>14
  <2> QED  BY <1>5, <1>13, <1>14, <1>17, <1>18, <2>5, <2>6, <2>7, <2>8, <2>10, <2>11, <2>12, <2>13, <2>14, <2>15, <2>16, <2>17
           DEF Growth
<1>20. TreeInv' /\ Marks' /\ Sorted' /\ Here'  BY <1>19, GrowthKeeps
<1>21. OwnInode'
  <2>1. ASSUME NEW d \in Dirs \ dmap', d # Reserved
        PROVE  LET j == u[d].inode_id
               IN j >= Word /\ j \notin imap' /\ Kind'[j] = "dir" /\ Stands(j, d)'
    <3>1. CASE d = s  BY <1>2, <1>10, <1>13, <1>14, <1>18, <3>1
    <3>2. CASE d # s
      <4>1. PICK j \in Inodes : j = dir_table[d].inode_id  BY <1>6 DEF Tables, Entry
      <4>2. j >= Word /\ j \notin imap /\ Kind[j] = "dir" /\ Stands(j, d)
        BY <1>14, <2>1, <3>2, <4>1 DEF IInv, NodeInv, OwnInode
      <4>3. j # i /\ u[d].inode_id = j  BY <1>2, <1>8, <1>13, <3>2, <4>1, <4>2
      <4>4. Kind'[j] = Kind[j] /\ Stands(j, d)'  BY <1>18, <4>2, <4>3 DEF Stands
      <4> QED  BY <1>14, <4>2, <4>3, <4>4
    <3> QED  BY <3>1, <3>2
  <2> QED  BY <1>11, <2>1 DEF OwnInode, Reserved
<1>22. OpenFile'  BY <1>14 DEF IInv, NodeInv, OpenFile
<1>23. BlocksOnce'
  <2>1. Files' \subseteq Files /\ i \notin Files' /\ Files \subseteq Inodes  BY <1>2, <1>14, <1>18 DEF Files
  <2>2. \A j \in Files' : (Node(j).direct_addr)' = Node(j).direct_addr  BY <1>18, <2>1
  <2> QED  BY <1>14, <2>1, <2>2 DEF IInv, BlocksOnce
<1>24. TypeOK'
  <2>1. /\ dmap' \subseteq Dirs /\ imap' \subseteq Inodes /\ bmap' \subseteq Blocks /\ curr_dir_id' \in Dirs
        /\ curr_path' \in Paths \cup {<<>>}
    BY <1>14, TypeByName DEF IInv, whereVars
  <2>2. dir_table' \in Tables /\ dinodes' \in [Inodes -> DirInode] /\ t_fp' \in OpenInode \cup {None}
    BY <1>6, <1>11, <1>13, <1>14, <1>17
  <2> QED  BY <2>1, <2>2 DEF TypeOK, Tables, Entry
<1> QED  BY <1>18, <1>19, <1>20, <1>21, <1>22, <1>23, <1>24 DEF IInv, NodeInv

\* A new file: create_f adds an entry for it, and its inode in memory has no blocks.
LEMMA CreateKeeps ==
  ASSUME IInv, ~Mixed, NEW x \in Names, create_f(x)
  PROVE  /\ \E i, b : Growth(x, i, b) /\ Kind'[i] = "file" /\ (Node(i).direct_addr)' = <<>>
                      /\ \A j \in Inodes : j # i => (Node(j).direct_addr)' = Node(j).direct_addr
         /\ IInv'
<1>1. Room /\ Named(curr_dir_id, x) = {} /\ Only("file") /\ t_fp = None  BY DEF create_f
<1>2. PICK i \in Inodes : i = Alloc(imap) /\ i \in imap /\ i >= Word  BY <1>1, NewInode
<1>3. PICK p \in Dirs : p = curr_dir_id  BY TypeByName DEF IInv
<1>4. p \in Taken /\ \A e \in Entries(dir_table, p) : e[1] # x /\ Kind[e[2]] = "file"  BY <1>1, <1>3, NewEntry
<1>5. /\ dir_table \in Tables /\ dinodes \in [Inodes -> DirInode]
      /\ dmap \subseteq Dirs /\ imap \subseteq Inodes /\ Forest(dir_table, Kind, Taken)
  BY TypeByName DEF IInv, TreeInv
<1>6. PICK b \in Dirs : b = dir_table[p].sub_dir_ids[dir_table[p].sub_cnt]
  <2>1. dir_table[p].sub_cnt < DIR_INCLUDE_NUM /\ dir_table[p].sub_cnt \in Nat  BY <1>1, <1>3, <1>5, SlotsUsed DEF Room
  <2>2. dir_table[p].sub_cnt \in Slots  BY <2>1, SizesAreNumbers, SMT DEF Slots
  <2> QED  BY <1>5, <2>2, SlotsUsed
<1>7. PICK n : n = Added(dir_table[p], x, i, b)  OBVIOUS
<1>8. /\ n \in Entry /\ n.d_name = dir_table[p].d_name /\ n.inode_id = dir_table[p].inode_id
      /\ n.parent_id = dir_table[p].parent_id
      /\ \A u : u[p] = n => Entries(u, p) = Entries(dir_table, p) \cup {<<x, i, b>>}
      /\ \A u : u[p] = n /\ NamesOnce(dir_table, p) /\ (\A e \in Entries(dir_table, p) : e[1] # x) => NamesOnce(u, p)
  <2>1. dir_table[p].sub_cnt < DIR_INCLUDE_NUM  BY <1>1, <1>3 DEF Room
  <2> QED  BY <1>5, <1>7, <2>1, EntryAdded
<1>9. PICK u : u = dir_table'  OBVIOUS
<1>10. u = [dir_table EXCEPT ![p] = n]
  <2>1. dir_table' = [dir_table EXCEPT ![curr_dir_id] = Added(@, x, Alloc(imap), @.sub_dir_ids[@.sub_cnt])]  BY DEF create_f
  <2> QED  BY <1>2, <1>3, <1>6, <1>7, <1>9, <2>1
<1>11. u \in Tables /\ u[p] = n /\ \A d \in Dirs : d # p => u[d] = dir_table[d]
  BY <1>5, <1>8, <1>10 DEF Tables
<1>12. /\ imap' = imap \ {i} /\ Taken' = Taken
       /\ dmap' = dmap /\ bmap' = bmap /\ dinodes' = dinodes /\ whereVars' = whereVars
  BY <1>2 DEF create_f, Taken
<1>13. /\ t_fp' \in OpenInode /\ t_fp' # None /\ t_fp'.i_into = i /\ t_fp'.dir_or_file = "file"
       /\ t_fp'.parent_id = p /\ t_fp'.direct_addr = <<>>
  <2>1. t_fp' = InMemory([NoInode EXCEPT !.dir_or_file = "file", !.parent_id = p], i)  BY <1>2, <1>3 DEF create_f
  <2>2. t_fp' = [i_into |-> i, dir_or_file |-> "file", parent_id |-> p, direct_addr |-> <<>>]
    BY <2>1 DEF InMemory, NoInode
  <2>3. <<>> \in Addrs
    <3>1. <<>> \in [1 .. 0 -> Dirs \cup Blocks] /\ 0 \in 0 .. D_ADDR_NUM  BY SizesAreNumbers, SMT
    <3> QED  BY <3>1 DEF Addrs
  <2>4. t_fp' \in OpenInode  BY <2>2, <2>3 DEF OpenInode, Addrs
  <2> QED  BY <2>2, <2>4, NoneAssumption
<1>14. /\ \A j \in Inodes : j # i => Node(j)' = Node(j)
       /\ Node(i)' = t_fp' /\ Kind'[i] = "file" /\ \A j \in Inodes : j # i => Kind'[j] = Kind[j]
  <2>1. \A j \in Inodes : j # i => Node(j)' = Node(j)  BY <1>1, <1>12, <1>13 DEF Node
  <2>2. Node(i)' = t_fp'  BY <1>13 DEF Node
  <2> QED  BY <1>13, <2>1, <2>2 DEF Kind
<1>15. Growth(x, i, b)
  <2>1. \A c \in Taken : c \in Dirs  BY <1>5 DEF Forest
  <2>2. Entries(u, p) = Entries(dir_table, p) \cup {<<x, i, b>>} /\ NamesOnce(u, p)
    BY <1>4, <1>5, <1>8, <1>11 DEF Forest
  <2>3. \A c \in Taken : c # p => Entries(u, c) = Entries(dir_table, c) /\ NamesOnce(u, c)
    <3> SUFFICES ASSUME NEW c \in Taken, c # p PROVE Entries(u, c) = Entries(dir_table, c) /\ NamesOnce(u, c)  OBVIOUS
    <3>1. u[c] = dir_table[c]  BY <1>11, <2>1
    <3>2. NamesOnce(dir_table, c)  BY <1>5 DEF Forest
    <3> QED  BY <3>1, <3>2, SameSlots
  <2>4. \A c \in Dirs : u[c].d_name = dir_table[c].d_name /\ u[c].inode_id = dir_table[c].inode_id /\ u[c].parent_id = dir_table[c].parent_id
    BY <1>8, <1>11
  <2>5. Grounded(u)
    <3>1. Grounded(dir_table)  BY DEF IInv, TreeInv
    <3> QED  BY <2>4, <3>1 DEF Grounded
  <2>6. \A e \in Entries(dir_table, p) : Kind[e[2]] = Kind'[i]  BY <1>4, <1>14
  <2>7. \A c \in Taken : Entries(u, c) = IF c = p THEN Entries(dir_table, c) \cup {<<x, i, b>>} ELSE Entries(dir_table, c)
    BY <2>2, <2>3
  <2>8. \A c \in Taken : NamesOnce(u, c)  BY <2>2, <2>3
  <2> HIDE <1>2, <1>3, <1>6, <1>9
  <2>9. i \in imap /\ i \in Inodes /\ i >= Word  BY <1>2
  <2>10. p = curr_dir_id /\ u = dir_table'  BY <1>3, <1>9
  <2>11. Kind'[i] # "dir" /\ Kind'[i] \in {"dir", "file"} /\ (Node(i).parent_id)' = p  BY <1>13, <1>14
  <2>12. \A c \in Taken' \ Taken : Entries(u, c) = {} /\ NamesOnce(u, c)  BY <1>12
  <2>13. t_fp' \in OpenInode \cup {None} /\ dinodes' \in [Inodes -> DirInode]  BY <1>5, <1>12, <1>13
  <2>14. Taken \subseteq Taken' /\ Taken' \subseteq Dirs  BY <1>12, <2>1
  <2>15. \A j \in Inodes : j # i => /\ (Node(j).dir_or_file)' = Node(j).dir_or_file
                                    /\ (Node(j).parent_id)' = Node(j).parent_id
                                    /\ (dinodes[j].direct_addr)' = dinodes[j].direct_addr
    BY <1>12, <1>14
  <2> QED  BY <1>4, <1>11, <1>12, <2>1, <2>4, <2>5, <2>6, <2>7, <2>8, <2>9, <2>10, <2>11, <2>12, <2>13, <2>14, <2>15
           DEF Growth
<1>16. TreeInv' /\ Marks' /\ Sorted' /\ Here'  BY <1>15, GrowthKeeps
<1>17. OwnInode'
  <2>1. ASSUME NEW d \in Dirs \ dmap', d # Reserved
        PROVE  LET j == u[d].inode_id
               IN j >= Word /\ j \notin imap' /\ Kind'[j] = "dir" /\ Stands(j, d)'
    <3>1. PICK j \in Inodes : j = dir_table[d].inode_id  BY <1>5 DEF Tables, Entry
    <3>2. j >= Word /\ j \notin imap /\ Kind[j] = "dir" /\ Stands(j, d)
      BY <1>12, <2>1, <3>1 DEF IInv, NodeInv, OwnInode
    <3>3. j # i /\ u[d].inode_id = j  BY <1>2, <1>8, <1>11, <3>1, <3>2
    <3>4. Kind'[j] = Kind[j] /\ Stands(j, d)'  BY <1>12, <1>14, <3>2, <3>3 DEF Stands
    <3> QED  BY <1>12, <3>2, <3>3, <3>4
  <2> QED  BY <1>9, <2>1 DEF OwnInode, Reserved
<1>18. OpenFile'  BY <1>12, <1>13 DEF OpenFile
<1>19. BlocksOnce'
  <2>1. Files' \subseteq Files \cup {i} /\ Files \subseteq Inodes /\ i \notin Files  BY <1>2, <1>12, <1>14 DEF Files
  <2>2. /\ \A j \in Files : (Node(j).direct_addr)' = Node(j).direct_addr
        /\ (Node(i).direct_addr)' = <<>> /\ DOMAIN <<>> = {}
    BY <1>13, <1>14, <2>1, SMT
  <2> QED  BY <1>12, <2>1, <2>2 DEF IInv, BlocksOnce
<1>20. TypeOK'
  <2>1. /\ dmap' \subseteq Dirs /\ imap' \subseteq Inodes /\ bmap' \subseteq Blocks /\ curr_dir_id' \in Dirs
        /\ curr_path' \in Paths \cup {<<>>}
    BY <1>12, TypeByName DEF IInv, whereVars
  <2>2. dir_table' \in Tables /\ dinodes' \in [Inodes -> DirInode] /\ t_fp' \in OpenInode \cup {None}
    BY <1>5, <1>9, <1>11, <1>12, <1>13
  <2> QED  BY <2>1, <2>2 DEF TypeOK, Tables, Entry
<1> QED  BY <1>13, <1>14, <1>15, <1>16, <1>17, <1>18, <1>19, <1>20 DEF IInv, NodeInv

-----------------------------------------------------------------------------
(* Commands that remove an entry.                                          *)

(* Entry e of directory c, at path q, is removed, and if it is a directory *)
(* is not in use any more.                                                 *)
Shrinkage(q, c, e) ==
  /\ IsEntry(dir_table, Kind, Taken, q, c, e) /\ ~Below(curr_path, q)
  /\ \E s \in 0 .. dir_table[c].sub_cnt - 1 :
       SlotOf(dir_table, c, s) = e /\ dir_table' = [dir_table EXCEPT ![c] = Shrunk(@, {s})]
  /\ Taken' = IF Kind[e[2]] = "dir" THEN Taken \ {e[3]} ELSE Taken
  /\ imap' \subseteq imap \cup {e[2]}
  /\ UNCHANGED <<bmap, dinodes, t_fp, whereVars>>

\* The removal leaves the rest as it was.
LEMMA ShrinkageKeeps ==
  ASSUME IInv, NEW q, NEW c, NEW e, Shrinkage(q, c, e)
  PROVE  /\ Pruned(dir_table, Kind, Taken, dir_table', Kind', Taken', q, c, e)
         /\ TreeInv' /\ Marks' /\ Sorted' /\ Here' /\ Kind' = Kind
         /\ dir_table' \in Tables /\ \A d \in Dirs : dir_table'[d].inode_id = dir_table[d].inode_id
<1>1. PICK G, kd, t : G = Taken /\ kd = Kind /\ t = dir_table  OBVIOUS
<1>2. PICK H, u : H = Taken' /\ u = dir_table'  OBVIOUS
<1>3. /\ t \in Tables /\ Forest(t, kd, G) /\ InodesOnce(t, G) /\ G \subseteq Dirs /\ Grounded(t)
      /\ curr_path \in Seq(Names) /\ Leads(t, kd, curr_path, curr_dir_id)
  BY <1>1, TypeByName, PathsAreSeqs, EmptySeq DEF IInv, TreeInv, Here, Forest
<1>4. Kind' = Kind  BY DEF Shrinkage, Kind, Node
<1>5. /\ IsEntry(t, kd, G, q, c, e) /\ c \in G /\ e \in Entries(t, c) /\ ~Below(curr_path, q)
      /\ H = IF kd[e[2]] = "dir" THEN G \ {e[3]} ELSE G
  BY <1>1, <1>2 DEF Shrinkage, IsEntry
<1>6. PICK s \in 0 .. t[c].sub_cnt - 1 : SlotOf(t, c, s) = e /\ u = [t EXCEPT ![c] = Shrunk(t[c], {s})]
  BY <1>1, <1>2 DEF Shrinkage
<1>7. PICK n : n = Shrunk(t[c], {s})  OBVIOUS
<1>8. c \in Dirs /\ NamesOnce(t, c)  BY <1>3, <1>5 DEF Forest
<1>9. /\ n \in Entry /\ n.d_name = t[c].d_name /\ n.inode_id = t[c].inode_id /\ n.parent_id = t[c].parent_id
      /\ \A w : w[c] = n => Entries(w, c) = Entries(t, c) \ {SlotOf(t, c, s)} /\ NamesOnce(w, c)
  <2>1. SlotAway(t, c, s, n)  BY <1>3, <1>7, <1>8, EntryShrunk
  <2> QED  BY <2>1 DEF SlotAway
<1>10. u \in Tables /\ u[c] = n /\ \A d \in Dirs : d # c => u[d] = t[d]
  BY <1>3, <1>6, <1>7, <1>8, <1>9 DEF Tables
<1>11. \A d \in Dirs : u[d].d_name = t[d].d_name /\ u[d].inode_id = t[d].inode_id /\ u[d].parent_id = t[d].parent_id
  BY <1>9, <1>10
<1>12. /\ \A d \in H : Entries(u, d) = IF d = c THEN Entries(t, d) \ {e} ELSE Entries(t, d)
       /\ \A d \in H : NamesOnce(u, d) /\ d \in G /\ d \in Dirs
  <2>1. Entries(u, c) = Entries(t, c) \ {e} /\ NamesOnce(u, c)  BY <1>6, <1>9, <1>10
  <2>2. \A d \in H : d \in G /\ d \in Dirs  BY <1>3, <1>5
  <2>3. ASSUME NEW d \in H, d # c PROVE Entries(u, d) = Entries(t, d) /\ NamesOnce(u, d)
    <3>1. u[d] = t[d]  BY <1>10, <2>2, <2>3
    <3>2. NamesOnce(t, d)  BY <1>3, <2>2 DEF Forest
    <3> QED  BY <3>1, <3>2, SameSlots
  <2> QED  BY <2>1, <2>2, <2>3
<1> HIDE <1>1, <1>2
<1>13. Forest(u, kd, H) /\ c \in H
  <2>1. Removal(t, kd, G, u, kd, H, c, e)  BY <1>5, <1>11, <1>12 DEF Removal
  <2> QED  BY <1>3, <1>10, <2>1, ForestShrinks
<1>14. Pruned(t, kd, G, u, kd, H, q, c, e)  BY <1>3, <1>5, <1>12, <1>13 DEF Pruned
<1>15. \A d \in H : \A f \in Entries(u, d) : d \in G /\ f \in Entries(t, d) /\ ~(d = c /\ f = e)  BY <1>12
<1>16. InodesOnce(u, H)
  <2>1. ASSUME NEW d \in H, NEW b \in H, NEW f \in Entries(u, d), NEW g \in Entries(u, b), f[2] = g[2]
        PROVE  d = b /\ f = g
    BY <1>3, <1>15, <2>1 DEF InodesOnce
  <2> QED  BY <2>1 DEF InodesOnce
<1>17. Grounded(u)  BY <1>3, <1>11 DEF Grounded
<1>18. TreeInv'  BY <1>1, <1>2, <1>4, <1>13, <1>16, <1>17 DEF TreeInv
<1>19. Marks'
  <2>1. ASSUME NEW d \in H, NEW f \in Entries(u, d)
        PROVE  /\ f[2] \notin imap' /\ f[2] >= Word
               /\ kd[f[2]] = "dir" => Stands(f[2], f[3])'
               /\ kd[f[2]] = "file" => (Node(f[2]).parent_id)' = d
    <3>1. d \in G /\ f \in Entries(t, d) /\ ~(d = c /\ f = e)  BY <1>15
    <3>2. f[2] # e[2]  BY <1>3, <1>5, <3>1 DEF InodesOnce
    <3>3. f[2] \notin imap'
      <4>1. f[2] \notin imap  BY <1>1, <3>1 DEF IInv, NodeInv, Marks
      <4> QED  BY <3>2, <4>1 DEF Shrinkage
    <3>4. /\ f[2] >= Word /\ (kd[f[2]] = "dir" => Stands(f[2], f[3]))
          /\ (kd[f[2]] = "file" => Node(f[2]).parent_id = d)
      BY <1>1, <3>1 DEF IInv, NodeInv, Marks
    <3>5. /\ Stands(f[2], f[3]) => Stands(f[2], f[3])'
          /\ (Node(f[2]).parent_id)' = Node(f[2]).parent_id
      BY DEF Shrinkage, Stands, Node
    <3> QED  BY <3>3, <3>4, <3>5
  <2> QED  BY <1>1, <1>2, <1>4, <2>1 DEF Marks
<1>20. Sorted'
  <2>1. \A d \in G : \A f, g \in Entries(t, d) : kd[f[2]] = kd[g[2]]  BY <1>1 DEF IInv, NodeInv, Sorted
  <2>2. \A d \in H : \A f, g \in Entries(u, d) : kd[f[2]] = kd[g[2]]  BY <1>15, <2>1
  <2> QED  BY <1>1, <1>2, <1>4, <2>2 DEF Sorted
<1>21. Here'
  <2>1. PathsShrink(t, kd, G, u, kd, H, q)  BY <1>3, <1>10, <1>14, TreeShrinks
  <2>2. Leads(u, kd, curr_path, curr_dir_id)  BY <1>3, <1>5, <2>1 DEF PathsShrink
  <2>3. curr_path' = curr_path /\ curr_dir_id' = curr_dir_id  BY DEF Shrinkage, whereVars
  <2> QED  BY <1>1, <1>2, <1>4, <2>2, <2>3 DEF Here
<1> QED  BY <1>1, <1>2, <1>4, <1>10, <1>11, <1>14, <1>18, <1>19, <1>20, <1>21

\* Removing the directory at path.
LEMMA RmdirKeeps ==
  ASSUME IInv, NEW path \in Paths, rmdir_t(path)
  PROVE  /\ \E c, e : Shrinkage(path, c, e)
         /\ IInv'
<1>1. Exists(path) /\ IsDirectory(path) /\ ~Below(curr_path, path)  BY DEF rmdir_t
<1>2. PICK c \in Taken : \E e \in Entries(dir_table, c) :
           /\ IsEntry(dir_table, Kind, Taken, path, c, e) /\ find(path).inode = e[2]
           /\ e[2] \in Inodes \ imap /\ e[3] \in Dirs /\ c \in Dirs /\ Kind[e[2]] = "dir"
  BY <1>1, EntryOfPath
<1>3. PICK e \in Entries(dir_table, c) :
           /\ IsEntry(dir_table, Kind, Taken, path, c, e) /\ find(path).inode = e[2]
           /\ e[2] \in Inodes \ imap /\ e[3] \in Dirs /\ c \in Dirs /\ Kind[e[2]] = "dir"
  BY <1>2
<1>4. PICK d \in Dirs : d = e[3]  BY <1>3
<1>5. Stands(e[2], d) /\ ChildOf(dir_table, Taken, c, e)
  BY <1>3, <1>4 DEF IInv, NodeInv, Marks, TreeInv, Forest
<1>6. dinodes[find(path).inode].direct_addr[1] = d /\ dir_table[d].parent_id = c /\ d \in Taken /\ d # 0
  BY <1>3, <1>4, <1>5 DEF Stands, ChildOf
<1>7. dir_table \in Tables /\ c \in Dirs  BY <1>3, TypeByName DEF IInv
<1>8. PICK s \in 0 .. dir_table[c].sub_cnt - 1 : e = SlotOf(dir_table, c, s)  BY DEF Entries
<1>9. {r \in Used(c) \cap Slots : dir_table[c].sub_dir_ids[r] = d} = {s}
  <2>1. s \in Used(c) \cap Slots /\ dir_table[c].sub_dir_ids[s] = d  BY <1>4, <1>7, <1>8, SlotsUsed DEF SlotOf, Used
  <2>2. ASSUME NEW r \in Used(c), dir_table[c].sub_dir_ids[r] = d PROVE r = s
    <3>1. PICK f : f = SlotOf(dir_table, c, r)  OBVIOUS
    <3>2. f \in Entries(dir_table, c) /\ f[3] = d  BY <2>2, <3>1 DEF Entries, Used, SlotOf
    <3>3. Kind[f[2]] = "dir"  BY <1>2, <1>3, <3>2 DEF IInv, NodeInv, Sorted
    <3>4. ChildOf(dir_table, Taken, c, f)  BY <1>2, <3>2, <3>3 DEF IInv, TreeInv, Forest
    <3>5. f[1] = e[1]  BY <1>4, <1>5, <3>2, <3>4 DEF ChildOf
    <3>6. dir_table[c].file_name[r] = dir_table[c].file_name[s]  BY <1>8, <3>1, <3>5 DEF SlotOf
    <3>7. NamesOnce(dir_table, c)  BY <1>2 DEF IInv, TreeInv, Forest
    <3> QED  BY <3>6, <3>7 DEF NamesOnce, Used
  <2> QED  BY <2>1, <2>2
<1>10. /\ dir_table' = [dir_table EXCEPT ![c] = Shrunk(@, {s})]
       /\ dmap' = Freed(dmap, d)
       /\ UNCHANGED <<imap, bmap, dinodes, t_fp, whereVars>>
  BY <1>6, <1>9 DEF rmdir_t
<1>11. d \notin dmap /\ dmap' = dmap \cup {d}  BY <1>6, <1>10 DEF Taken, Freed
<1>12. Taken' = Taken \ {d}  BY <1>6, <1>11 DEF Taken
<1>13. Shrinkage(path, c, e)  BY <1>1, <1>3, <1>4, <1>8, <1>10, <1>12 DEF Shrinkage
<1>14. /\ TreeInv' /\ Marks' /\ Sorted' /\ Here' /\ Kind' = Kind
       /\ dir_table' \in Tables /\ \A b \in Dirs : dir_table'[b].inode_id = dir_table[b].inode_id
  BY <1>13, ShrinkageKeeps
<1>15. OwnInode'
  <2>1. PICK u : u = dir_table'  OBVIOUS
  <2>2. ASSUME NEW b \in Dirs \ dmap', b # Reserved
        PROVE  LET i == u[b].inode_id
               IN i >= Word /\ i \notin imap' /\ Kind'[i] = "dir" /\ Stands(i, b)'
    <3>1. PICK i : i = dir_table[b].inode_id  OBVIOUS
    <3>2. i >= Word /\ i \notin imap /\ Kind[i] = "dir" /\ Stands(i, b)
      BY <1>11, <2>2, <3>1 DEF IInv, NodeInv, OwnInode
    <3>3. u[b].inode_id = i  BY <1>14, <2>1, <3>1
    <3>4. Stands(i, b)' /\ imap' = imap  BY <1>10, <3>2 DEF Stands
    <3> QED  BY <1>14, <3>2, <3>3, <3>4
  <2> QED  BY <2>1, <2>2 DEF OwnInode, Reserved
<1>16. OpenFile'  BY <1>10 DEF IInv, NodeInv, OpenFile
<1>17. BlocksOnce'  BY <1>10, <1>14 DEF IInv, BlocksOnce, Files, Node
<1>18. TypeOK'
  <2>1. /\ dmap' \subseteq Dirs /\ imap' \subseteq Inodes /\ bmap' \subseteq Blocks /\ curr_dir_id' \in Dirs
        /\ curr_path' \in Paths \cup {<<>>} /\ dinodes' \in [Inodes -> DirInode] /\ t_fp' \in OpenInode \cup {None}
    BY <1>10, <1>11, TypeByName DEF IInv, whereVars
  <2> QED  BY <1>14, <2>1 DEF TypeOK, Tables, Entry
<1> QED  BY <1>13, <1>14, <1>15, <1>16, <1>17, <1>18 DEF IInv, NodeInv

\* The current directory is not below a file.
LEMMA NotBelowFile ==
  ASSUME NEW t, NEW kd, NEW p \in Seq(Names), NEW d, Leads(t, kd, p, d), NEW q \in Seq(Names), q # <<>>, ~DirIn(t, kd, q)
  PROVE  ~Below(p, q)
<1> SUFFICES ASSUME Below(p, q) PROVE FALSE  OBVIOUS
<1>1. Len(q) <= Len(p) /\ SubSeq(p, 1, Len(q)) = q  BY DEF Below
<1>2. Len(q) \in Nat \ {0} /\ Len(p) \in Nat  BY EmptySeq, LenProperties
<1>3. Len(q) \in 1 .. Len(p)  BY <1>1, <1>2, SMT
<1> QED  BY <1>1, <1>3 DEF Leads

\* Removing the file at path.
LEMMA DeleteKeeps ==
  ASSUME IInv, NEW path \in Paths, delete_f(path)
  PROVE  /\ \E c, e : Shrinkage(path, c, e)
         /\ IInv'
<1>1. Exists(path) /\ ~IsDirectory(path) /\ t_fp = None  BY DEF delete_f, IsFile
<1>2. PICK c \in Taken : \E e \in Entries(dir_table, c) :
           /\ IsEntry(dir_table, Kind, Taken, path, c, e) /\ find(path).inode = e[2]
           /\ e[2] \in Inodes \ imap /\ c \in Dirs /\ Kind[e[2]] = "file"
  BY <1>1, EntryOfPath
<1>3. PICK e \in Entries(dir_table, c) :
           /\ IsEntry(dir_table, Kind, Taken, path, c, e) /\ find(path).inode = e[2]
           /\ e[2] \in Inodes \ imap /\ c \in Dirs /\ Kind[e[2]] = "file"
  BY <1>2
<1>4. PICK i \in Inodes \ imap : i = e[2]  BY <1>3
<1>5. dinodes[find(path).inode].parent_id = c
  <2>1. Node(e[2]).parent_id = c  BY <1>2, <1>3 DEF IInv, NodeInv, Marks
  <2> QED  BY <1>1, <1>3, <2>1 DEF Node
<1>6. dir_table \in Tables /\ c \in Dirs  BY <1>3, TypeByName DEF IInv
<1>7. PICK s \in 0 .. dir_table[c].sub_cnt - 1 : e = SlotOf(dir_table, c, s)  BY DEF Entries
<1>8. {r \in Used(c) \cap Slots : dir_table[c].file_inode[r] = i} = {s}
  <2>1. s \in Used(c) \cap Slots /\ dir_table[c].file_inode[s] = i  BY <1>4, <1>6, <1>7, SlotsUsed DEF SlotOf, Used
  <2>2. ASSUME NEW r \in Used(c), dir_table[c].file_inode[r] = i PROVE r = s
    <3>1. PICK f : f = SlotOf(dir_table, c, r)  OBVIOUS
    <3>2. f \in Entries(dir_table, c) /\ f[2] = i  BY <2>2, <3>1 DEF Entries, Used, SlotOf
    <3>3. f = e  BY <1>2, <1>3, <1>4, <3>2 DEF IInv, TreeInv, InodesOnce
    <3>4. dir_table[c].file_name[r] = dir_table[c].file_name[s]  BY <1>7, <3>1, <3>3 DEF SlotOf
    <3>5. NamesOnce(dir_table, c)  BY <1>2 DEF IInv, TreeInv, Forest
    <3> QED  BY <3>4, <3>5 DEF NamesOnce, Used
  <2> QED  BY <2>1, <2>2
<1>9. /\ dir_table' = [dir_table EXCEPT ![c] = Shrunk(@, {s})]
      /\ imap' = Freed(imap, i)
      /\ UNCHANGED <<dmap, bmap, dinodes, t_fp, whereVars>>
  BY <1>3, <1>4, <1>5, <1>8 DEF delete_f
<1>10. imap' = imap \cup {i}  BY <1>4, <1>9 DEF Freed
<1>11. ~Below(curr_path, path)
  <2>1. curr_path \in Seq(Names) /\ path \in Seq(Names) /\ path # <<>>
    BY TypeByName, PathsAreSeqs, EmptySeq DEF IInv
  <2>2. Leads(dir_table, Kind, curr_path, curr_dir_id)  BY DEF IInv, Here
  <2>3. ~DirIn(dir_table, Kind, path)
    <3>1. dinodes \in [Inodes -> DirInode] /\ t_fp \in OpenInode \cup {None}  BY TypeByName DEF IInv
    <3> QED  BY <1>1, <1>6, <2>1, <3>1, PathsByTable
  <2>4. PICK t, kd, p : t = dir_table /\ kd = Kind /\ p = curr_path  OBVIOUS
  <2> QED  BY <2>1, <2>2, <2>3, <2>4, NotBelowFile
<1>12. Taken' = Taken /\ imap' \subseteq imap \cup {e[2]}  BY <1>4, <1>9, <1>10 DEF Taken
<1>13. Shrinkage(path, c, e)  BY <1>3, <1>7, <1>9, <1>11, <1>12 DEF Shrinkage
<1>14. /\ TreeInv' /\ Marks' /\ Sorted' /\ Here' /\ Kind' = Kind
       /\ dir_table' \in Tables /\ \A b \in Dirs : dir_table'[b].inode_id = dir_table[b].inode_id
  BY <1>13, ShrinkageKeeps
<1>15. OwnInode'
  <2>1. PICK u : u = dir_table'  OBVIOUS
  <2>2. ASSUME NEW b \in Dirs \ dmap', b # Reserved
        PROVE  LET j == u[b].inode_id
               IN j >= Word /\ j \notin imap' /\ Kind'[j] = "dir" /\ Stands(j, b)'
    <3>1. PICK j : j = dir_table[b].inode_id  OBVIOUS
    <3>2. j >= Word /\ j \notin imap /\ Kind[j] = "dir" /\ Stands(j, b)
      BY <1>9, <2>2, <3>1 DEF IInv, NodeInv, OwnInode
    <3>3. u[b].inode_id = j  BY <1>14, <2>1, <3>1
    <3>4. Kind[i] = "file"  BY <1>3, <1>4
    <3>5. Stands(j, b)' /\ j \notin imap'  BY <1>9, <1>10, <3>2, <3>4 DEF Stands
    <3> QED  BY <1>14, <3>2, <3>3, <3>5
  <2> QED  BY <2>1, <2>2 DEF OwnInode, Reserved
<1>16. OpenFile'  BY <1>1, <1>9 DEF OpenFile
<1>17. BlocksOnce'
  <2>1. Files' \subseteq Files  BY <1>10, <1>14 DEF Files
  <2>2. \A j : (Node(j).direct_addr)' = Node(j).direct_addr  BY <1>9 DEF Node
  <2> QED  BY <1>9, <2>1, <2>2 DEF IInv, BlocksOnce
<1>18. TypeOK'
  <2>1. /\ dmap' \subseteq Dirs /\ imap' \subseteq Inodes /\ bmap' \subseteq Blocks /\ curr_dir_id' \in Dirs
        /\ curr_path' \in Paths \cup {<<>>} /\ dinodes' \in [Inodes -> DirInode] /\ t_fp' \in OpenInode \cup {None}
    BY <1>4, <1>9, <1>10, TypeByName DEF IInv, whereVars
  <2> QED  BY <1>14, <2>1 DEF TypeOK, Tables, Entry
<1> QED  BY <1>13, <1>14, <1>15, <1>16, <1>17, <1>18 DEF IInv, NodeInv

-----------------------------------------------------------------------------
(* The invariant holds in every reachable state.                           *)

\* A step that changes nothing.
LEMMA StutterKeeps ==
  ASSUME IInv, UNCHANGED vars
  PROVE  IInv'
<1>1. UNCHANGED <<dmap, imap, bmap, dir_table, dinodes, t_fp, curr_dir_id, curr_path>>  BY DEF vars, whereVars
<1>2. TypeOK'  BY <1>1 DEF IInv, TypeOK
<1>3. Kind' = Kind /\ Taken' = Taken  BY <1>1 DEF Kind, Node, Taken
<1>4. Here' /\ TreeInv'  BY <1>1, <1>3 DEF IInv, Here, TreeInv
<1>5. NodeInv'  BY <1>1, <1>3 DEF IInv, NodeInv, Marks, Sorted, OwnInode, OpenFile, Stands, Node
<1>6. BlocksOnce'  BY <1>1, <1>3 DEF IInv, BlocksOnce, Files, Node
<1> QED  BY <1>2, <1>4, <1>5, <1>6 DEF IInv

\* Every command keeps the invariant, in a file system whose directories hold either
\* files or directories.
LEMMA StepKeeps ==
  ASSUME ~Mixed, IInv, [Next]_vars
  PROVE  IInv'
<1>1. ASSUME NEW name \in Names, mkdir_t(name) PROVE IInv'  BY <1>1, MkdirKeeps
<1>2. ASSUME NEW name \in Names, create_f(name) PROVE IInv'  BY <1>2, CreateKeeps
<1>3. ASSUME NEW path \in Paths, rmdir_t(path) PROVE IInv'  BY <1>3, RmdirKeeps
<1>4. ASSUME NEW path \in Paths, delete_f(path) PROVE IInv'  BY <1>4, DeleteKeeps
<1>5. ASSUME NEW path \in Paths, open_f(path) PROVE IInv'  BY <1>5, OpenKeeps
<1>6. ASSUME NEW path \in Paths \cup {<<>>}, chdir_t(path) PROVE IInv'  BY <1>6, ChdirKeeps
<1>7. CASE close_f  BY <1>7, CloseKeeps
<1>8. ASSUME NEW n \in 1 .. D_ADDR_NUM, write_f(n) PROVE IInv'  BY <1>8, WriteKeeps
<1>9. CASE Restart  BY <1>9, RestartKeeps
<1>10. CASE UNCHANGED vars  BY <1>10, StutterKeeps
<1> QED  BY <1>1, <1>2, <1>3, <1>4, <1>5, <1>6, <1>7, <1>8, <1>9, <1>10 DEF Next

\* The invariant, in every reachable state of such a file system.
THEOREM Invariance ==
  ASSUME ~Mixed
  PROVE  Spec => []IInv
<1>1. Init => IInv  BY InitIInv
<1>2. IInv /\ [Next]_vars => IInv'  BY StepKeeps
<1> QED  BY <1>1, <1>2, PTL DEF Spec

\* Type correctness: no id leaves its table, and no file has more blocks than an inode
\* has room for.
THEOREM TypeCorrect ==
  ASSUME ~Mixed
  PROVE  Spec => []TypeOK
<1>1. IInv => TypeOK  BY DEF IInv
<1> QED  BY <1>1, Invariance, PTL

-----------------------------------------------------------------------------
(* What the invariant says of what is found from the root.                 *)

\* What is there, by its entry: the path is that of one entry of a directory in use.
LEMMA FoundEntry ==
  ASSUME IInv, NEW p \in Paths
  PROVE  /\ Exists(p) => \E c \in Taken : \E e \in Entries(dir_table, c) : IsEntry(dir_table, Kind, Taken, p, c, e)
         /\ \A c, e : IsEntry(dir_table, Kind, Taken, p, c, e) =>
              /\ c \in Taken /\ c \in Dirs /\ e \in Entries(dir_table, c)
              /\ e[1] \in Names /\ e[2] \in Inodes \ imap /\ e[3] \in Dirs
              /\ Exists(p) /\ find(p).inode = e[2] /\ find(p).dir = e[3]
              /\ Kind[e[2]] \in {"dir", "file"} /\ (IsDirectory(p) <=> Kind[e[2]] = "dir")
              /\ IsDirectory(p) => e[3] \in Taken
<1>1. p \in Seq(Names) /\ p # <<>>  BY PathsAreSeqs
<1>2. /\ dir_table \in Tables /\ dinodes \in [Inodes -> DirInode] /\ t_fp \in OpenInode \cup {None}
      /\ Forest(dir_table, Kind, Taken)
  BY TypeByName DEF IInv, TreeInv
<1>3. /\ find(p) = FindIn(dir_table, p)
      /\ Exists(p) <=> ExistsIn(dir_table, Kind, p)
      /\ IsDirectory(p) <=> DirIn(dir_table, Kind, p)
  BY <1>1, <1>2, PathsByTable
<1>4. Exists(p) => \E c \in Taken : \E e \in Entries(dir_table, c) : IsEntry(dir_table, Kind, Taken, p, c, e)
  BY <1>1, <1>2, <1>3, EntryFound
<1>5. ASSUME NEW c, NEW e, IsEntry(dir_table, Kind, Taken, p, c, e)
      PROVE  /\ c \in Taken /\ c \in Dirs /\ e \in Entries(dir_table, c)
             /\ e[1] \in Names /\ e[2] \in Inodes \ imap /\ e[3] \in Dirs
             /\ Exists(p) /\ find(p).inode = e[2] /\ find(p).dir = e[3]
             /\ Kind[e[2]] \in {"dir", "file"} /\ (IsDirectory(p) <=> Kind[e[2]] = "dir")
             /\ IsDirectory(p) => e[3] \in Taken
  <2>1. c \in Taken /\ e \in Entries(dir_table, c)  BY <1>5 DEF IsEntry
  <2>2. c \in Dirs /\ e[1] \in Names /\ Kind[e[2]] \in {"dir", "file"}  BY <1>2, <2>1 DEF Forest
  <2>3. e[2] \in Inodes /\ e[3] \in Dirs  BY <1>2, <2>1, <2>2, EntryTyped
  <2>4. e[2] \notin imap  BY <2>1 DEF IInv, NodeInv, Marks
  <2>5. ExistsIn(dir_table, Kind, p) /\ FindIn(dir_table, p) = [ok |-> TRUE, dir |-> e[3], inode |-> e[2]]
    BY <1>2, <1>5, EntryFound
  <2>6. IsDirectory(p) <=> Kind[e[2]] = "dir"  BY <1>3, <2>5 DEF DirIn
  <2>7. Kind[e[2]] = "dir" => e[3] \in Taken  BY <1>2, <2>1 DEF Forest, ChildOf
  <2> QED  BY <1>3, <2>1, <2>2, <2>3, <2>4, <2>5, <2>6, <2>7
<1> QED  BY <1>4, <1>5

\* Two paths of one inode are the same.
LEMMA PathOfInode ==
  ASSUME IInv, NEW p \in Paths, NEW q \in Paths, Exists(p), Exists(q), find(p).inode = find(q).inode
  PROVE  p = q
<1>1. PICK c \in Taken : \E e \in Entries(dir_table, c) : IsEntry(dir_table, Kind, Taken, p, c, e)  BY FoundEntry
<1>2. PICK e \in Entries(dir_table, c) : IsEntry(dir_table, Kind, Taken, p, c, e)  BY <1>1
<1>3. PICK b \in Taken : \E f \in Entries(dir_table, b) : IsEntry(dir_table, Kind, Taken, q, b, f)  BY FoundEntry
<1>4. PICK f \in Entries(dir_table, b) : IsEntry(dir_table, Kind, Taken, q, b, f)  BY <1>3
<1>5. find(p).inode = e[2] /\ find(q).inode = f[2]  BY <1>2, <1>4, FoundEntry
<1>6. c = b /\ e = f  BY <1>5 DEF IInv, TreeInv, InodesOnce
<1>7. dir_table \in Tables /\ Forest(dir_table, Kind, Taken)  BY TypeByName DEF IInv, TreeInv
<1>8. PICK t, kd, G : t = dir_table /\ kd = Kind /\ G = Taken  OBVIOUS
<1> QED  BY <1>2, <1>4, <1>6, <1>7, <1>8, EntryAlone

\* The directories that are found are in use.
LEMMA ReachedTaken == ASSUME IInv PROVE Reached \subseteq Taken
<1> SUFFICES ASSUME NEW p \in Paths, Exists(p), IsDirectory(p) PROVE find(p).dir \in Taken
  BY DEF Reached, Taken
<1>1. PICK c \in Taken : \E e \in Entries(dir_table, c) : IsEntry(dir_table, Kind, Taken, p, c, e)  BY FoundEntry
<1>2. PICK e \in Entries(dir_table, c) : IsEntry(dir_table, Kind, Taken, p, c, e)  BY <1>1
<1> QED  BY <1>2, FoundEntry

\* The three places where a directory's parent, inode and place stand agree, for all
\* that is found from the root; and nothing of it is marked as free.
THEOREM EntriesCorrect ==
  ASSUME ~Mixed
  PROVE  Spec => []EntriesAgree
<1>1. ASSUME IInv PROVE EntriesAgree
  <2> SUFFICES ASSUME NEW d \in Taken, NEW s \in Used(d), NEW i, i = dir_table[d].file_inode[s],
                      NEW sub, sub = dir_table[d].sub_dir_ids[s]
               PROVE  /\ i \notin imap
                      /\ CASE Node(i).dir_or_file = "dir" ->
                                /\ sub \notin dmap /\ dinodes[i].direct_addr[1] = sub
                                /\ dir_table[sub].inode_id = i /\ dir_table[sub].parent_id = d
                           [] Node(i).dir_or_file = "file" -> Node(i).parent_id = d
                           [] OTHER -> FALSE
    BY <1>1, ReachedTaken DEF EntriesAgree
  <2>1. /\ dir_table \in Tables /\ dinodes \in [Inodes -> DirInode] /\ t_fp \in OpenInode \cup {None}
        /\ Forest(dir_table, Kind, Taken)
    BY <1>1, TypeByName DEF IInv, TreeInv
  <2>2. PICK e \in Entries(dir_table, d) : e = SlotOf(dir_table, d, s)  BY DEF Entries, Used
  <2>3. e[2] = i /\ e[3] = sub  BY <2>2 DEF SlotOf
  <2>4. d \in Dirs /\ Kind[i] \in {"dir", "file"}  BY <2>1, <2>3 DEF Forest
  <2>5. i \in Inodes  BY <2>1, <2>3, <2>4, EntryTyped
  <2>6. Kind[i] = Node(i).dir_or_file  BY <2>1, <2>5, NodeTyped
  <2>7. i \notin imap /\ (Kind[i] = "dir" => Stands(i, sub)) /\ (Kind[i] = "file" => Node(i).parent_id = d)
    BY <1>1, <2>3 DEF IInv, NodeInv, Marks
  <2>8. CASE Kind[i] = "dir"
    <3>1. ChildOf(dir_table, Taken, d, e)  BY <2>1, <2>3, <2>8 DEF Forest
    <3>2. sub \notin dmap /\ dir_table[sub].inode_id = i /\ dir_table[sub].parent_id = d
      BY <2>3, <3>1 DEF ChildOf, Taken
    <3> QED  BY <2>6, <2>7, <2>8, <3>2 DEF Stands
  <2>9. CASE Kind[i] = "file"  BY <2>6, <2>7, <2>9
  <2> QED  BY <2>4, <2>8, <2>9
<1>2. IInv => EntriesAgree  BY <1>1
<1> QED  BY <1>2, Invariance, PTL

\* The path that pwd shows is that of the directory in which commands work.
THEOREM PathCorrect ==
  ASSUME ~Mixed
  PROVE  Spec => []PathIsHere
<1>1. ASSUME IInv PROVE PathIsHere
  <2>1. /\ dir_table \in Tables /\ dinodes \in [Inodes -> DirInode] /\ t_fp \in OpenInode \cup {None}
        /\ curr_path \in Paths \cup {<<>>} /\ curr_path \in Seq(Names)
    BY <1>1, TypeByName, PathsAreSeqs, EmptySeq DEF IInv
  <2>2. Leads(dir_table, Kind, curr_path, curr_dir_id)  BY <1>1 DEF IInv, Here
  <2>3. find(curr_path) = FindIn(dir_table, curr_path)  BY FindIsFindIn
  <2>4. find(curr_path).ok /\ find(curr_path).dir = curr_dir_id  BY <2>2, <2>3 DEF Leads
  <2>5. CASE curr_path = <<>>
    <3>1. curr_dir_id = 0  BY <2>2, <2>5, LeadsEmpty
    <3> QED  BY <2>4, <3>1 DEF PathIsHere, Reached
  <2>6. CASE curr_path # <<>>
    <3>1. Len(curr_path) \in Nat \ {0}  BY <2>1, <2>6, EmptySeq, LenProperties
    <3>2. Len(curr_path) \in 1 .. Len(curr_path) /\ \A n \in 1 .. Len(curr_path) - 1 : n \in 1 .. Len(curr_path)
      BY <3>1, SMT
    <3>3. SubSeq(curr_path, 1, Len(curr_path)) = curr_path  BY <2>1, SubSeqFull
    <3>4. ExistsIn(dir_table, Kind, curr_path) /\ DirIn(dir_table, Kind, curr_path)
      BY <2>2, <3>2, <3>3 DEF Leads, ExistsIn
    <3>5. Exists(curr_path) /\ IsDirectory(curr_path)  BY <2>1, <3>4, PathsByTable
    <3>6. curr_dir_id \in Reached  BY <2>1, <2>4, <2>6, <3>5 DEF Reached
    <3> QED  BY <2>4, <3>6 DEF PathIsHere
  <2> QED  BY <2>5, <2>6
<1>2. IInv => PathIsHere  BY <1>1
<1> QED  BY <1>2, Invariance, PTL

\* As many inodes as paths that lead to them: no file and no directory is
\* reached by two names.
THEOREM NamesCorrect ==
  ASSUME ~Mixed
  PROVE  Spec => []OneName
<1>1. ASSUME IInv PROVE OneName
  <2> DEFINE P == {q \in Paths : Exists(q)}
             S == {find(p).inode : p \in P}
             f == [p \in P |-> find(p).inode]
  <2>1. DOMAIN Tree = P  BY DEF Tree
  <2>2. \A p, q \in P : find(p).inode = find(q).inode => p = q  BY <1>1, PathOfInode
  <2>3. \A p \in P : find(p).inode \in Inodes
    <3> SUFFICES ASSUME NEW p \in Paths, Exists(p) PROVE find(p).inode \in Inodes  OBVIOUS
    <3> QED  BY <1>1, EntryOfPath
  <2>4. IsFiniteSet(S)
    <3>1. S \subseteq Inodes  BY <2>3
    <3> QED  BY <3>1, DirsFinite, FS_Subset
  <2>5. f \in Injection(P, S) /\ f \in Surjection(P, S)
    <3>1. f \in [P -> S]  OBVIOUS
    <3>2. \A p, q \in P : f[p] = f[q] => p = q  BY <2>2
    <3>3. \A s \in S : \E p \in P : f[p] = s  OBVIOUS
    <3> HIDE DEF f, P, S
    <3> QED  BY <3>1, <3>2, <3>3 DEF Injection, IsInjective, Surjection
  <2> HIDE DEF f, P, S
  <2>6. Cardinality(P) = Cardinality(S)  BY <2>4, <2>5, FS_Injection
  <2> QED  BY <2>1, <2>6 DEF OneName, S
<1>2. IInv => OneName  BY <1>1
<1> QED  BY <1>2, Invariance, PTL

\* No block is of two files, or of one file twice, and none of a file is given out again.
THEOREM BlocksCorrect ==
  ASSUME ~Mixed
  PROVE  Spec => []BlocksOwned
<1>1. ASSUME IInv PROVE BlocksOwned
  <2> DEFINE data == Tree
             uses == {u \in (DOMAIN data) \X (1 .. D_ADDR_NUM) : data[u[1]] # None /\ u[2] \in DOMAIN data[u[1]]}
             owned == {data[u[1]][u[2]] : u \in uses}
             f == [u \in uses |-> data[u[1]][u[2]]]
  <2>1. ASSUME NEW u \in uses
        PROVE  \E i \in Files : /\ i = find(u[1]).inode /\ u[2] \in DOMAIN Node(i).direct_addr
                                /\ data[u[1]][u[2]] = Node(i).direct_addr[u[2]]
                                /\ u = <<u[1], u[2]>> /\ u[1] \in Paths /\ Exists(u[1])
    <3>1. /\ u = <<u[1], u[2]>> /\ u[1] \in Paths /\ Exists(u[1])
          /\ data[u[1]] = IF IsDirectory(u[1]) THEN None ELSE Node(find(u[1]).inode).direct_addr
          /\ data[u[1]] # None /\ u[2] \in DOMAIN data[u[1]]
      BY DEF Tree
    <3>2. ~IsDirectory(u[1])  BY <3>1
    <3>3. PICK p \in Paths : p = u[1] /\ Exists(p) /\ ~IsDirectory(p)  BY <3>1, <3>2
    <3>4. \E c \in Taken : \E e \in Entries(dir_table, c) :
             find(p).inode = e[2] /\ e[2] \in Inodes \ imap /\ Kind[e[2]] = "file"
      BY <1>1, <3>3, EntryOfPath
    <3>5. find(u[1]).inode \in Files  BY <3>3, <3>4 DEF Files
    <3> QED  BY <3>1, <3>2, <3>5
  <2>2. ASSUME NEW u \in uses PROVE f[u] \in Blocks \ bmap
    <3>1. PICK i \in Files : u[2] \in DOMAIN Node(i).direct_addr /\ data[u[1]][u[2]] = Node(i).direct_addr[u[2]]
      BY <2>1
    <3> QED  BY <1>1, <3>1 DEF IInv, BlocksOnce
  <2>3. ASSUME NEW u \in uses, NEW v \in uses, f[u] = f[v] PROVE u = v
    <3>1. PICK i \in Files : /\ i = find(u[1]).inode /\ u[2] \in DOMAIN Node(i).direct_addr
                             /\ data[u[1]][u[2]] = Node(i).direct_addr[u[2]]
                             /\ u = <<u[1], u[2]>> /\ u[1] \in Paths /\ Exists(u[1])
      BY <2>1
    <3>2. PICK j \in Files : /\ j = find(v[1]).inode /\ v[2] \in DOMAIN Node(j).direct_addr
                             /\ data[v[1]][v[2]] = Node(j).direct_addr[v[2]]
                             /\ v = <<v[1], v[2]>> /\ v[1] \in Paths /\ Exists(v[1])
      BY <2>1
    <3>3. Node(i).direct_addr[u[2]] = Node(j).direct_addr[v[2]]  BY <2>3, <3>1, <3>2
    <3>4. i = j /\ u[2] = v[2]  BY <1>1, <3>1, <3>2, <3>3 DEF IInv, BlocksOnce
    <3>5. u[1] = v[1]  BY <1>1, <3>1, <3>2, <3>4, PathOfInode
    <3> QED  BY <3>1, <3>2, <3>4, <3>5
  <2>4. f \in [uses -> owned] /\ owned = {f[u] : u \in uses}  OBVIOUS
  <2> HIDE DEF f, uses, owned
  <2>5. owned \subseteq Blocks \ bmap  BY <2>2, <2>4
  <2>6. IsFiniteSet(owned)  BY <2>5, DirsFinite, FS_Subset
  <2>7. f \in Injection(uses, owned) /\ f \in Surjection(uses, owned)
    BY <2>3, <2>4 DEF Injection, IsInjective, Surjection
  <2>8. Cardinality(uses) = Cardinality(owned)  BY <2>6, <2>7, FS_Injection
  <2>9. owned \cap bmap = {} /\ Cardinality(owned) = Cardinality(uses)  BY <2>5, <2>8
  <2> QED  BY <2>9 DEF BlocksOwned, owned, uses
<1>2. IInv => BlocksOwned  BY <1>1
<1> QED  BY <1>2, Invariance, PTL

-----------------------------------------------------------------------------
(* What a command does to the tree. The addresses of the nodes are a       *)
(* parameter, as the table and the kinds are, so that the trees before and *)
(* after a command are TreeIn of what it leaves and of what it makes.      *)
Data == [i \in Inodes |-> Node(i).direct_addr]
TreeIn(t, kd, G, N) ==
  [p \in {q \in Paths : \E c, e : IsEntry(t, kd, G, q, c, e)} |->
     IF DirIn(t, kd, p) THEN None ELSE N[FindIn(t, p).inode]]

\* The tree is that of the table, the kinds and the addresses.
LEMMA TreeByTable == IInv => Tree = TreeIn(dir_table, Kind, Taken, Data)
<1> SUFFICES ASSUME IInv PROVE Tree = TreeIn(dir_table, Kind, Taken, Data)  OBVIOUS
<1>1. {q \in Paths : Exists(q)} = {q \in Paths : \E c, e : IsEntry(dir_table, Kind, Taken, q, c, e)}
  BY FoundEntry
<1>2. ASSUME NEW p \in Paths, Exists(p)
      PROVE  (IF IsDirectory(p) THEN None ELSE Node(find(p).inode).direct_addr)
             = (IF DirIn(dir_table, Kind, p) THEN None ELSE Data[FindIn(dir_table, p).inode])
  <2>1. p \in Seq(Names)  BY PathsAreSeqs
  <2>2. dir_table \in Tables /\ dinodes \in [Inodes -> DirInode] /\ t_fp \in OpenInode \cup {None}
    BY TypeByName DEF IInv
  <2>3. /\ find(p) = FindIn(dir_table, p) /\ FindIn(dir_table, p) \in Places
        /\ IsDirectory(p) <=> DirIn(dir_table, Kind, p)
    BY <2>1, <2>2, PathsByTable
  <2>4. Data[find(p).inode] = Node(find(p).inode).direct_addr  BY <2>3 DEF Data, Places
  <2> QED  BY <2>3, <2>4
<1> QED  BY <1>1, <1>2 DEF Tree, TreeIn

\* The same of the tree after a step.
LEMMA NextTreeByTable == IInv' => Tree' = TreeIn(dir_table', Kind', Taken', Data')
<1>1. IInv' => (Tree = TreeIn(dir_table, Kind, Taken, Data))'  BY TreeByTable, PTL
<1> QED  BY <1>1

\* An entry more is a path more, and the others keep what they had.
LEMMA TreeWith ==
  ASSUME NEW t \in Tables, NEW kd, NEW G, NEW u \in Tables, NEW ku, NEW H, NEW cp, NEW c0, NEW e0,
         Grown(t, kd, G, u, ku, H, cp, c0, e0), Append(cp, e0[1]) \in Paths,
         NEW N, NEW M, \A c \in G : \A e \in Entries(t, c) : M[e[2]] = N[e[2]]
  PROVE  TreeIn(u, ku, H, M) = With(TreeIn(t, kd, G, N), Append(cp, e0[1]), IF ku[e0[2]] = "dir" THEN None ELSE M[e0[2]])
<1> DEFINE x == Append(cp, e0[1])
           D == {q \in Paths : \E c, e : IsEntry(t, kd, G, q, c, e)}
           E == {q \in Paths : \E c, e : IsEntry(u, ku, H, q, c, e)}
           v == IF ku[e0[2]] = "dir" THEN None ELSE M[e0[2]]
           A == TreeIn(t, kd, G, N)
           B == TreeIn(u, ku, H, M)
<1>1. \A p, c, e : IsEntry(u, ku, H, p, c, e) <=> IsEntry(t, kd, G, p, c, e) \/ (p = x /\ c = c0 /\ e = e0)
  <2>1. PathsGrow(t, kd, G, u, ku, H, cp, c0, e0)  BY TreeGrows
  <2> QED  BY <2>1 DEF PathsGrow
<1>2. Forest(t, kd, G) /\ Forest(u, ku, H)  BY DEF Grown
<1>3. E = D \cup {x}  BY <1>1
<1>4. \A p, c, e : IsEntry(u, ku, H, p, c, e) => FindIn(u, p) = [ok |-> TRUE, dir |-> e[3], inode |-> e[2]]
  BY <1>2, EntryFound
<1>5. \A p, c, e : IsEntry(t, kd, G, p, c, e) => FindIn(t, p) = [ok |-> TRUE, dir |-> e[3], inode |-> e[2]]
  BY <1>2, EntryFound
<1> HIDE DEF x, v
<1>6. DOMAIN A = D /\ DOMAIN B = E  BY DEF TreeIn
<1>7. B[x] = v
  <2>1. IsEntry(u, ku, H, x, c0, e0)  BY <1>1
  <2>2. FindIn(u, x).ok /\ FindIn(u, x).inode = e0[2]  BY <1>4, <2>1
  <2>3. x \in E  BY <1>3
  <2> QED  BY <2>2, <2>3 DEF TreeIn, DirIn, v
<1>8. ASSUME NEW p \in D PROVE B[p] = A[p]
  <2>1. PICK c, e : IsEntry(t, kd, G, p, c, e)  OBVIOUS
  <2>2. IsEntry(u, ku, H, p, c, e) /\ p \in E  BY <1>1, <1>3, <2>1
  <2>3. FindIn(u, p).ok /\ FindIn(u, p).inode = e[2] /\ FindIn(t, p).ok /\ FindIn(t, p).inode = e[2]
    BY <1>4, <1>5, <2>1, <2>2
  <2>4. ku[e[2]] = kd[e[2]] /\ M[e[2]] = N[e[2]]  BY <2>1 DEF IsEntry, Grown
  <2> QED  BY <2>2, <2>3, <2>4 DEF TreeIn, DirIn
<1> HIDE DEF D, E
<1>9. B = [q \in E |-> IF q = x THEN v ELSE A[q]]
  <2>1. B = [q \in E |-> B[q]]  BY <1>6 DEF B, TreeIn
  <2> HIDE DEF A, B
  <2>2. \A q \in E : B[q] = IF q = x THEN v ELSE A[q]  BY <1>3, <1>7, <1>8
  <2> QED  BY <2>1, <2>2
<1> HIDE DEF A, B
<1>10. With(A, x, v) = [q \in E |-> IF q = x THEN v ELSE A[q]]  BY <1>3, <1>6 DEF With
<1> QED  BY <1>9, <1>10 DEF A, B, x, v

\* An entry less is a path less, and all that was below it.
LEMMA TreeWithout ==
  ASSUME NEW t \in Tables, NEW kd, NEW G, NEW u \in Tables, NEW ku, NEW H, NEW q, NEW c0, NEW e0,
         Pruned(t, kd, G, u, ku, H, q, c0, e0), NEW N
  PROVE  TreeIn(u, ku, H, N) = Without(TreeIn(t, kd, G, N), q)
<1> DEFINE D == {p \in Paths : \E c, e : IsEntry(t, kd, G, p, c, e)}
           E == {p \in Paths : \E c, e : IsEntry(u, ku, H, p, c, e)}
           A == TreeIn(t, kd, G, N)
           B == TreeIn(u, ku, H, N)
<1>1. \A p, c, e : IsEntry(u, ku, H, p, c, e) <=> IsEntry(t, kd, G, p, c, e) /\ ~Below(p, q)
  <2>1. PathsShrink(t, kd, G, u, ku, H, q)  BY TreeShrinks
  <2> QED  BY <2>1 DEF PathsShrink
<1>2. Forest(t, kd, G) /\ Forest(u, ku, H)  BY DEF Pruned
<1>3. E = {p \in D : ~Below(p, q)}  BY <1>1
<1>4. \A p, c, e : IsEntry(u, ku, H, p, c, e) => FindIn(u, p) = [ok |-> TRUE, dir |-> e[3], inode |-> e[2]]
  BY <1>2, EntryFound
<1>5. \A p, c, e : IsEntry(t, kd, G, p, c, e) => FindIn(t, p) = [ok |-> TRUE, dir |-> e[3], inode |-> e[2]]
  BY <1>2, EntryFound
<1>6. DOMAIN A = D /\ DOMAIN B = E  BY DEF TreeIn
<1>7. ASSUME NEW p \in E PROVE B[p] = A[p]
  <2>1. PICK c, e : IsEntry(u, ku, H, p, c, e)  OBVIOUS
  <2>2. IsEntry(t, kd, G, p, c, e) /\ p \in D  BY <1>1, <1>3, <2>1
  <2>3. FindIn(u, p).ok /\ FindIn(u, p).inode = e[2] /\ FindIn(t, p).ok /\ FindIn(t, p).inode = e[2]
    BY <1>4, <1>5, <2>1, <2>2
  <2>4. ku[e[2]] = kd[e[2]]  BY <2>1 DEF IsEntry, Pruned
  <2> QED  BY <2>2, <2>3, <2>4 DEF TreeIn, DirIn
<1> HIDE DEF D, E
<1>8. B = [p \in E |-> A[p]]
  <2>1. B = [p \in E |-> B[p]]  BY <1>6 DEF B, TreeIn
  <2> HIDE DEF A, B
  <2> QED  BY <1>7, <2>1
<1> HIDE DEF A, B
<1>9. Without(A, q) = [p \in E |-> A[p]]  BY <1>3, <1>6 DEF Without
<1> QED  BY <1>8, <1>9 DEF A, B

\* The path of a new entry is not too long.
LEMMA NewPath ==
  ASSUME IInv, Room, NEW x \in Names
  PROVE  Append(curr_path, x) \in Paths
<1>1. curr_path \in Seq(Names)  BY TypeByName, PathsAreSeqs, EmptySeq DEF IInv
<1>2. Append(curr_path, x) \in Seq(Names) /\ Len(Append(curr_path, x)) = Len(curr_path) + 1 /\ Len(curr_path) \in Nat
  BY <1>1, AppendProperties, LenProperties
<1>3. Len(curr_path) < Depth /\ Depth \in Nat  BY SizesAreNumbers DEF Room
<1>4. Len(Append(curr_path, x)) \in 1 .. Depth  BY <1>2, <1>3, SMT
<1>5. Append(curr_path, x) \in [1 .. Len(Append(curr_path, x)) -> Names]
  BY <1>2, LenProperties, ElementOfSeq
<1> QED  BY <1>4, <1>5 DEF Paths

\* What a new entry does to the tree.
LEMMA GrowthTree ==
  ASSUME IInv, IInv', Room, NEW x, NEW i, NEW b, Growth(x, i, b), NEW v,
         v = IF Kind'[i] = "dir" THEN None ELSE (Node(i).direct_addr)',
         \A j \in Inodes : j # i => (Node(j).direct_addr)' = Node(j).direct_addr
  PROVE  Tree' = With(Tree, Append(curr_path, x), v)
<1>1. PICK t, kd, G, N, cp, c0 : t = dir_table /\ kd = Kind /\ G = Taken /\ N = Data /\ cp = curr_path /\ c0 = curr_dir_id
  OBVIOUS
<1>2. PICK u, ku, H, M : u = dir_table' /\ ku = Kind' /\ H = Taken' /\ M = Data'  OBVIOUS
<1>3. PICK e0 : e0 = <<x, i, b>>  OBVIOUS
<1>4. e0[1] = x /\ e0[2] = i /\ i \in Inodes /\ i \in imap /\ x \in Names  BY <1>3 DEF Growth
<1>5. Grown(t, kd, G, u, ku, H, cp, c0, e0)  BY <1>1, <1>2, <1>3, GrowthKeeps
<1>6. t \in Tables /\ u \in Tables /\ G \subseteq Dirs
  <2>1. t \in Tables /\ G \subseteq Dirs  BY <1>1, TypeByName DEF IInv, TreeInv, Forest
  <2> QED  BY <1>2, <2>1 DEF Growth
<1>7. Append(cp, e0[1]) \in Paths  BY <1>1, <1>4, NewPath
<1>8. \A c \in G : \A e \in Entries(t, c) : M[e[2]] = N[e[2]]
  <2>1. \A j \in Inodes : j # i => M[j] = N[j]  BY <1>1, <1>2 DEF Data
  <2>2. \A c \in G : \A e \in Entries(t, c) : e[2] \in Inodes /\ e[2] # i
    <3>1. \A c \in G : \A e \in Entries(t, c) : e[2] \in Inodes  BY <1>6, EntryTyped
    <3>2. \A c \in G : \A e \in Entries(t, c) : e[2] \notin imap  BY <1>1 DEF IInv, NodeInv, Marks
    <3> QED  BY <1>4, <3>1, <3>2
  <2> QED  BY <2>1, <2>2
<1>9. v = IF ku[e0[2]] = "dir" THEN None ELSE M[e0[2]]
  <2>1. M[i] = (Node(i).direct_addr)'  BY <1>2, <1>4 DEF Data
  <2> QED  BY <1>2, <1>4, <2>1
<1>10. Tree = TreeIn(t, kd, G, N)  BY <1>1, TreeByTable
<1>11. Tree' = TreeIn(u, ku, H, M)  BY <1>2, NextTreeByTable
<1>12. Append(cp, e0[1]) = Append(curr_path, x)  BY <1>1, <1>4
<1> HIDE <1>1, <1>2, <1>3
<1>13. TreeIn(u, ku, H, M) = With(TreeIn(t, kd, G, N), Append(cp, e0[1]), v)
  BY <1>5, <1>6, <1>7, <1>8, <1>9, TreeWith
<1> QED  BY <1>10, <1>11, <1>12, <1>13

\* What the removal of an entry does to the tree.
LEMMA ShrinkageTree ==
  ASSUME IInv, IInv', NEW q, NEW c, NEW e, Shrinkage(q, c, e)
  PROVE  Tree' = Without(Tree, q)
<1>1. PICK t, kd, G, N : t = dir_table /\ kd = Kind /\ G = Taken /\ N = Data  OBVIOUS
<1>2. PICK u, ku, H : u = dir_table' /\ ku = Kind' /\ H = Taken'  OBVIOUS
<1>3. Data' = N  BY <1>1 DEF Shrinkage, Data, Node
<1>4. Pruned(t, kd, G, u, ku, H, q, c, e) /\ u \in Tables  BY <1>1, <1>2, ShrinkageKeeps
<1>5. t \in Tables  BY <1>1, TypeByName DEF IInv
<1>6. Tree = TreeIn(t, kd, G, N)  BY <1>1, TreeByTable
<1>7. Tree' = TreeIn(u, ku, H, N)  BY <1>2, <1>3, NextTreeByTable
<1> HIDE <1>1, <1>2
<1>8. TreeIn(u, ku, H, N) = Without(TreeIn(t, kd, G, N), q)  BY <1>4, <1>5, TreeWithout
<1> QED  BY <1>6, <1>7, <1>8

\* A command on the table does to the tree what it says: a new name appears in the
\* current directory, or a path disappears with what is below it, and nothing else.
LEMMA TableCommandKept ==
  ASSUME ~Mixed, IInv
  PROVE  TableCommand
<1>1. ASSUME NEW name \in Names, mkdir_t(name) PROVE Tree' = With(Tree, Append(curr_path, name), None)
  <2>1. IInv' /\ Room  BY <1>1, MkdirKeeps DEF mkdir_t
  <2>2. PICK i, s : /\ Growth(name, i, s) /\ Kind'[i] = "dir"
                    /\ \A j \in Inodes : j # i => (Node(j).direct_addr)' = Node(j).direct_addr
    BY <1>1, MkdirKeeps
  <2>3. PICK v : v = None  OBVIOUS
  <2>4. v = IF Kind'[i] = "dir" THEN None ELSE (Node(i).direct_addr)'  BY <2>2, <2>3
  <2> QED  BY <2>1, <2>2, <2>3, <2>4, GrowthTree
<1>2. ASSUME NEW name \in Names, create_f(name) PROVE Tree' = With(Tree, Append(curr_path, name), <<>>)
  <2>1. IInv' /\ Room  BY <1>2, CreateKeeps DEF create_f
  <2>2. PICK i, b : /\ Growth(name, i, b) /\ Kind'[i] = "file" /\ (Node(i).direct_addr)' = <<>>
                    /\ \A j \in Inodes : j # i => (Node(j).direct_addr)' = Node(j).direct_addr
    BY <1>2, CreateKeeps
  <2>3. PICK v : v = <<>>  OBVIOUS
  <2>4. v = IF Kind'[i] = "dir" THEN None ELSE (Node(i).direct_addr)'  BY <2>2, <2>3
  <2> QED  BY <2>1, <2>2, <2>3, <2>4, GrowthTree
<1>3. ASSUME NEW p \in Paths, rmdir_t(p) PROVE Tree' = Without(Tree, p)
  <2>1. IInv' /\ \E c, e : Shrinkage(p, c, e)  BY <1>3, RmdirKeeps
  <2> QED  BY <2>1, ShrinkageTree
<1>4. ASSUME NEW p \in Paths, delete_f(p) PROVE Tree' = Without(Tree, p)
  <2>1. IInv' /\ \E c, e : Shrinkage(p, c, e)  BY <1>4, DeleteKeeps
  <2> QED  BY <2>1, ShrinkageTree
<1> QED  BY <1>1, <1>2, <1>3, <1>4 DEF TableCommand

\* A command on the open file changes the blocks of that file, and closing it nothing.
LEMMA FileCommandKept ==
  ASSUME IInv
  PROVE  FileCommand
<1>1. ASSUME NEW n \in 1 .. D_ADDR_NUM, write_f(n), NEW p \in Paths, IsFile(p), find(p).inode = t_fp.i_into
      PROVE  Tree' = With(Tree, p, t_fp'.direct_addr)
  <2>1. /\ IInv' /\ t_fp # None /\ t_fp' # None /\ t_fp'.i_into = t_fp.i_into /\ Kind' = Kind
    BY <1>1, WriteKeeps
  <2>2. UNCHANGED <<dmap, dir_table, dinodes>> /\ Taken' = Taken  BY <1>1 DEF write_f, Taken
  <2>3. PICK t, kd, G, N, M : t = dir_table /\ kd = Kind /\ G = Taken /\ N = Data /\ M = Data'  OBVIOUS
  <2>4. Tree = TreeIn(t, kd, G, N) /\ Tree' = TreeIn(t, kd, G, M)  BY <2>1, <2>2, <2>3, TreeByTable, NextTreeByTable
  <2>5. PICK i \in Inodes : i = t_fp.i_into  BY <2>1, TypeByName DEF IInv, OpenInode
  <2>6. PICK v : v = t_fp'.direct_addr  OBVIOUS
  <2>7. M[i] = v /\ \A j \in Inodes : j # i => M[j] = N[j]  BY <2>1, <2>2, <2>3, <2>5, <2>6 DEF Data, Node
  <2> DEFINE D == {q \in Paths : Exists(q)}
  <2>8. D = {q \in Paths : \E c, e : IsEntry(t, kd, G, q, c, e)} /\ p \in D  BY <1>1, <2>3, FoundEntry DEF IsFile
  <2>9. ASSUME NEW q \in D
        PROVE  /\ find(q).inode \in Inodes /\ FindIn(t, q) = find(q) /\ (DirIn(t, kd, q) <=> IsDirectory(q))
               /\ q # p => find(q).inode # i
    <3>1. q \in Seq(Names)  BY PathsAreSeqs
    <3>2. dir_table \in Tables /\ dinodes \in [Inodes -> DirInode] /\ t_fp \in OpenInode \cup {None}
      BY TypeByName DEF IInv
    <3>3. /\ find(q) = FindIn(dir_table, q) /\ FindIn(dir_table, q) \in Places
          /\ IsDirectory(q) <=> DirIn(dir_table, Kind, q)
      BY <3>1, <3>2, PathsByTable
    <3>4. find(q).inode \in Inodes  BY <3>3 DEF Places
    <3>5. q # p => find(q).inode # i  BY <1>1, <2>5, <2>8, PathOfInode
    <3> QED  BY <2>3, <3>3, <3>4, <3>5
  <2>10. ~DirIn(t, kd, p) /\ FindIn(t, p).inode = i  BY <1>1, <2>5, <2>8, <2>9 DEF IsFile
  <2>11. DOMAIN Tree = D /\ Tree' = [q \in D |-> IF DirIn(t, kd, q) THEN None ELSE M[FindIn(t, q).inode]]
    BY <2>4, <2>8 DEF TreeIn
  <2>12. \A q \in D : Tree[q] = IF DirIn(t, kd, q) THEN None ELSE N[FindIn(t, q).inode]  BY <2>4, <2>8 DEF TreeIn
  <2>13. \A q \in D : (IF DirIn(t, kd, q) THEN None ELSE M[FindIn(t, q).inode]) = IF q = p THEN v ELSE Tree[q]
    BY <2>7, <2>9, <2>10, <2>12
  <2> HIDE DEF D
  <2>14. Tree' = [q \in D |-> IF q = p THEN v ELSE Tree[q]]  BY <2>11, <2>13
  <2>15. With(Tree, p, v) = [q \in D |-> IF q = p THEN v ELSE Tree[q]]  BY <2>8, <2>11 DEF With
  <2> QED  BY <2>6, <2>14, <2>15
<1>2. ASSUME close_f PROVE Tree' = Tree
  <2>1. IInv'  BY <1>2, CloseKeeps
  <2>2. Kind' = Kind /\ UNCHANGED <<dmap, dir_table>> /\ Data' = Data /\ Taken' = Taken
    <3>1. t_fp # None /\ t_fp' = None /\ dinodes' = [dinodes EXCEPT ![t_fp.i_into] = OnDisk(t_fp)]
          /\ UNCHANGED <<dmap, dir_table>>
      BY <1>2 DEF close_f
    <3>2. dinodes \in [Inodes -> DirInode] /\ t_fp \in OpenInode  BY <3>1, TypeByName DEF IInv
    <3>3. PICK i \in Inodes : i = t_fp.i_into  BY <3>2 DEF OpenInode
    <3>4. \A j \in Inodes : dinodes'[j] = IF j = i THEN OnDisk(t_fp) ELSE dinodes[j]  BY <3>1, <3>2, <3>3
    <3>5. \A j \in Inodes : /\ (Node(j).dir_or_file)' = Node(j).dir_or_file
                            /\ (Node(j).direct_addr)' = Node(j).direct_addr
      BY <3>1, <3>3, <3>4 DEF Node, OnDisk
    <3> QED  BY <3>1, <3>5 DEF Kind, Data, Taken
  <2>3. Tree = TreeIn(dir_table, Kind, Taken, Data) /\ Tree' = TreeIn(dir_table', Kind', Taken', Data')
    BY <2>1, TreeByTable, NextTreeByTable
  <2> QED  BY <2>2, <2>3
<1> QED  BY <1>1, <1>2 DEF FileCommand

\* Whatever was made, removed and used again before, a command does to the tree what it
\* says and nothing else.
THEOREM CommandsCorrect ==
  ASSUME ~Mixed
  PROVE  Spec => CommandsKept
<1>1. IInv => TableCommand /\ FileCommand  BY TableCommandKept, FileCommandKept
<1>2. IInv /\ [Next]_vars => [IF dir_table' # dir_table THEN TableCommand ELSE FileCommand]_vars  BY <1>1
<1> QED  BY <1>2, Invariance, PTL DEF Spec, CommandsKept
=============================================================================
