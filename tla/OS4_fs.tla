-------------------------------- MODULE OS4_fs --------------------------------
(***************************************************************************)
(* OS4_fs.cpp: a file system in one file. Bitmaps say which entries of the *)
(* table of directories, which inodes and which blocks are free; an entry  *)
(* of a directory names an inode and, for a subdirectory, its place in the *)
(* table, which the inode and the table itself repeat. One file is open at *)
(* a time, with an inode in memory that close_f writes back.               *)
(*                                                                         *)
(* The user is careful: names are new, a command is given what it is for,  *)
(* a file is closed before another is made or opened, before it is deleted *)
(* and before the program ends, and the directory one is in is not         *)
(* removed. (Rights play no part: all nodes get 75, and each mode that a   *)
(* command asks for shares a bit with the 7 and with the 5.)               *)
(***************************************************************************)
EXTENDS Integers, Sequences, FiniteSets

CONSTANTS
  Names, None,
  Word,                              \* the bits of a word of a bitmap (64)
  DMAP_SIZE, IMAP_SIZE, BMAP_SIZE,   \* the words of the bitmaps
  DIR_INCLUDE_NUM,                   \* the slots of a directory (128)
  D_ADDR_NUM,                        \* the direct blocks of a file (5)
  Mixed,                             \* whether a directory may hold both files and directories
  Depth                              \* bound: the length of a path

(* There are fewer inodes than places for directories (1024 and 2048), so  *)
(* that places do not run out, of which 0, the root's, is marked as free.  *)
ASSUME SizeAssumption ==
  /\ {Word, DMAP_SIZE, IMAP_SIZE, BMAP_SIZE, DIR_INCLUDE_NUM, D_ADDR_NUM, Depth} \subseteq Nat \ {0}
  /\ IMAP_SIZE < DMAP_SIZE
  /\ None \notin Names /\ Mixed \in BOOLEAN

Dirs   == 0 .. DMAP_SIZE * Word - 1
Inodes == 0 .. IMAP_SIZE * Word - 1
Blocks == 0 .. BMAP_SIZE * Word - 1
Slots  == 0 .. DIR_INCLUDE_NUM - 1

VARIABLES
  dmap, imap, bmap,    \* the bitmaps: the ids that are free
  dir_table, dinodes,
  t_fp,                \* the inode in memory of the open file, or None
  curr_dir_id, curr_path
whereVars == <<curr_dir_id, curr_path>>
vars == <<dmap, imap, bmap, dir_table, dinodes, t_fp, whereVars>>

(* static memory is zero; of direct_addr, as many as have been set.        *)
NoDir   == [d_name |-> None, inode_id |-> 0, parent_id |-> 0, sub_cnt |-> 0,
            file_name |-> [s \in Slots |-> None], file_inode |-> [s \in Slots |-> 0], sub_dir_ids |-> [s \in Slots |-> 0]]
NoInode == [dir_or_file |-> "none", parent_id |-> 0, direct_addr |-> <<>>]
InMemory(node, i) == [i_into |-> i, dir_or_file |-> node.dir_or_file,
                      parent_id |-> node.parent_id, direct_addr |-> node.direct_addr]
OnDisk(fp) == [dir_or_file |-> fp.dir_or_file, parent_id |-> fp.parent_id, direct_addr |-> fp.direct_addr]
(* Mutant: the new blocks come after those that the file had.              *)
OverAppends(new, old) == old \o new
Over(new, old) == new \o SubSeq(old, Len(new) + 1, Len(old))

(* format_fs: of each bitmap but the last, the first bit of the last word  *)
(* is taken for the root, which is at 0.                                   *)
Init ==
  /\ dmap = Dirs \ {(DMAP_SIZE - 1) * Word}
  /\ imap = Inodes \ {(IMAP_SIZE - 1) * Word}
  /\ bmap = Blocks
  /\ dir_table = [d \in Dirs |-> NoDir]
  /\ dinodes = [[i \in Inodes |-> NoInode] EXCEPT
                  ![0] = [dir_or_file |-> "dir", parent_id |-> -1, direct_addr |-> <<0>>]]
  /\ t_fp = None /\ curr_dir_id = 0 /\ curr_path = <<>>

-----------------------------------------------------------------------------
(* diralloc, ialloc, balloc: the first free bit of the last word with one. *)
Alloc(map) ==
  CHOOSE i \in map : /\ \A j \in map : j \div Word <= i \div Word
                     /\ \A j \in map : j \div Word = i \div Word => i <= j

(* dirfree, ifree: the bit is flipped, whatever it was.                    *)
Freed(map, id) == IF id \in map THEN map \ {id} ELSE map \cup {id}

(* balloc called n times: the blocks, in order; fewer if there are fewer.  *)
(* Mutant: the bit of a block is not set before the next one is looked for. *)
AllocatedSame(map, n) == [k \in 1 .. n |-> Alloc(map)]
Allocated(map, n) ==
  LET left[k \in 0 .. n] == IF k = 0 \/ left[k - 1] = {} THEN (IF k = 0 THEN map ELSE {})
                            ELSE left[k - 1] \ {Alloc(left[k - 1])}
      m == IF n <= Cardinality(map) THEN n ELSE Cardinality(map)
  IN [k \in 1 .. m |-> Alloc(left[k - 1])]

(* find: from the root, slot by slot; ok is FALSE where the code says -1.  *)
(* A slot with inode 0 leaves inode and directory as they were.            *)
Used(d) == 0 .. dir_table[d].sub_cnt - 1
Named(d, name) == {s \in Used(d) \cap Slots : dir_table[d].file_name[s] = name}
First(S) == CHOOSE s \in S : \A t \in S : s <= t
find(path) ==
  LET at[n \in 0 .. Len(path)] ==
        IF n = 0 THEN [ok |-> TRUE, dir |-> 0, inode |-> 0]
        ELSE LET w == at[n - 1]
                 S == Named(w.dir, path[n])
             IN IF ~w.ok \/ S = {} THEN [w EXCEPT !.ok = FALSE]
                ELSE IF dir_table[w.dir].file_inode[First(S)] = 0 THEN w
                ELSE [ok |-> TRUE, dir |-> dir_table[w.dir].sub_dir_ids[First(S)],
                      inode |-> dir_table[w.dir].file_inode[First(S)]]
  IN at[Len(path)]

-----------------------------------------------------------------------------
(* What the user knows: the nodes that there are.                          *)
Paths == UNION {[1 .. n -> Names] : n \in 1 .. Depth}
Node(i) == IF t_fp # None /\ t_fp.i_into = i THEN t_fp ELSE dinodes[i]
IsDirectory(p) == find(p).ok /\ Node(find(p).inode).dir_or_file = "dir"
Exists(p) == /\ find(p).ok
             /\ \A n \in 1 .. Len(p) - 1 : IsDirectory(SubSeq(p, 1, n))
IsFile(p) == Exists(p) /\ ~IsDirectory(p)
Below(p, q) == Len(q) <= Len(p) /\ SubSeq(p, 1, Len(q)) = q

(* Bounds of the session, which mkdir_t and create_f do not check: a       *)
(* directory has a slot left (the code writes past its slots), the depth,  *)
(* and an inode is left outside the first word, whose first one is the     *)
(* root's although its bit says that it is free. So what mkdir_t does      *)
(* without an inode, which frees an entry by an id that is not set yet, is *)
(* left out.                                                               *)
Room == /\ dir_table[curr_dir_id].sub_cnt < DIR_INCLUDE_NUM
        /\ Len(curr_path) < Depth
        /\ \E i \in imap : i >= Word
Only(kind) == Mixed \/ \A s \in Used(curr_dir_id) :
                         Node(dir_table[curr_dir_id].file_inode[s]).dir_or_file = kind

-----------------------------------------------------------------------------
(* A new slot of directory d, and the removal of slot s, by moving those   *)
(* behind it: the last one keeps what it had.                              *)
Added(d, name, inode, sub_dir) ==
  LET k == d.sub_cnt IN
  [d EXCEPT !.sub_cnt = k + 1, !.file_name[k] = name, !.file_inode[k] = inode,
            !.sub_dir_ids[k] = sub_dir]
Moved(f, s, n) == [t \in Slots |-> IF t >= s /\ t + 1 < n THEN f[t + 1] ELSE f[t]]
(* Mutant: the ids of the subdirectories are not moved.                    *)
ShrunkPartly(d, S) ==
  LET k == d.sub_cnt IN
  IF S = {} THEN [d EXCEPT !.sub_cnt = k - 1]
  ELSE LET s == First(S) IN
       [d EXCEPT !.sub_cnt = k - 1, !.file_name = Moved(@, s, k), !.file_inode = Moved(@, s, k)]
(* Mutant: the last slot is given up, whatever is removed.                 *)
ShrunkLast(d, S) == [d EXCEPT !.sub_cnt = @ - 1]
Shrunk(d, S) ==
  LET k == d.sub_cnt IN
  IF S = {} THEN [d EXCEPT !.sub_cnt = k - 1]
  ELSE LET s == First(S) IN
       [d EXCEPT !.sub_cnt = k - 1, !.file_name = Moved(@, s, k),
                 !.file_inode = Moved(@, s, k), !.sub_dir_ids = Moved(@, s, k)]

(* memset counts bytes, and the ids are of four each.                      *)
Cleared(f) == [s \in Slots |-> IF s < DIR_INCLUDE_NUM \div 4 THEN 0 ELSE f[s]]
NewDir(d, name, inode, parent) ==
  [d EXCEPT !.d_name = name, !.inode_id = inode, !.parent_id = parent, !.sub_cnt = 0,
            !.file_inode = Cleared(@), !.sub_dir_ids = Cleared(@)]

mkdir_t(name) ==
  /\ Room /\ Named(curr_dir_id, name) = {} /\ Only("dir")
  /\ dmap # {}
  /\ LET s == Alloc(dmap)
         i == Alloc(imap)
         p == curr_dir_id
         parent == [dir_table EXCEPT ![p] = Added(@, name, i, s)]
     IN /\ dmap' = dmap \ {s} /\ imap' = imap \ {i}
        /\ dir_table' = [parent EXCEPT ![s] = NewDir(@, name, i, p)]
        /\ dinodes' = [dinodes EXCEPT ![i].dir_or_file = "dir", ![i].direct_addr = Over(<<s>>, @)]
  /\ UNCHANGED <<bmap, t_fp, whereVars>>

(* The inode of the directory is not freed, nor is what it contains.       *)
rmdir_t(path) ==
  /\ Exists(path) /\ IsDirectory(path)
  /\ ~Below(curr_path, path)
  /\ LET dir_id == dinodes[find(path).inode].direct_addr[1]
         p == dir_table[dir_id].parent_id
     IN /\ dir_table' = [dir_table EXCEPT
             ![p] = Shrunk(@, {s \in Used(p) \cap Slots : dir_table[p].sub_dir_ids[s] = dir_id})]
        /\ dmap' = Freed(dmap, dir_id)
  /\ UNCHANGED <<imap, bmap, dinodes, t_fp, whereVars>>

(* chdir_t, also to the root. The path that pwd shows is put together from *)
(* the names in the table, from the directory up (cpy_name_update).        *)
(* Mutant: only the directory's own name is copied.                        *)
PathNameShort(id) == IF id = 0 THEN <<>> ELSE <<dir_table[id].d_name>>
PathName(id) ==
  LET up[d \in Dirs] == IF d = 0 THEN <<>> ELSE Append(up[dir_table[d].parent_id], dir_table[d].d_name)
  IN up[id]
chdir_t(path) ==
  /\ path = <<>> \/ (Exists(path) /\ IsDirectory(path))
  /\ curr_dir_id' = IF path = <<>> THEN 0 ELSE dinodes[find(path).inode].direct_addr[1]
  /\ curr_path' = PathName(curr_dir_id')
  /\ UNCHANGED <<dmap, imap, bmap, dir_table, dinodes, t_fp>>

(* The slot's sub_dir_ids is left as it is, and the inode on disk too.     *)
create_f(name) ==
  /\ Room /\ Named(curr_dir_id, name) = {} /\ Only("file") /\ t_fp = None
  /\ LET i == Alloc(imap)
         p == curr_dir_id
     IN /\ imap' = imap \ {i}
        /\ dir_table' = [dir_table EXCEPT ![p] = Added(@, name, i, @.sub_dir_ids[@.sub_cnt])]
        /\ t_fp' = InMemory([NoInode EXCEPT !.dir_or_file = "file", !.parent_id = p], i)
  /\ UNCHANGED <<dmap, bmap, dinodes, whereVars>>

(* Mutant: the inode is freed, and the slot stays.                         *)
delete_fKeepsSlot(path) ==
  /\ IsFile(path) /\ t_fp = None
  /\ imap' = Freed(imap, find(path).inode)
  /\ UNCHANGED <<dmap, bmap, dir_table, dinodes, t_fp, whereVars>>

(* The blocks of the file are not freed.                                   *)
delete_f(path) ==
  /\ IsFile(path) /\ t_fp = None
  /\ LET i == find(path).inode
         p == dinodes[i].parent_id
     IN /\ dir_table' = [dir_table EXCEPT
             ![p] = Shrunk(@, {s \in Used(p) \cap Slots : dir_table[p].file_inode[s] = i})]
        /\ imap' = Freed(imap, i)
  /\ UNCHANGED <<dmap, bmap, dinodes, t_fp, whereVars>>

open_f(path) ==
  /\ IsFile(path) /\ t_fp = None
  /\ t_fp' = InMemory(dinodes[find(path).inode], find(path).inode)
  /\ UNCHANGED <<dmap, imap, bmap, dir_table, dinodes, whereVars>>

close_f ==
  /\ t_fp # None
  /\ dinodes' = [dinodes EXCEPT ![t_fp.i_into] = OnDisk(t_fp)]
  /\ t_fp' = None
  /\ UNCHANGED <<dmap, imap, bmap, dir_table, whereVars>>

(* write_f, of what fits into the direct blocks: the first n of them are   *)
(* new, or as many as there are.                                           *)
write_f(n) ==
  /\ t_fp # None /\ bmap # {}
  /\ LET new == Allocated(bmap, n)
     IN /\ t_fp' = [t_fp EXCEPT !.direct_addr = Over(new, @)]
        /\ bmap' = bmap \ {new[k] : k \in DOMAIN new}
  /\ UNCHANGED <<dmap, imap, dir_table, dinodes, whereVars>>

(* halt, and a new start with read_fs.                                     *)
Restart ==
  /\ t_fp = None /\ curr_dir_id' = 0 /\ curr_path' = <<>>
  /\ UNCHANGED <<dmap, imap, bmap, dir_table, dinodes, t_fp>>

Next ==
  \/ \E name \in Names : mkdir_t(name) \/ create_f(name)
  \/ \E path \in Paths : rmdir_t(path) \/ delete_f(path) \/ open_f(path)
  \/ \E path \in Paths \cup {<<>>} : chdir_t(path)
  \/ close_f \/ (\E n \in 1 .. D_ADDR_NUM : write_f(n)) \/ Restart

Spec == Init /\ [][Next]_vars
-----------------------------------------------------------------------------
DirInode == [dir_or_file : {"none", "file", "dir"}, parent_id : Dirs \cup {-1},
             direct_addr : UNION {[1 .. n -> Dirs \cup Blocks] : n \in 0 .. D_ADDR_NUM}]
OpenInode == [i_into : Inodes, dir_or_file : {"none", "file", "dir"}, parent_id : Dirs \cup {-1},
              direct_addr : UNION {[1 .. n -> Dirs \cup Blocks] : n \in 0 .. D_ADDR_NUM}]
ASSUME NoneAssumption == None \notin OpenInode

(* The type of every variable.                                             *)
TypeOK ==
  /\ dmap \subseteq Dirs /\ imap \subseteq Inodes /\ bmap \subseteq Blocks
  /\ dir_table \in [Dirs -> [d_name : Names \cup {None}, inode_id : Inodes, parent_id : Dirs,
                             sub_cnt : 0 .. DIR_INCLUDE_NUM,
                             file_name : [Slots -> Names \cup {None}],
                             file_inode : [Slots -> Inodes], sub_dir_ids : [Slots -> Dirs]]]
  /\ dinodes \in [Inodes -> DirInode]
  /\ t_fp \in OpenInode \cup {None}
  /\ curr_dir_id \in Dirs /\ curr_path \in Paths \cup {<<>>}

(* The tree of what there is: the blocks of each file, None for each       *)
(* directory.                                                              *)
Tree == [p \in {q \in Paths : Exists(q)} |->
           IF IsDirectory(p) THEN None ELSE Node(find(p).inode).direct_addr]

(* Where a directory is stands in three places, by which find, rmdir_t and *)
(* delete_f go: its slot, its inode and the table. They agree for all that *)
(* can be found from the root, and none of it is marked as free; in        *)
(* particular where slots have moved up and entries are used again.        *)
Reached == {0} \cup {find(p).dir : p \in {q \in Paths : Exists(q) /\ IsDirectory(q)}}
EntriesAgree ==
  \A d \in Reached : \A s \in Used(d) :
    LET i == dir_table[d].file_inode[s]
        sub == dir_table[d].sub_dir_ids[s]
    IN /\ i \notin imap
       /\ CASE Node(i).dir_or_file = "dir" ->
                 /\ sub \notin dmap /\ dinodes[i].direct_addr[1] = sub
                 /\ dir_table[sub].inode_id = i /\ dir_table[sub].parent_id = d
            [] Node(i).dir_or_file = "file" -> Node(i).parent_id = d
            [] OTHER -> FALSE

(* pwd shows the path of the directory in which commands work, and that    *)
(* directory is still there.                                               *)
PathIsHere == find(curr_path).ok /\ find(curr_path).dir = curr_dir_id /\ curr_dir_id \in Reached

(* Different paths lead to different inodes, so that no directory and no   *)
(* data is reached by two names.                                           *)
OneName == Cardinality({find(p).inode : p \in DOMAIN Tree}) = Cardinality(DOMAIN Tree)

(* No block belongs to two files, or twice to one, and none of a file is   *)
(* given out again.                                                        *)
BlocksOwned ==
  LET data == Tree
      uses == {u \in (DOMAIN data) \X (1 .. D_ADDR_NUM) : data[u[1]] # None /\ u[2] \in DOMAIN data[u[1]]}
      owned == {data[u[1]][u[2]] : u \in uses}
  IN owned \cap bmap = {} /\ Cardinality(owned) = Cardinality(uses)

(* A command does to the tree what it says and nothing else: no file or    *)
(* directory appears, vanishes or changes because of another one, whatever *)
(* was made, removed and used again before.                                *)
With(tree, p, node) == [q \in DOMAIN tree \cup {p} |-> IF q = p THEN node ELSE tree[q]]
Without(tree, p)    == [q \in {r \in DOMAIN tree : ~Below(r, p)} |-> tree[q]]
TableCommand ==
  /\ \A name \in Names :
       /\ mkdir_t(name) => Tree' = With(Tree, Append(curr_path, name), None)
       /\ create_f(name) => Tree' = With(Tree, Append(curr_path, name), <<>>)
  /\ \A p \in Paths : rmdir_t(p) \/ delete_f(p) => Tree' = Without(Tree, p)
FileCommand ==
  /\ \A n \in 1 .. D_ADDR_NUM : write_f(n) =>
       \A p \in Paths : IsFile(p) /\ find(p).inode = t_fp.i_into => Tree' = With(Tree, p, t_fp'.direct_addr)
  /\ close_f => Tree' = Tree
CommandsKept == [][IF dir_table' # dir_table THEN TableCommand ELSE FileCommand]_vars
=============================================================================
