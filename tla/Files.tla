-------------------------------- MODULE Files --------------------------------
(***************************************************************************)
(* Files and the containers they are kept in: kernel/utils/vector.c,       *)
(* handle_table.c and hash_table.c (libraries/libcommon has copies of      *)
(* them), files/file_table.c and process/fd_table.c, as operators on the   *)
(* value of a container.                                                   *)
(*                                                                         *)
(* A file_t is named by its global handle, which is its own for ever:      *)
(* nothing that closes a file has a caller.  kmalloc does not fail here.   *)
(* A path is its value, and the hash function a constant.                  *)
(***************************************************************************)
EXTENDS Naturals, Sequences

CONSTANTS
  Capacity,         \* of a new vector: 16 for pages, 64 for handles
  BucketCount,      \* DEFAULT_FILE_PATH_CAPACITY
  Hash,             \* the hash of each path
  NoPath,           \* NULL
  Unset             \* memory that was not written since kmalloc

ASSUME FilesAssumption ==
  /\ {Capacity, BucketCount} \subseteq Nat \ {0}
  /\ \A path \in DOMAIN Hash : Hash[path] \in Nat

-----------------------------------------------------------------------------
vector_init(capacity) ==
  [size |-> 0, capacity |-> capacity, data |-> [i \in 0..(capacity - 1) |-> Unset]]

\* A block of twice the size, to which the elements are copied.
expand_capacity(v) ==
  [size |-> v.size, capacity |-> 2 * v.capacity,
   data |-> [i \in 0..(2 * v.capacity - 1) |-> IF i < v.size THEN v.data[i] ELSE Unset]]

vector_push_back(v, x) ==
  LET room == IF v.size >= v.capacity THEN expand_capacity(v) ELSE v
  IN  [room EXCEPT !.data[v.size] = x, !.size = @ + 1]

\* The indices vector_get and handle_table_get accept, and what they find.
Indices(v) == 0..(v.size - 1)
vector_get(v, i) == v.data[i]

\* A handle is an index of the vector; the new one is the last.
handle_table_insert(t, x) == vector_push_back(t, x)
handle_table_get(t, handle) == vector_get(t, handle)
LastHandle(t) == t.size - 1

-----------------------------------------------------------------------------
\* The buckets of a hash table are lists of nodes, the newest first.
hash_table_init == [b \in 0..(BucketCount - 1) |-> <<>>]

hash_key_to_index(key) == Hash[key] % BucketCount

\* The nodes of a bucket whose key is the one that is looked for.
find_node_by_bucket(h, b, key) == {i \in DOMAIN h[b] : h[b][i].key = key}

hash_table_contains(h, key) == find_node_by_bucket(h, hash_key_to_index(key), key) # {}

hash_table_get(h, key) ==
  LET b == hash_key_to_index(key)
      found == find_node_by_bucket(h, b, key)
  IN  h[b][CHOOSE i \in found : \A j \in found : i <= j].data

hash_table_set(h, key, data) ==
  LET b == hash_key_to_index(key)
      found == find_node_by_bucket(h, b, key)
  IN  IF found = {} THEN [h EXCEPT ![b] = <<[key |-> key, data |-> data]>> \o @]
      ELSE [h EXCEPT ![b][CHOOSE i \in found : \A j \in found : i <= j].data = data]

-----------------------------------------------------------------------------
file_table_init == [files |-> vector_init(Capacity), paths |-> hash_table_init]

\* A file without a path is found by its handle only.
file_table_open(ft, path, file) ==
  LET files == handle_table_insert(ft.files, file)
  IN  [files |-> files,
       paths |-> IF path = NoPath THEN ft.paths
                 ELSE hash_table_set(ft.paths, path, LastHandle(files))]

file_table_get(ft, handle) == handle_table_get(ft.files, handle)

file_table_get_by_path(ft, path) == hash_table_get(ft.paths, path)

fd_table_init == vector_init(Capacity)
fd_table_open(fds, file) == handle_table_insert(fds, file)
fd_table_get(fds, fd) == handle_table_get(fds, fd)

-----------------------------------------------------------------------------
\* What a vector holds.
Elements(v) == {v.data[i] : i \in Indices(v)}

\* The elements that have been pushed are there, and only they.
VectorOK(v, E) ==
  /\ v.size <= v.capacity /\ DOMAIN v.data = 0..(v.capacity - 1)
  /\ \A i \in DOMAIN v.data : v.data[i] \in IF i < v.size THEN E ELSE {Unset}
=============================================================================
