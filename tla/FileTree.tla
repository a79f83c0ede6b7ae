------------------------------ MODULE FileTree ------------------------------
(***************************************************************************)
(* What the mounted file system promises the kernel: a tree of directories *)
(* whose names each stand for one node, and files that hold what was       *)
(* written to them.  rep is the last call together with its answer.        *)
(***************************************************************************)
EXTENDS Integers, Sequences

CONSTANTS Ids, Root, Names, Targets, Data, Offsets, Sizes

Dir == 1
File == 2
Link == 3

VARIABLES kind,     \* Dir, File or Link; 0 for an id that is not in use
          names,    \* for every directory the node each of its names stands for
          content,  \* what the files and links hold
          part,     \* the ids that a node has taken to keep its content in
          rep,      \* the last call and its answer
          up        \* FALSE once the server has run out of room and ended

vars == <<kind, names, content, part, rep, up>>

Init == /\ kind = [i \in Ids |-> IF i = Root THEN Dir ELSE 0]
        /\ names = [i \in Ids |-> <<>>]
        /\ content = [i \in Ids |-> <<>>]
        /\ part = [i \in Ids |-> {}]
        /\ rep = <<"init">>
        /\ up = TRUE

(* Node id takes and gives back what it likes of the ids that are no node  *)
(* and part of no other one.                                               *)
Retakes(id) ==
    /\ part' = [part EXCEPT ![id] = part'[id]]
    /\ \A p \in part'[id] : kind'[p] = 0 /\ \A i \in Ids \ {id} : p \notin part[i]

(* A new node under a name that is not taken, else EEXIST, the answer 0;   *)
(* a link comes with its target.                                           *)
Make(parent, name, type, data) ==
    /\ kind[parent] = Dir
    /\ \/ /\ name \in DOMAIN names[parent]
          /\ rep' = <<"make", parent, name, type, data, 0>>
          /\ UNCHANGED <<kind, names, content, part>>
       \/ /\ name \notin DOMAIN names[parent]
          /\ \E id \in Ids :
               /\ kind[id] = 0 /\ \A i \in Ids : id \notin part[i]
               /\ kind' = [kind EXCEPT ![id] = type]
               /\ names' = [names EXCEPT ![parent] = [n \in DOMAIN @ \cup {name} |->
                                                       IF n = name THEN id ELSE @[n]]]
               /\ content' = [content EXCEPT ![id] = data]
               /\ Retakes(parent)
               /\ rep' = <<"make", parent, name, type, data, id>>

(* The kernel asks for unlink of what is not a directory.                  *)
Unlink(parent, name) ==
    /\ kind[parent] = Dir /\ name \in DOMAIN names[parent]
    /\ kind[names[parent][name]] # Dir
    /\ LET id == names[parent][name]
       IN /\ kind' = [kind EXCEPT ![id] = 0]
          /\ names' = [names EXCEPT ![parent] = [n \in DOMAIN @ \ {name} |-> @[n]]]
          /\ content' = [content EXCEPT ![id] = <<>>]
          /\ part' = [part EXCEPT ![id] = {}]
    /\ rep' = <<"unlink", parent, name>>

(* The bytes of s at off are replaced; a gap before off is filled with NUL.*)
Overlay(s, off, data) ==
    [k \in 1 .. (IF Len(s) > off + Len(data) THEN Len(s) ELSE off + Len(data)) |->
        IF k > off /\ k <= off + Len(data) THEN data[k - off]
        ELSE IF k <= Len(s) THEN s[k] ELSE 0]

Write(id, off, data) ==
    /\ kind[id] = File
    /\ content' = [content EXCEPT ![id] = Overlay(@, off, data)]
    /\ Retakes(id)
    /\ rep' = <<"write", id, off, data, Len(data)>>
    /\ UNCHANGED <<kind, names>>

(* The answer carries the new size.                                        *)
SetSize(id, size) ==
    /\ kind[id] = File
    /\ content' = [content EXCEPT ![id] = [k \in 1 .. size |-> IF k <= Len(@) THEN @[k] ELSE 0]]
    /\ Retakes(id)
    /\ rep' = <<"setattr", id, size, size>>
    /\ UNCHANGED <<kind, names>>

(* What is done to a file that was unlinked while open shows nowhere in    *)
(* the tree, nor in the node that is given its id next.  But a file may    *)
(* have taken the id meanwhile: then that one, and no other node, may hold *)
(* anything afterwards.                                                    *)
Orphan(id) ==
    /\ kind[id] = 0
    /\ \/ \E off \in Offsets, data \in Data : rep' = <<"write", id, off, data, Len(data)>>
       \/ \E size \in Sizes : rep' = <<"setattr", id, size, size>>
    /\ UNCHANGED <<kind, names>>
    /\ \/ UNCHANGED <<content, part>>
       \/ \E owner \in Ids : /\ id \in part[owner] /\ kind[owner] = File
                             /\ content' = [content EXCEPT ![owner] = content'[owner]]
                             /\ Retakes(owner)

Exhausted == up' = FALSE /\ UNCHANGED <<kind, names, content, part, rep>>

Next == /\ up
        /\ \/ Exhausted
           \/ /\ UNCHANGED up
              /\ \/ \E parent \in Ids, name \in Names :
                       \/ \E type \in {Dir, File} : Make(parent, name, type, <<>>)
                       \/ \E data \in Targets : Make(parent, name, Link, data)
                       \/ Unlink(parent, name)
                 \/ \E id \in Ids : \/ \E off \in Offsets, data \in Data : Write(id, off, data)
                                    \/ \E size \in Sizes : SetSize(id, size)
                                    \/ Orphan(id)

Spec == Init /\ [][Next]_vars
=============================================================================
