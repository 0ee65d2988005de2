------------------------------ MODULE LinkedList ------------------------------
(* The lists of <linux/list.h>, as run lists and wait queues use them: a     *)
(* list_head is the sequence of the entries that hang from it.               *)
EXTENDS Sequences, SequencesExt

\* list_del_init of an entry that is on no list changes no list.
list_del_init(s, p) ==
    IF \E k \in DOMAIN s : s[k] = p
    THEN RemoveAt(s, CHOOSE k \in DOMAIN s : s[k] = p)
    ELSE s

\* list_add and list_add_tail.
list_insert(s, p, head) == IF head THEN <<p>> \o s ELSE Append(s, p)

list_move(s, p, head) == list_insert(list_del_init(s, p), p, head)
=============================================================================
