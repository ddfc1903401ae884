----------------------------- MODULE VarTracker -----------------------------
(***************************************************************************)
(* VarTracker: the variables of the contract being generated, by type and  *)
(* level of block, and the counters their names are made from, as          *)
(* operations on a tracker [vars, ids] that Converter applies.  The nested *)
(* dictionaries of the code are one set of variables here; a lookup yields *)
(* the whole list the code builds, of which a caller picks any element.    *)
(* reset_function_variables is left out, and _global_var_id_map, which     *)
(* serves nothing else: its calls (typed_converters.py:160 and :174) are   *)
(* commented out.                                                          *)
(***************************************************************************)
EXTENDS Naturals

CONSTANTS
  Type,     \* types of variables, as records; see below
  NoElem,   \* field elem of a type that is not a fixed list
  MaxLevel  \* bound: deepest level a variable is registered at

\* The fields of a type.
\* name: what the ids are counted by ("INT" for integers of all widths).
\* key: what variables are looked up by.  It is vyper_type, but the base type for a
\*   dynamic array and the class for Bytes and String, which also have a width.
\* elem: the key of the elements of a fixed list, which can be used on their own.
Name == {t.name : t \in Type}

Key(mutable) == IF mutable THEN "__function__" ELSE "__readonly__"

\* A variable: its type, the number in its name, its level and its dictionary.
Variable == [type : Type, id : Nat, level : 0 .. MaxLevel,
             key : {Key(TRUE), Key(FALSE)}]

\* ids holds the next number; the code holds the last one.
Blank == [vars |-> {}, ids |-> [n \in Name |-> 0]]

-----------------------------------------------------------------------------
(* Operations, as functions of the tracker tr.                             *)

NextId(tr, t) == tr.ids[t.name]

\* The entry of a variable in the dictionary of its kind of type.
Entry(t, id, level, mutable) ==
  [type |-> t, id |-> id, level |-> level, key |-> Key(mutable)]

\* register_function_variable, for a name that contains the number id.
Registered(tr, t, id, level, mutable) ==
  [vars |-> tr.vars \cup {Entry(t, id, level, mutable)},
   ids |-> [tr.ids EXCEPT ![t.name] = @ + 1]]

\* create_and_register_variable: the name contains the next number.
Created(tr, t, level, mutable) ==
  Registered(tr, t, NextId(tr, t), level, mutable)

\* remove_function_level
RemovedLevel(tr, level, mutable) ==
  [tr EXCEPT !.vars = {v \in @ : ~ (v.level = level /\ v.key = Key(mutable))}]

\* Is v, by its type, among the variables for type t?  (_get_dyns: a sized variable can
\* be read as a wider one, and assigned from a narrower one.)
Suits(v, t, assignee) ==
  /\ v.type.key = t.key
  /\ IF assignee THEN v.type.width >= t.width ELSE v.type.width <= t.width

\* _get_list_items: the lists among the variables V whose items have type t.
ListsOf(V, t) == {v \in V : v.type.elem = t.key}

\* _get_vars: the variables up to the level that can be used for type t.
GetVars(tr, t, level, mutable, assignee) ==
  LET visible == {v \in tr.vars : v.level <= level /\ v.key = Key(mutable)}
  IN  [var : {v \in visible : Suits(v, t, assignee)}, item : {FALSE}] \cup
      [var : ListsOf(visible, t), item : {TRUE}]

\* get_global_vars
GetGlobalVars(tr, t) == GetVars(tr, t, 0, TRUE, FALSE)

=============================================================================
