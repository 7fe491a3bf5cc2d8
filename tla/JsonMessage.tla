----------------------------- MODULE JsonMessage -----------------------------
(***************************************************************************)
(* JSON values as the library writes and reads them (json_message.h and    *)
(* .cpp, over rapidjson).                                                  *)
(*                                                                         *)
(* An object is a function from the names of its members; an array is a    *)
(* sequence.  What operator[] has added and nothing was assigned to is the *)
(* empty string; since operator[] makes an object of whatever is not one,  *)
(* that is also the object without members.                                *)
(***************************************************************************)
EXTENDS Naturals, Sequences

Empty == <<>>

HasMember(value, name) == name \in DOMAIN value

\* value[name] = member: the member is added if it is missing, and assigned otherwise.
Assign(value, name, member) ==
  [n \in DOMAIN value \cup {name} |-> IF n = name THEN member ELSE value[n]]

\* A reference to value[name], as it is before anything is assigned to it.
Member(value, name) == IF HasMember(value, name) THEN value[name] ELSE Empty

\* Reading a member through a const message throws if it is missing.
CanReadMembers(value, names) == \A name \in names : HasMember(value, name)
=============================================================================
