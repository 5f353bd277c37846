---------------------------- MODULE SharedNames ----------------------------
(***************************************************************************)
(* shared_name_storage (src/sources/shared_name_storage): names and the    *)
(* shared pointers that stand for them, in a map from names to pointers    *)
(* and a set of the pointers.  A client keeps pointers in variables of its *)
(* own, may write through them, and asks with check_shared() whether one   *)
(* is in the set.  The address of a string that nobody points to is used   *)
(* again.                                                                  *)
(***************************************************************************)
EXTENDS FiniteSets, Functions

CONSTANTS Names,
          Ids,                \* addresses of strings
          Handles,            \* the variables of clients
          NoId

ASSUME NamesAssumption == NoId \notin Ids /\ "" \notin Names

VARIABLES str2shared_,        \* of each name its address, or NoId
          shared_set_,
          text,               \* of each address: the string there
          handle,             \* of each variable: an address, or NoId
          tampered,           \* history: a client wrote over a name
          asked               \* history: the name each pointer was got for,
                              \* "" if it was not there or was deleted since
namesvars == <<str2shared_, shared_set_, text, handle, tampered, asked>>

NamesInit == /\ str2shared_ = [n \in Names |-> NoId]
             /\ shared_set_ = {}
             /\ text = [i \in Ids |-> ""]
             /\ handle = [h \in Handles |-> NoId]
             /\ tampered = FALSE
             /\ asked = [h \in Handles |-> ""]

Used == Range(str2shared_) \cup shared_set_ \cup Range(handle)

(* A new shared_string( new std::string( s ) ).                            *)
MakeShared(i, s) == i \in Ids \ Used /\ text' = [text EXCEPT ![i] = s]

-----------------------------------------------------------------------------
add_name_again(n) ==                          \* mutant: no test of the name
    /\ \E i \in Ids : /\ MakeShared(i, n)
                      /\ str2shared_' = [str2shared_ EXCEPT ![n] = i]
                      /\ shared_set_' = shared_set_ \cup {i}
    /\ UNCHANGED <<handle, tampered, asked>>

(* add_name() and operator<<; a name that is there is left alone.          *)
add_name(n) ==
    /\ str2shared_[n] = NoId
    /\ \E i \in Ids : /\ MakeShared(i, n)
                      /\ str2shared_' = [str2shared_ EXCEPT ![n] = i]
                      /\ shared_set_' = shared_set_ \cup {i}
    /\ UNCHANGED <<handle, tampered, asked>>

(* get_shared(): a name that is not there gives a pointer to a new empty   *)
(* string, which is in neither container.                                  *)
get_shared(h, n) ==
    /\ \/ /\ str2shared_[n] # NoId
          /\ handle' = [handle EXCEPT ![h] = str2shared_[n]]
          /\ asked' = [asked EXCEPT ![h] = n]
          /\ UNCHANGED text
       \/ /\ str2shared_[n] = NoId
          /\ \E i \in Ids : /\ MakeShared(i, "")
                            /\ handle' = [handle EXCEPT ![h] = i]
          /\ asked' = [asked EXCEPT ![h] = ""]
    /\ UNCHANGED <<str2shared_, shared_set_, tampered>>

check_shared(h) == handle[h] \in shared_set_

(* Whoever got a pointer for n got it for a name that is deleted now.      *)
Deleted(n) == asked' = [x \in Handles |-> IF asked[x] = n THEN "" ELSE asked[x]]

(* del_name( string ).                                                     *)
del_name_map(n) ==                            \* mutant: the set is forgotten
    /\ str2shared_[n] # NoId
    /\ str2shared_' = [str2shared_ EXCEPT ![n] = NoId]
    /\ Deleted(n)
    /\ UNCHANGED <<shared_set_, text, handle, tampered>>

del_name(n) ==
    /\ str2shared_[n] # NoId
    /\ shared_set_' = shared_set_ \ {str2shared_[n]}
    /\ str2shared_' = [str2shared_ EXCEPT ![n] = NoId]
    /\ Deleted(n)
    /\ UNCHANGED <<text, handle, tampered>>

(* del_name( shared_string ): the map is searched for the text the string  *)
(* has now.  A pointer that is not in the set is refused.                  *)
del_shared(h) ==
    /\ check_shared(h)
    /\ str2shared_' = [n \in Names |-> IF n = text[handle[h]] THEN NoId ELSE str2shared_[n]]
    /\ shared_set_' = shared_set_ \ {handle[h]}
    /\ Deleted(asked[h])
    /\ UNCHANGED <<text, handle, tampered>>

clear == /\ shared_set_' = {}
         /\ str2shared_' = [n \in Names |-> NoId]
         /\ tampered' = FALSE
         /\ asked' = [h \in Handles |-> ""]
         /\ UNCHANGED <<text, handle>>

(* A client writes a string through its pointer, or gives the pointer up.  *)
Write(h, s) ==
    /\ handle[h] # NoId /\ text[handle[h]] # s
    /\ text' = [text EXCEPT ![handle[h]] = s]
    /\ tampered' = (tampered \/ check_shared(h))
    /\ UNCHANGED <<str2shared_, shared_set_, handle, asked>>

Forget(h) == /\ handle[h] # NoId
             /\ handle' = [handle EXCEPT ![h] = NoId]
             /\ asked' = [asked EXCEPT ![h] = ""]
             /\ UNCHANGED <<str2shared_, shared_set_, text, tampered>>

NamesNext == \/ \E n \in Names : add_name(n) \/ del_name(n)
             \/ \E h \in Handles :
                  \/ del_shared(h) \/ Forget(h)
                  \/ \E n \in Names : get_shared(h, n)
                  \/ \E s \in Names \cup {""} : Write(h, s)
             \/ clear

NamesSpec == NamesInit /\ [][NamesNext]_namesvars

-----------------------------------------------------------------------------
NamesTypeOK == /\ str2shared_ \in [Names -> Ids \cup {NoId}]
               /\ shared_set_ \in SUBSET Ids
               /\ text \in [Ids -> Names \cup {""}]
               /\ handle \in [Handles -> Ids \cup {NoId}]
               /\ tampered \in BOOLEAN
               /\ asked \in [Handles -> Names \cup {""}]

(* As long as no client writes over the text of a name, map and set hold   *)
(* the same pointers, one for each name, and each points to its name: what *)
(* check_shared() accepts, get_shared() gives for the text of it.          *)
OneIdPerName ==
    /\ NamesTypeOK
    /\ ~tampered =>
         /\ shared_set_ = Range(str2shared_) \ {NoId}
         /\ \A n \in Names : str2shared_[n] # NoId => text[str2shared_[n]] = n

(* As long as no client writes over the text of a name, check_shared()     *)
(* accepts exactly the pointers that were got for a name that was there    *)
(* and was not deleted since.  A pointer is refused from the deletion of   *)
(* its name on, also when the name is added again and when addresses are   *)
(* used again, and it is refused for no other reason.                      *)
AcceptedWhileNamed ==
    ~tampered => \A h \in Handles : check_shared(h) <=> asked[h] # ""
=============================================================================
