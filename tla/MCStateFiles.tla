---------------------------- MODULE MCStateFiles ----------------------------
(* A small instance of StateFiles: a data center that is known from the      *)
(* start and one with addresses of two lengths; secret chats up to three,    *)
(* one more than the placeholder in the file says, and one of them with a    *)
(* name that may have another length at each start.                          *)
EXTENDS StateFiles

MCDefault == [d \in {1} |-> 1]
MCIpLengths == [d \in DC |-> IF d = 1 THEN {1} ELSE {1, 2}]
MCNameLengths == [c \in Chat |-> IF c = 2 THEN {1, 2} ELSE {1}]

(* Bound: the third chat is not in one behaviour with the second data center *)
(* or with the long name.                                                    *)
ThirdChat == \E i \in DOMAIN secret : secret[i] = <<"id", 3>>
SecondCenter == 2 \in DOMAIN dcs \/ \E i \in DOMAIN auth : auth[i] = <<"ip", 2>>
LongName == \/ \E c \in DOMAIN names : names[c] = 2
            \/ \E i \in DOMAIN secret : secret[i] = <<"length", 2>>
MCConstraint == ThirdChat => ~SecondCenter /\ ~LongName
=============================================================================
