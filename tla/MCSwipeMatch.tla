---------------------------- MODULE MCSwipeMatch ----------------------------
(***************************************************************************)
(* Instances of SwipeMatch for TLC.                                        *)
(***************************************************************************)
EXTENDS SwipeMatch

CONSTANTS phone1, phone2, ann, bob, eve

\* Everybody has a phone of their own and sees the other's card.
OwnPhones == [d \in {phone1, phone2} |-> IF d = phone1 THEN {ann} ELSE {bob}]
OwnCards  == [d \in {phone1, phone2} |-> IF d = phone1 THEN {bob} ELSE {ann}]

\* ann and eve share the first phone.
SharedPhone == [d \in {phone1, phone2} |-> IF d = phone1 THEN {ann, eve} ELSE {bob}]
SharedCards == [d \in {phone1, phone2} |-> IF d = phone1 THEN {bob} ELSE {ann, eve}]
=============================================================================
