----------------------------- MODULE TokenSystem -----------------------------
(***************************************************************************)
(* protocols/erc20-token-system: the token registry, a struct of arrays    *)
(* with two index maps, whose operations TokenSystem runs under one lock.  *)
(* Name, symbol and decimals never change after AddToken and are left out; *)
(* fee and gas are written together and are one value.                     *)
(***************************************************************************)
EXTENDS Naturals, Sequences, Functions

CONSTANT NoFee      \* fee and gas of a token that was only added

NewTokenRegistry ==
    [rows |-> <<>>, idToIndex |-> <<>>, addressToID |-> <<>>, nextID |-> 1]

\* A Go map with one more entry, and with one less.
With(m, k, v) == [x \in DOMAIN m \cup {k} |-> IF x = k THEN v ELSE m[x]]
Without(m, k) == Restrict(m, DOMAIN m \ {k})

viewRegistry(r) == r.rows

\* The registry rebuilt from a view that has neither an ID nor an address twice.
FromViews(views) ==
    LET ids == {views[i].id : i \in DOMAIN views}
        At(id) == CHOOSE i \in DOMAIN views : views[i].id = id
        Of(a) == CHOOSE i \in DOMAIN views : views[i].address = a
    IN  [rows |-> views,
         idToIndex |-> [id \in ids |-> At(id)],
         addressToID |-> [a \in {views[i].address : i \in DOMAIN views} |-> views[Of(a)].id],
         nextID |-> 1 + (CHOOSE m \in ids \cup {0} : \A id \in ids : id <= m)]

CanAdd(r, a) == a \notin DOMAIN r.addressToID

addToken(r, a) ==
    [rows |-> Append(r.rows, [id |-> r.nextID, address |-> a, fee |-> NoFee]),
     idToIndex |-> With(r.idToIndex, r.nextID, Len(r.rows) + 1),
     addressToID |-> With(r.addressToID, a, r.nextID),
     nextID |-> r.nextID + 1]

\* Mutant: the fees are not moved with the rest of the row.
SwapPopLeavesFee(rows, d) ==
    [i \in 1..(Len(rows) - 1) |->
        IF i = d THEN [rows[Len(rows)] EXCEPT !.fee = rows[d].fee] ELSE rows[i]]

\* The last row takes the place of the deleted one.
SwapPop(rows, d) ==
    [i \in 1..(Len(rows) - 1) |-> IF i = d THEN rows[Len(rows)] ELSE rows[i]]

CanFind(r, id) == id \in DOMAIN r.idToIndex

deleteToken(r, id) ==
    LET d == r.idToIndex[id]
    IN  [r EXCEPT !.rows = SwapPop(@, d),
                  !.idToIndex = Without(With(@, r.rows[Len(r.rows)].id, d), id),
                  !.addressToID = Without(@, r.rows[d].address)]

updateToken(r, id, fee) == [r EXCEPT !.rows[r.idToIndex[id]].fee = fee]

getTokenByAddress(r, a) == r.rows[r.idToIndex[r.addressToID[a]]]
==============================================================================
