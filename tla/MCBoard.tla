-------------------------------- MODULE MCBoard --------------------------------
EXTENDS Views

CONSTANTS p1, p2, p3, c1, x1, x2

\* A run that ends with its initial failures, and one that goes on to the asset
\* the first began with: an intervention can save either's.
TwoAssets == {x1, x2}

OneHospital == {x2}

OneSubstation == {x1}

TwoShapes == {<<<<x1>>>>, <<<<x2>>, <<x1>>>>}

\* Three clicks are more than all of them together leave room for: a third is
\* the panel's, a card's or a switch of network, where no demo has been.
NoDemoOfThree == clicks' > 2 => demo = Idle /\ runner = NewRunner /\ demo' = Idle

BoundedSpec == Init /\ [][Next /\ NoDemoOfThree]_vars /\ Fairness

\* The behaviours without fairness, for safety properties.
SafeSpec == Init /\ [][Next]_vars
===============================================================================
