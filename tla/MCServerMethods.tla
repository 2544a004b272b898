--------------------------- MODULE MCServerMethods ---------------------------
\* Instances of ServerMethods for TLC.
EXTENDS ServerMethods, TLC

\* An operation on the result of operation k, and one on the object o itself.
Op(m, k) == [method |-> m, ref |-> k, arg |-> NoObject, goodId |-> TRUE,
             names |-> NoSession]
On(m, o) == [Op(m, 0) EXCEPT !.arg = o]

\* An object made and what it answers with used; a reference to what fails or
\* comes later; a wrong id after something was made; a session closed on the way;
\* an object of somebody else's and what it answers with; one made for another
\* session and dropped.
MCTransactions ==
  {<<Op("create", 0), Op("invoke", 1), Op("use", 2)>>,
   <<Op("create", 0), Op("use", 2)>>,
   <<Op("create", 0), [Op("create", 0) EXCEPT !.goodId = FALSE]>>,
   <<Op("close", 0), Op("use", 1)>>} \cup
  {<<On("invoke", o), Op("release", 1)>> : o \in Objects} \cup
  {<<[Op("create", 0) EXCEPT !.names = s], Op("unref", 1), Op("use", 1)>> :
     s \in Sessions}

Symmetry ==
  Permutations(Objects) \cup Permutations(Conns) \cup Permutations(Sessions)
=============================================================================
