---------------------------- MODULE MCConfigMerge ----------------------------
\* An instance of ConfigMerge for TLC: two locations; the first has the file of a
\* module and a directory of the same name with another file, the second has a
\* file of the first module again and one of another module.
EXTENDS ConfigMerge

MCModuleFiles == {"first", "inner", "second", "other"}

MCLocations == <<"system", "user">>

MCSubdirectories == {"sub"}

MCEntriesOf == [system |-> {"first", "sub"}, sub |-> {"inner"}, user |-> {"second", "other"}]

MCNameOf ==
  [first |-> <<"a">>, sub |-> <<"a">>, inner |-> <<"b">>, second |-> <<"a">>,
   other |-> <<"b">>]

Value(v) == [Empty EXCEPT !.data = v]

Object(kids) == [Empty EXCEPT !.kids = kids]

\* A setting in a section; a section with a dotted key that another one is part
\* of, in both orders; a value where others have sections; an empty section.
MCContents ==
  {Object(<<Kid(<<"b">>, Object(<<Kid(<<"a">>, Value("1"))>>)),
            Kid(<<"a">>, Value("1"))>>),
   Object(<<Kid(<<"b", "c">>, Object(<<Kid(<<"b">>, Value("2"))>>)),
            Kid(<<"b", "c", "a">>, Object(<<Kid(<<"b">>, Value("2"))>>))>>),
   Object(<<Kid(<<"b", "c", "a">>, Object(<<Kid(<<"b">>, Value("3"))>>)),
            Kid(<<"b", "c">>, Object(<<Kid(<<"b">>, Value("3"))>>))>>),
   Object(<<Kid(<<"b">>, Value("4"))>>),
   Object(<<Kid(<<"a">>, Value("5")), Kid(<<"b">>, Empty)>>)}
=============================================================================
