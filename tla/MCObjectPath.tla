---------------------------- MODULE MCObjectPath ----------------------------
EXTENDS ObjectPath, TLC

CONSTANTS c1, c2, a, ab

Set(x) == [kind |-> "set", key |-> x]
Get(x) == [kind |-> "get", key |-> x]
Del(x) == [kind |-> "del", key |-> x]

MCClients == {c1, c2}
MCBegins  == {<<a, ab>>}
Calls2(s, t) == c1 :> s @@ c2 :> t
\* one client; two with keys of their own, of which one begins the other; two
\* that set and read one key; deletions of it
MCScripts ==
  {Calls2(<<Set(a), Set(a), Get(a)>>, <<>>),
   Calls2(<<Set(a), Get(a)>>, <<Set(ab)>>),
   Calls2(<<Set(a)>>, <<Set(ab), Get(ab)>>),
   Calls2(<<Set(a), Get(a)>>, <<Set(a)>>),
   Calls2(<<Set(a), Set(a)>>, <<Get(a)>>),
   Calls2(<<Set(a), Set(a)>>, <<Del(a)>>),
   Calls2(<<Set(a), Del(a), Set(a)>>, <<Get(a)>>),
   Calls2(<<Set(a), Del(a)>>, <<Del(a), Get(a)>>)}
=============================================================================
