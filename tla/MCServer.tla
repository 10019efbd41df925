------------------------------ MODULE MCServer ------------------------------
(***************************************************************************)
(* Instances of Server for TLC.  Topics have the main parts foo and its    *)
(* extension foobar, and the sub part a or none; the pattern "a" matches   *)
(* the sub part a, the pattern "bad" does not compile.                     *)
(***************************************************************************)
EXTENDS Server

CONSTANTS p1, p2, p3 \* peers

MainsMC == {"foo", "foobar"}
OneMain == {"foo"}
SubsMC == {"", "a"}
OneSub == {""}
SubsWithBad == {"", "a", "bad"}
PrefixPairsMC == {<<"foo", "foo">>, <<"foo", "foobar">>, <<"foobar", "foobar">>}
OnePrefixPair == {<<"foo", "foo">>}
RegexPairsMC == {<<"a", "a">>}
NoPairs == {}
BadPatternsMC == {"bad"}

T(main, sub) == [main |-> main, sub |-> sub]
C(op, main, sub, type) == [op |-> op, topic |-> T(main, sub), type |-> type]

UnitSize == [t \in Topic |-> 1]
SizeByMain == [t \in Topic |-> IF t.main = "foo" THEN 1 ELSE 2]

Peers == {p1, p2}
LivePeers == {p1, p3}
ThreePeers == {p1, p2, p3}
Nobody == {}
Just2 == {p2}
Just3 == {p3}
NoTopics == {}
Foo == {T("foo", "")}
FooA == {T("foo", "a")}

(* p1 publishes to two topics; p2 subscribes to them with every type that  *)
(* survives the wire, no two with the same main topic and type, and may    *)
(* break the protocol.                                                     *)
CallsFanout ==
  (p1 :> {C("publish", "foo", "a", "Full"), C("publish", "foobar", "", "Full")})
  @@ (p2 :> {C("subscribe", "foo", "", "Prefix"),
            C("subscribe", "foobar", "", "Full"),
            C("subscribeWithObject", "foo", "a", "Regex"),
            C("unsubscribe", "foo", "", "Prefix"),
            C("unsubscribe", "foo", "a", "Regex"),
            C("subscribe", "foobar", "bad", "Regex"),
            C("garbage", "foo", "", "Full")})

(* p1 publishes to two topics, their packets of one unit and of two; p2    *)
(* and p3 subscribe to both.  Publishers never subscribe.                  *)
CallsAbort ==
  (p1 :> {C("publish", "foo", "", "Full"), C("publish", "foobar", "", "Full")})
  @@ (p2 :> {C("subscribe", "foo", "", "Prefix")})
  @@ (p3 :> {C("subscribe", "foo", "", "Prefix"), C("system", "foo", "", "Full")})

(* A client that publishes to the topic it has subscribed.                 *)
CallsSelf ==
  (p1 :> {C("subscribe", "foo", "", "Full"), C("publish", "foo", "", "Full")})
  @@ (p2 :> {})

(* Both subscribe and publish, p1 also to a refused topic; p1 reads, p3    *)
(* reads or does not.                                                      *)
CallsLive ==
  (p1 :> {C("subscribe", "foo", "", "Full"), C("publish", "foo", "", "Full"),
         C("publish", "foo", "a", "Full")})
  @@ (p3 :> {C("subscribe", "foo", "", "Full"), C("publish", "foo", "", "Full")})

(* Two subscriptions that differ in the sub topic only.                    *)
CallsSubTopics ==
  (p1 :> {C("subscribe", "foo", "", "Full"), C("subscribe", "foo", "a", "Full"),
         C("unsubscribe", "foo", "", "Full"), C("unsubscribe", "foo", "a", "Full")})
  @@ (p2 :> {})

(* The type that does not survive the wire, both ways to send it.          *)
CallsReversed ==
  (p1 :> {C("subscribe", "foo", "a", "RegexReversed"),
         C("subscribeWithObject", "foo", "a", "RegexReversed")})
  @@ (p2 :> {})

=============================================================================
