---------------------------- MODULE Subscription ----------------------------
(***************************************************************************)
(* Topics and subscriptions of tntpub: include/tntpub/topic.h,             *)
(* include/tntpub/subscription.h and src/tntpub/subscription.cpp.          *)
(*                                                                         *)
(* A topic has a main part and a sub part, both strings in the code.  Here *)
(* they are elements of two sets, and the two string relations matching    *)
(* depends on, "is a prefix of" and "the pattern matches", are constants.  *)
(***************************************************************************)
EXTENDS Naturals

CONSTANTS
  Mains,       \* main topics
  Subs,        \* sub topics and the patterns that stand in their place
  NoSub,       \* the empty sub topic
  PrefixPairs, \* <<p, m>>: the main topic p is a prefix of m
  RegexPairs,  \* <<x, s>>: the pattern x matches the sub topic s
  BadPatterns  \* sub topics that do not compile as a pattern

ASSUME SubscriptionAssumption ==
  /\ NoSub \in Subs
  /\ PrefixPairs \subseteq Mains \X Mains
  /\ \A m \in Mains : <<m, m>> \in PrefixPairs
  /\ RegexPairs \subseteq Subs \X Subs
  /\ BadPatterns \subseteq Subs

Topic == [main : Mains, sub : Subs]

(* Type::Null is left out: the constructor treats it as Full, and no       *)
(* subscribe message carries it.                                           *)
Types == {"Full", "Prefix", "Regex", "RegexReversed"}

Subscriptions == [topic : Topic, type : Types]

-----------------------------------------------------------------------------

(* The pattern types compile topic.sub() in their constructor, which       *)
(* throws when the pattern is malformed.                                   *)
Compiles(topic, type) ==
  type \in {"Regex", "RegexReversed"} => topic.sub \notin BadPatterns

SubAccepts(s, t) == s.topic.sub = NoSub \/ s.topic.sub = t.sub

FullMatch(s, t) == s.topic.main = t.main /\ SubAccepts(s, t)

PrefixMatch(s, t) ==
  <<s.topic.main, t.main>> \in PrefixPairs /\ SubAccepts(s, t)

RegexMatch(s, t) ==
  s.topic.main = t.main /\ <<s.topic.sub, t.sub>> \in RegexPairs

RegexReversedMatch(s, t) ==
  s.topic.main = t.main /\ <<s.topic.sub, t.sub>> \notin RegexPairs

(* Subscription::match                                                     *)
Match(s, t) ==
  \/ s.type = "Full" /\ FullMatch(s, t)
  \/ s.type = "Prefix" /\ PrefixMatch(s, t)
  \/ s.type = "Regex" /\ RegexMatch(s, t)
  \/ s.type = "RegexReversed" /\ RegexReversedMatch(s, t)

(* Fault: the type is not compared.                                        *)
EqualsAnyType(s, topic, type) == s.topic.main = topic.main

(* Subscription::equals: compares the type and the main topic, not the sub *)
(* topic.                                                                  *)
Equals(s, topic, type) == s.type = type /\ s.topic.main = topic.main

=============================================================================
