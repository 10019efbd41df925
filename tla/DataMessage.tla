----------------------------- MODULE DataMessage -----------------------------
(***************************************************************************)
(* The type byte of a message: what the client calls put into it, what the *)
(* receiving side accepts, and the subscription it stands for.  From       *)
(* include/tntpub/datamessage.h and src/tntpub/datamessage.cpp.            *)
(***************************************************************************)
EXTENDS Subscription

(* DataMessage::Type without Null and PlainData, which is handled exactly  *)
(* as Data is; "Garbage" stands for bytes that are no message at all.      *)
MessageTypes ==
  {"SubscribeFull", "SubscribePrefix", "SubscribeRegex",
   "SubscribeRegexReversed", "UnsubscribeFull", "UnsubscribePrefix",
   "UnsubscribeRegex", "UnsubscribeRegexReversed", "Data", "System",
   "Garbage"}

Message == [type : MessageTypes, topic : Topic]

(* DataMessage::subscribe                                                  *)
SubscribeType(type) ==
  CASE type = "Prefix" -> "SubscribePrefix"
    [] type = "Regex"  -> "SubscribeRegex"
    [] OTHER           -> "SubscribeFull"

(* DataMessage::subscribeWithObject                                        *)
SubscribeWithObjectType(type) ==
  CASE type = "Prefix"        -> "SubscribePrefix"
    [] type = "Regex"         -> "SubscribeRegex"
    [] type = "RegexReversed" -> "SubscribeRegexReversed"
    [] OTHER                  -> "SubscribeFull"

(* DataMessage::unsubscribe                                                *)
UnsubscribeType(type) ==
  CASE type = "Prefix" -> "UnsubscribePrefix"
    [] type = "Regex"  -> "UnsubscribeRegex"
    [] OTHER           -> "UnsubscribeFull"

-----------------------------------------------------------------------------

IsSubscribe(m) ==
  m.type \in {"SubscribeFull", "SubscribePrefix", "SubscribeRegex",
              "SubscribeRegexReversed"}

IsUnsubscribe(m) ==
  m.type \in {"UnsubscribeFull", "UnsubscribePrefix", "UnsubscribeRegex",
              "UnsubscribeRegexReversed"}

(* The header checks of DataMessageDeserializer::processMessage: the magic *)
(* number and isValidType.  A message that fails them raises an exception. *)
IsValid(m) ==
  m.type \notin {"SubscribeRegexReversed", "UnsubscribeRegexReversed",
                 "Garbage"}

(* Fault: a case is missing and falls through to Null.                     *)
SubscriptionTypeNoPrefix(m) ==
  IF m.type \in {"SubscribePrefix", "UnsubscribePrefix"} THEN "Null" ELSE "Full"

(* DataMessage::subscriptionType, for the message types that have one      *)
SubscriptionType(m) ==
  CASE m.type \in {"SubscribeFull", "UnsubscribeFull"}     -> "Full"
    [] m.type \in {"SubscribePrefix", "UnsubscribePrefix"} -> "Prefix"
    [] m.type \in {"SubscribeRegex", "UnsubscribeRegex"}   -> "Regex"
    [] OTHER                                               -> "RegexReversed"

=============================================================================
