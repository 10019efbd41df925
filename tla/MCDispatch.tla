----------------------------- MODULE MCDispatch -----------------------------
(***************************************************************************)
(* Instances of Dispatch for TLC.  Topic news is what clients publish, bye *)
(* what the slot of clientDisconnected sends, reply what callbacks answer. *)
(***************************************************************************)
EXTENDS Dispatch

TopicsMC == {"news", "bye", "reply"}

(* Who wants the news, the farewells and the answers.                      *)
InterestsMC ==
  {[r \in 1..3 |-> {x \in TopicsMC : r \in i[x]}] :
     i \in {[news |-> 1..3, bye |-> {}, reply |-> {}],
            [news |-> 1..3, bye |-> 1..3, reply |-> {}],
            [news |-> {2}, bye |-> {}, reply |-> {1, 2}],
            [news |-> 2..3, bye |-> {2}, reply |-> {}],
            [news |-> 1..3, bye |-> {1, 3}, reply |-> {}],
            [news |-> 2..3, bye |-> {3}, reply |-> {2, 3}]}}

News(r, type) == [from |-> r, topic |-> "news", type |-> type]

PublicationsMC == {News(1, "Data"), News(3, "PlainData")}

AppTopicsMC == {"news"}

(* Callbacks for one topic or for all, and two of them.                    *)
On(topics, k) == [topics |-> topics, kind |-> k, missed |-> {}]

CallbacksMC ==
  {<<On({"news"}, "answers")>>, <<On({"bye"}, "answers")>>,
   <<On({"news"}, "mismatched"), On({"news"}, "registers")>>}
  \cup {<<On(TopicsMC, k)>> : k \in {"counts", "registers", "throws", "answers"}}

(* Any slots without a callback, or callbacks with at most one slot.       *)
HooksMC == SUBSET {"farewell", "warning", "recovery"}

ApplicationsMC ==
  [hooks : HooksMC, callbacks : {<<>>}, limit : {0, 1}]
  \cup [hooks : {{"farewell"}}, callbacks : {<<>>}, limit : {2}]
  \cup [hooks : {{}, {"farewell"}, {"recovery"}}, callbacks : CallbacksMC, limit : {1}]
  \cup [hooks : {{"recovery"}}, callbacks : CallbacksMC, limit : {0}]

=============================================================================
