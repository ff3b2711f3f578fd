----------------------------- MODULE Normalizer -----------------------------
(***************************************************************************)
(* The analysis of a call from record_analysis to the rows: the planner    *)
(* turns the model's arguments into an analysis, the reviewer overwrites   *)
(* single fields, and save_result_node puts the fields in order with       *)
(* normalize_post_call_result before it writes, once after the review and  *)
(* once more, on its own output, after the actions.                        *)
(*                                                                         *)
(* A text is the set of words in it that the rules look for: {} is blank,  *)
(* {"other"} a text without such a word. One word stands for those of the  *)
(* code that are in the same lists. "" is a missing or null value.         *)
(*                                                                         *)
(* Left out: fields that no rule reads (details, notes, flags, the reason  *)
(* of the sentiment) and the second names the normalizer knows for some    *)
(* fields of a summary, which the planner never writes.                    *)
(***************************************************************************)
EXTENDS Integers, FiniteSets

CONSTANTS
  Industries,     \* of the tenant; "" when it is not known
  Wordings,       \* what the model may write as the summary: sets of words
  Briefs,         \* as the intent, the keywords and a reason
  Emotions, Statuses, Priorities, Categories,   \* and choose, valid or not
  MaxCorrections  \* bound: fields the reviewer overwrites

ASSUME NormalizerAssumption ==
  /\ MaxCorrections \in Nat
  /\ \A t \in Wordings \cup Briefs : IsFiniteSet(t)

VARIABLES
  stage,        \* "record", "review", "saved", "final"
  industry,
  analysis,     \* what the planner recorded and the reviewer corrected
  corrections,  \* how many fields the reviewer overwrote
  row           \* what the last save wrote

normVars == <<stage, industry, analysis, corrections, row>>

ValidSentiments == {"positive", "neutral", "negative", "angry"}
ValidPriorities == {"low", "medium", "high", "critical"}
ValidStatuses   == {"resolved", "escalated", "abandoned"}

-----------------------------------------------------------------------------
(* infer_primary_category. Each rule is the lists it looks into.           *)
HasAny(text, words) == text \cap words # {}

HospitalLike(t, known) ==
  LET clinical == HasAny(t, {"emergency", "clinic"})
      facility == HasAny(t, {"parking", "food", "diner"})
  IN  IF facility /\ (known \/ clinical) THEN "facility"
      ELSE IF clinical THEN "treatment" ELSE ""

RestaurantLike(t, known) ==
  IF ~known /\ ~HasAny(t, {"diner", "seat", "break_time"}) THEN ""
  ELSE IF HasAny(t, {"menu", "food", "diner"}) THEN "menu"
  ELSE IF HasAny(t, {"booking", "seat"}) THEN "schedule"
  ELSE IF HasAny(t, {"parking", "place", "break_time"}) THEN "place"
  ELSE ""

GovernmentLike(t, known) ==
  IF HasAny(t, {"complaint", "protest"}) THEN "complaint"
  ELSE IF (known \/ "welfare" \in t) /\ HasAny(t, {"welfare", "papers"})
       THEN "welfare"
  ELSE ""

FinanceLike(t) ==
  IF "identity" \in t THEN "identity"
  ELSE IF "insurance" \in t THEN "contract"
  ELSE IF "payment" \in t THEN "refund"
  ELSE ""

InferIndustryCategory(t, ind) ==
  CASE ind = "hospital"   -> HospitalLike(t, TRUE)
    [] ind = "restaurant" -> RestaurantLike(t, TRUE)
    [] ind = "government" -> GovernmentLike(t, TRUE)
    [] ind = "finance"    -> FinanceLike(t)
    [] OTHER -> ""

GeneralCategory(t) ==
  IF HasAny(t, {"booking", "change"}) THEN "schedule"
  ELSE IF "payment" \in t THEN "refund"
  ELSE IF HasAny(t, {"complaint", "protest", "delay"}) THEN "complaint"
  ELSE IF HasAny(t, {"place", "parking", "break_time"}) THEN "place"
  ELSE IF HasAny(t, {"menu", "food", "product"}) THEN "product"
  ELSE IF "agent" \in t THEN "agent" ELSE "etc"

FirstNonBlank(a, b) == IF a # "" THEN a ELSE b

InferPrimaryCategory(t, ind) ==
  FirstNonBlank(InferIndustryCategory(t, ind),
    FirstNonBlank(HospitalLike(t, FALSE),
      FirstNonBlank(RestaurantLike(t, FALSE),
        FirstNonBlank(GovernmentLike(t, FALSE),
          FirstNonBlank(FinanceLike(t), GeneralCategory(t))))))

(* The words in the name of a category, which becomes text where the       *)
(* intent is blank and where the priority is inferred.                     *)
NameOf(category) ==
  CASE category \in {"facility", "treatment"} -> {"clinic"}
    [] category = "menu"      -> {"menu", "booking"}
    [] category = "schedule"  -> {"booking"}
    [] category = "place"     -> {"place"}
    [] category = "complaint" -> {"complaint"}
    [] category = "welfare"   -> {"welfare"}
    [] category = "contract"  -> {"insurance"}
    [] category = "identity"  -> {"identity"}
    [] category = "refund"    -> {"payment"}
    [] category = "product"   -> {"product"}
    [] category = "agent"     -> {"agent"}
    [] OTHER -> {"other"}

-----------------------------------------------------------------------------
(* normalize_summary; called once without the category, to infer it, and   *)
(* once with it.                                                           *)
NormalizeSummary(s, category) ==
  LET short  == IF s.short # {} THEN s.short ELSE s.intent \cup {"other"}
      intent == IF s.intent # {} THEN s.intent
                ELSE IF category # "" THEN NameOf(category) ELSE short
  IN  [s EXCEPT !.short = short, !.intent = intent,
                !.emotion = IF @ \in ValidSentiments THEN @ ELSE "neutral",
                !.status = IF @ \in ValidStatuses THEN @ ELSE "resolved"]

WordsOf(s) == s.short \cup s.intent \cup s.keywords

(* normalize_intent_result: a category the model chose is kept, "etc"      *)
(* gives way to one that the words support, its reason's among them.       *)
NormalizeCategory(category, reason, hint, ind) ==
  IF category \in {"", "etc"}
  THEN InferPrimaryCategory(WordsOf(hint) \cup reason, ind)
  ELSE category

NormalizeSentiment(sentiment, hint) ==
  IF sentiment \in ValidSentiments THEN sentiment ELSE hint.emotion

(* Only the category is looked at, not the words of the call; reasons are  *)
(* the words of the priority's and the category's reason.                  *)
InferPriority_ByCategory(s, category, reasons) ==
  IF "emergency" \in NameOf(category) THEN "critical"
  ELSE IF s.emotion = "angry" THEN "high"
  ELSE IF s.status = "escalated" /\ HasAny(NameOf(category), {"complaint", "delay"})
       THEN "high"
  ELSE "medium"
InferPriority(s, category, reasons) ==
  LET text == WordsOf(s) \cup NameOf(category) \cup reasons IN
  IF "emergency" \in text THEN "critical"
  ELSE IF s.emotion = "angry" THEN "high"
  ELSE IF s.status = "escalated" /\ HasAny(text, {"complaint", "delay"})
       THEN "high"
  ELSE "medium"

(* The tier recorded by the planner wins over the corrected priority.      *)
NormalizePriority_TierFirst(p, hint, category, reason) ==
  LET chosen == FirstNonBlank(p.tier, p.priority)
      kept == IF chosen \in ValidPriorities THEN chosen
              ELSE InferPriority(hint, category, p.reason \cup reason)
  IN  [there |-> TRUE, priority |-> kept, tier |-> kept, reason |-> p.reason]

NormalizePriority(p, hint, category, reason) ==
  LET chosen == FirstNonBlank(p.priority, p.tier)
      kept == IF chosen \in ValidPriorities THEN chosen
              ELSE InferPriority(hint, category, p.reason \cup reason)
  IN  [there |-> TRUE, priority |-> kept, tier |-> kept, reason |-> p.reason]

(* normalize_post_call_result. The priority of the analysis also replaces  *)
(* the one inside the VOC result, which counts only when there is no other.*)
Normalize(a, ind) ==
  LET hint == NormalizeSummary(a.summary, "")
      category == NormalizeCategory(a.voc.category, a.voc.reason, hint, ind)
      given == IF a.priority.there THEN a.priority ELSE a.voc.priority
      priority == NormalizePriority(given, hint, category, a.voc.reason)
  IN  [summary |-> NormalizeSummary(a.summary, category),
       voc |-> [category |-> category, reason |-> a.voc.reason,
                priority |-> priority,
                sentiment |-> NormalizeSentiment(a.voc.sentiment, hint)],
       priority |-> priority]

-----------------------------------------------------------------------------
(* _record_to_analysis: the sentiment is copied from the emotion, the tier *)
(* from the priority; a missing value becomes the default; no reasons.     *)
RecordToAnalysis(args) ==
  LET emotion == FirstNonBlank(args.emotion, "neutral")
      level == FirstNonBlank(args.priority, "low")
  IN  [summary |-> [short |-> args.short, intent |-> args.intent,
                    keywords |-> args.keywords, emotion |-> emotion,
                    status |-> FirstNonBlank(args.status, "resolved")],
       voc |-> [category |-> FirstNonBlank(args.category, "etc"), reason |-> {},
                sentiment |-> emotion,
                priority |-> [there |-> TRUE, priority |-> level, tier |-> "",
                              reason |-> {}]],
       priority |-> [there |-> TRUE, priority |-> level, tier |-> level,
                     reason |-> {}]]

(* _empty_analysis: no transcript, or the model failed; the category and   *)
(* the reasons it gives are not the rules'.                                *)
EmptyAnalysis ==
  [RecordToAnalysis([short |-> {"other"}, intent |-> {"other"}, keywords |-> {},
                     emotion |-> "neutral", status |-> "resolved",
                     priority |-> "low", category |-> "unknown"])
     EXCEPT !.voc.priority.reason = {"other"}, !.priority.reason = {"other"}]

NormInit ==
  /\ stage = "record" /\ corrections = 0
  /\ industry \in Industries
  /\ analysis = EmptyAnalysis
  /\ row = EmptyAnalysis

Record ==
  /\ stage = "record"
  /\ \/ analysis' = analysis
     \/ \E args \in [short : Wordings, intent : Briefs, keywords : Briefs,
                     emotion : Emotions, status : Statuses,
                     priority : Priorities, category : Categories] :
          analysis' = RecordToAnalysis(args)
  /\ stage' = "review"
  /\ UNCHANGED <<industry, corrections, row>>

(* correct_analysis sets any field, also to null, and leaves the fields    *)
(* that were copied from it as they were; naming a whole result with null  *)
(* takes it away, until one of its fields is set.                          *)
NoSummary ==
  [short |-> {}, intent |-> {}, keywords |-> {}, emotion |-> "", status |-> ""]
NoPriority == [there |-> FALSE, priority |-> "", tier |-> "", reason |-> {}]
NoVoc ==
  [category |-> "", reason |-> {}, sentiment |-> "", priority |-> NoPriority]

OverwrittenSummary(s) ==
  {NoSummary} \cup
  {[s EXCEPT !.short = v] : v \in Briefs} \cup
  {[s EXCEPT !.intent = v] : v \in Briefs} \cup
  {[s EXCEPT !.keywords = v] : v \in Briefs} \cup
  {[s EXCEPT !.emotion = v] : v \in Emotions \cup {""}} \cup
  {[s EXCEPT !.status = v] : v \in Statuses \cup {""}}

OverwrittenPriority(p) ==
  {NoPriority} \cup
  {[p EXCEPT !.there = TRUE, !.priority = v] : v \in Priorities \cup {""}} \cup
  {[p EXCEPT !.there = TRUE, !.tier = v] : v \in Priorities \cup {""}} \cup
  {[p EXCEPT !.there = TRUE, !.reason = v] : v \in Briefs}

OverwrittenVoc(voc) ==
  {NoVoc, [voc EXCEPT !.category = "", !.reason = {}]} \cup
  {[voc EXCEPT !.category = v] : v \in Categories \cup {""}} \cup
  {[voc EXCEPT !.reason = v] : v \in Briefs} \cup
  {[voc EXCEPT !.sentiment = v] : v \in Emotions \cup {""}} \cup
  {[voc EXCEPT !.priority = p] : p \in OverwrittenPriority(voc.priority)}

Overwritten(a) ==
  {[a EXCEPT !.summary = s] : s \in OverwrittenSummary(a.summary)} \cup
  {[a EXCEPT !.voc = v] : v \in OverwrittenVoc(a.voc)} \cup
  {[a EXCEPT !.priority = p] : p \in OverwrittenPriority(a.priority)}

OverwriteField ==
  /\ stage = "review" /\ corrections < MaxCorrections
  /\ analysis' \in Overwritten(analysis)
  /\ corrections' = corrections + 1
  /\ UNCHANGED <<stage, industry, row>>

(* save_reviewed_analysis and save_final: the node returns what it wrote,  *)
(* and the second save starts from it.                                     *)
SaveReviewed ==
  /\ stage = "review"
  /\ row' = Normalize(analysis, industry)
  /\ stage' = "saved"
  /\ UNCHANGED <<industry, analysis, corrections>>

SaveFinal ==
  /\ stage = "saved"
  /\ row' = Normalize(row, industry)
  /\ stage' = "final"
  /\ UNCHANGED <<industry, analysis, corrections>>

NormNext == Record \/ OverwriteField \/ SaveReviewed \/ SaveFinal

NormSpec == NormInit /\ [][NormNext]_normVars

-----------------------------------------------------------------------------
(* Properties                                                              *)

(* What both saves write of a valid value the planner or the reviewer set  *)
(* (normalize_post_call_result): the emotion, the status, the sentiment    *)
(* and a category are kept; of the four places a priority lives in, the    *)
(* priority of the analysis wins over its tier and over both places in the *)
(* VOC result, and that of the VOC result wins when the reviewer took the  *)
(* other away.  So a correction of the priority that counts never loses    *)
(* against a copy from before it.  It does not say that the valid value of *)
(* a place that does not count is kept: that is not so (see the next two). *)
ValidOutputKept ==
  stage \in {"saved", "final"} =>
    /\ analysis.summary.emotion \in ValidSentiments =>
         row.summary.emotion = analysis.summary.emotion
    /\ analysis.summary.status \in ValidStatuses =>
         row.summary.status = analysis.summary.status
    /\ analysis.voc.sentiment \in ValidSentiments =>
         row.voc.sentiment = analysis.voc.sentiment
    /\ analysis.voc.category \notin {"", "etc"} =>
         row.voc.category = analysis.voc.category
    /\ \A v \in ValidPriorities :
         \/ analysis.priority.priority = v
         \/ ~analysis.priority.there /\ analysis.voc.priority.priority = v
         => /\ row.priority.priority = v /\ row.priority.tier = v
            /\ row.voc.priority.priority = v /\ row.voc.priority.tier = v

(* "Existing valid LLM output is preserved; only missing, blank, or        *)
(* invalid schema fields are filled" (normalize_post_call_result), for the *)
(* priority inside the VOC result, which correct_analysis may name and     *)
(* voc_analyses stores: a valid one is what is written there.              *)
ValidVocPriorityPreserved ==
  stage \in {"saved", "final"} /\ analysis.voc.priority.priority \in ValidPriorities
    => row.voc.priority.priority = analysis.voc.priority.priority

(* The same sentence for the tier, where no valid priority stands against  *)
(* it: a valid tier next to an invalid priority is what is written.        *)
ValidTierPreserved ==
  /\ stage \in {"saved", "final"} /\ analysis.priority.tier \in ValidPriorities
  /\ analysis.priority.priority \notin ValidPriorities
  => row.priority.tier = analysis.priority.tier

(* The inferred priority counts the words of the call and the category,    *)
(* and one more word may move the call to another category: a word of      *)
(* danger, complaint or delay among the keywords never makes the saved     *)
(* priority lower (normalize_priority_result after                         *)
(* normalize_intent_result).                                               *)
Rank(p) == CASE p = "low" -> 0 [] p = "medium" -> 1 [] p = "high" -> 2 [] OTHER -> 3

WorseNewsIsNotLower ==
  stage = "review" =>
    \A word \in {"emergency", "complaint", "delay"} :
      Rank(Normalize(analysis, industry).priority.priority) <=
      Rank(Normalize([analysis EXCEPT !.summary.keywords = @ \cup {word}],
                     industry).priority.priority)

=============================================================================
