------------------------------ MODULE SpacyNer ------------------------------
(***************************************************************************)
(* The adapter that F5 gets its candidates from                             *)
(* (src/src/adapters/spacy_ner.py): which pipeline a text goes through, and *)
(* what is loaded for it.  `ner` is the adapter's state: the pipeline of    *)
(* each language, and the models loaded, in order.  A text is the number of *)
(* letters of either script; what a pipeline finds in it is not told apart. *)
(* F5 handles one request at a time, so the calls follow one another, but   *)
(* the models installed may change in between.                              *)
(***************************************************************************)
EXTENDS Ordering

CONSTANTS RuModel, EnModel      \* _model_name, _en_model_name

\* "none" is no pipeline.
ASSUME SpacyNerAssumption == "none" \notin {RuModel, EnModel}

Language == {"ru", "en"}

NewNer == [pipelines |-> [language \in Language |-> "none"], by_model |-> <<>>]

_select_language(text) == IF text.latin > text.cyrillic THEN "en" ELSE "ru"

\* The model for a language, of those loaded or installed; "none" is an OSError.
_load_model(ner, language, installed) ==
    LET preferred == IF language = "en" THEN EnModel ELSE RuModel
        fallback  == IF language = "en" THEN RuModel ELSE EnModel
        usable    == Range(ner.by_model) \cup installed
    IN  CASE preferred \in usable                          -> preferred
          [] preferred \notin usable /\ fallback \in usable -> fallback
          [] OTHER                                         -> "none"

_ensure_nlp(ner, language, installed) ==
    LET model == _load_model(ner, language, installed)
    IN  IF ner.pipelines[language] # "none" THEN ner
        ELSE [pipelines |-> [ner.pipelines EXCEPT ![language] = model],
              by_model  |-> IF model \in Range(ner.by_model) \cup {"none"} THEN ner.by_model
                            ELSE Append(ner.by_model, model)]

\* The languages of the texts, in the order they come up.
lang_groups(texts) ==
    LET Meet(languages, text) ==
            IF _select_language(text) \in Range(languages) THEN languages
            ELSE Append(languages, _select_language(text))
    IN  FoldLeft(Meet, <<>>, texts)

\* The texts of one language, in order, each with the pipeline it went through.
Piped(ner, texts, language) ==
    LET indices == InOrder({i \in DOMAIN texts : _select_language(texts[i]) = language}, <)
    IN  [k \in DOMAIN indices |-> [text |-> indices[k], model |-> ner.pipelines[language]]]

\* Mutant of Reassemble: the groups are put one after another.
MutGroupAfterGroup(texts, docs) == docs

\* The result of each text in its own place.
Reassemble(texts, docs) ==
    [i \in DOMAIN texts |-> docs[CHOOSE k \in DOMAIN docs : docs[k].text = i]]

\* Group by group; the first whose pipeline cannot be loaded refuses the whole call,
\* but what was loaded before it stays.
extract_many(ner, texts, installed) ==
    LET Process(done, language) ==
            LET ready == _ensure_nlp(done.ner, language, installed)
                failed == ready.pipelines[language] = "none"
            IN  CASE done.refused -> done
                  [] ~done.refused /\ failed -> [ner |-> ready, refused |-> TRUE, docs |-> <<>>]
                  [] OTHER -> [ner |-> ready, refused |-> FALSE,
                               docs |-> done.docs \o Piped(ready, texts, language)]
        last == FoldLeft(Process, [ner |-> ner, refused |-> FALSE, docs |-> <<>>],
                         lang_groups(texts))
    IN  [ner     |-> last.ner,
         refused |-> last.refused,
         results |-> IF last.refused THEN <<>> ELSE Reassemble(texts, last.docs)]

\* The answers to calls made one after another, each with the models then installed.
Session(calls) ==
    LET Call(answers, call) ==
            LET ner == IF answers = <<>> THEN NewNer ELSE Last(answers).ner
            IN  Append(answers, extract_many(ner, call.texts, call.installed))
    IN  FoldLeft(Call, <<>>, calls)
=============================================================================
