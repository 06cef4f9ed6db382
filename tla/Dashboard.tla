------------------------------ MODULE Dashboard -------------------------------
(***************************************************************************)
(* What the Kibana dashboard (kibana/gen_dashboard.py) asks of the two     *)
(* indices, and what Elasticsearch can answer with the mapping of          *)
(* search/es_client.py or with one that it has guessed.                    *)
(*                                                                         *)
(* A field is a name and whether its ".keyword" subfield is meant.         *)
(***************************************************************************)

Views == {"alerts", "responses"}

-------------------------------------------------------------------------------
(* The documents, by the JSON type of each field. *)
AlertDoc ==
    [id |-> "number", wazuh_alert_id |-> "string", timestamp |-> "date",
     rule_id |-> "number", rule_description |-> "string", rule_level |-> "number",
     source_ip |-> "string", destination_ip |-> "string", agent_id |-> "string",
     agent_name |-> "string", attack_type |-> "string", severity |-> "string",
     status |-> "string", created_at |-> "date", updated_at |-> "date"]

ResponseDoc ==
    [id |-> "number", alert_id |-> "number", trigger |-> "string",
     action_type |-> "string", target |-> "string", status |-> "string",
     result_message |-> "string", executed_at |-> "date", created_at |-> "date",
     attack_type |-> "string", severity |-> "string", source_ip |-> "string"]

Doc(view) == IF view = "alerts" THEN AlertDoc ELSE ResponseDoc

(* INDEX_MAPPINGS; "both" is text with a keyword subfield. *)
AlertMapping ==
    [id |-> "integer", wazuh_alert_id |-> "keyword", timestamp |-> "date",
     rule_id |-> "integer", rule_description |-> "both", rule_level |-> "integer",
     source_ip |-> "ip", destination_ip |-> "ip", agent_id |-> "keyword",
     agent_name |-> "keyword", attack_type |-> "keyword", severity |-> "keyword",
     status |-> "keyword", created_at |-> "date", updated_at |-> "date"]

ResponseMapping ==
    [id |-> "integer", alert_id |-> "integer", trigger |-> "keyword",
     action_type |-> "keyword", target |-> "keyword", status |-> "keyword",
     result_message |-> "text", executed_at |-> "date", created_at |-> "date",
     attack_type |-> "keyword", severity |-> "keyword", source_ip |-> "ip"]

(* What Elasticsearch makes of a field nobody has mapped. *)
Guessed(json) == CASE json = "string" -> "both"
                   [] json = "date" -> "date"
                   [] json = "number" -> "long"

(* The mapping of an index, by how it was created. *)
Mapping(index, view) ==
    IF index = "typed"
    THEN IF view = "alerts" THEN AlertMapping ELSE ResponseMapping
    ELSE [f \in DOMAIN Doc(view) |-> Guessed(Doc(view)[f])]

-------------------------------------------------------------------------------
(* The panels: each builder asks for one or two aggregations of a field. *)
Aggregation(view, agg, field, sub) == [view |-> view, agg |-> agg, field |-> field, sub |-> sub]

Pie(view, field)     == {Aggregation(view, "terms", field, FALSE)}
Table(view, field)   == {Aggregation(view, "terms", field, FALSE)}
HBarKeyword(view, field) == {Aggregation(view, "terms", field, TRUE)}
MetricOf(view, field) == {Aggregation(view, "cardinality", field, FALSE)}
TimeSeries(view, date, split) == {Aggregation(view, "histogram", date, FALSE),
                                  Aggregation(view, "terms", split, FALSE)}

AlertPanels ==
    MetricOf("alerts", "source_ip") \cup TimeSeries("alerts", "timestamp", "severity")
    \cup Pie("alerts", "severity") \cup Pie("alerts", "attack_type")
    \cup Pie("alerts", "status") \cup Table("alerts", "source_ip")
    \cup HBarKeyword("alerts", "rule_description")

ResponsePanels ==
    Pie("responses", "action_type") \cup Pie("responses", "status")
    \cup TimeSeries("responses", "created_at", "action_type")
    \cup Table("responses", "target") \cup Pie("responses", "trigger")

Panels == AlertPanels \cup ResponsePanels

(* An aggregation needs doc values: a text field has none, a subfield exists
   only where the mapping says so. *)
Answerable(index, panel) ==
    LET mapping == Mapping(index, panel.view)
    IN  /\ panel.field \in DOMAIN mapping
        /\ IF panel.sub THEN mapping[panel.field] = "both"
           ELSE IF panel.agg = "histogram" THEN mapping[panel.field] = "date"
           ELSE mapping[panel.field] \notin {"text", "both"}

(* Every panel of the dashboard shows something for an index so created. *)
DashboardWorks(index) == \A panel \in Panels : Answerable(index, panel)
===============================================================================
