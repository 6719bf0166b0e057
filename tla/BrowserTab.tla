------------------------------ MODULE BrowserTab ------------------------------
(***************************************************************************)
(* A tab of the staff's browser: one page at a time, with the variables and *)
(* handlers of that page's scripts.  A page that is loaded again starts     *)
(* from its initial state, and one that is left takes its variables and    *)
(* the answers it waited for with it; what the server still does for it is *)
(* like the request of another tab.  So every script runs from its own     *)
(* initial state and the others stay where they are.                       *)
(***************************************************************************)
EXTENDS ListPage, JobPage, StaffForm, AttributePage, ImportPage, FeedbackPage,
        DashboardPage

CONSTANT Scripts    \* the scripts to look at
ASSUME ScriptAssumption ==
    Scripts \subseteq {"list", "job", "staff", "attributes", "import", "feedback", "dashboard"}

VARIABLE script     \* the one that runs

Init ==
    /\ script \in Scripts
    /\ ListInit /\ (script = "list" \/ list = CHOOSE l \in Lists : TRUE)
    /\ JobPageInit
    /\ StaffFormInit
    /\ AttributePageInit
    /\ ImportPageInit /\ (script = "import" \/ bad = {})
    /\ FeedbackPageInit /\ (script = "feedback" \/ orphans = {})
    /\ DashboardInit

Next ==
    /\ UNCHANGED script
    /\ \/ /\ script = "list" /\ ListNext
          /\ UNCHANGED <<jobVars, formVars, attributeVars, importVars, feedbackVars, dashboardVars>>
       \/ /\ script = "job" /\ JobPageNext
          /\ UNCHANGED <<listVars, formVars, attributeVars, importVars, feedbackVars, dashboardVars>>
       \/ /\ script = "staff" /\ StaffFormNext
          /\ UNCHANGED <<listVars, jobVars, attributeVars, importVars, feedbackVars, dashboardVars>>
       \/ /\ script = "attributes" /\ AttributePageNext
          /\ UNCHANGED <<listVars, jobVars, formVars, importVars, feedbackVars, dashboardVars>>
       \/ /\ script = "import" /\ ImportPageNext
          /\ UNCHANGED <<listVars, jobVars, formVars, attributeVars, feedbackVars, dashboardVars>>
       \/ /\ script = "feedback" /\ FeedbackPageNext
          /\ UNCHANGED <<listVars, jobVars, formVars, attributeVars, importVars, dashboardVars>>
       \/ /\ script = "dashboard" /\ DashboardNext
          /\ UNCHANGED <<listVars, jobVars, formVars, attributeVars, importVars, feedbackVars>>

vars == <<script, listVars, jobVars, formVars, attributeVars, importVars, feedbackVars,
          dashboardVars>>
Spec == Init /\ [][Next]_vars

\* The types of every page's variables.
TypeOK ==
    /\ script \in Scripts
    /\ ListTypeOK
    /\ JobPageTypeOK
    /\ StaffFormTypeOK
    /\ AttributeTypeOK
    /\ ImportTypeOK
    /\ FeedbackTypeOK
    /\ DashboardTypeOK

-------------------------------------------------------------------------------
===============================================================================
