------------------------------ MODULE References -------------------------------
(***************************************************************************)
(* The references between the tables, as TypeORM makes them from the       *)
(* entities, and what they do to the routes that delete rows.              *)
(*                                                                         *)
(* A column is named after its property by toSnakeCase; the join column of *)
(* a relation by its decorator.  Where the two names differ the relation   *)
(* has a column of its own, which no code fills: its foreign key refers to *)
(* nothing, and the reference the code does store has none.                *)
(***************************************************************************)
EXTENDS ResponseCache

\* Of an entity: the columns that store references, and the join columns of its
\* relations.  BaseEntity adds a column for who has created the row.
Table(columns, relations) ==
    [columns |-> columns \cup {"created_by"}, relations |-> relations]

Relation(column, target, onDelete) ==
    [column |-> column, target |-> target, onDelete |-> onDelete]
Ref(column, target) == Relation(column, target, "NO_ACTION")
RestrictTo(column, target) == Relation(column, target, "RESTRICT")
Cascade(column, target) == Relation(column, target, "CASCADE")
SetNull(column, target) == Relation(column, target, "SET_NULL")

-------------------------------------------------------------------------------
\* Companies, their places and people
Location == Table({"company_id"}, {Cascade("company_id", "companies")})
User ==
    Table({"company_id", "location_id"},
          {Cascade("company_id", "companies"), SetNull("location_id", "locations")})
Operator ==
    Table({"company_id", "user_id", "default_location_id"},
          {Ref("company_id", "companies"), Ref("user_id", "users"),
           Ref("default_location_id", "locations")})
Shift == Table({"company_id"}, {Ref("company_id", "companies")})
Department == Table({"company_id"}, {Ref("company_id", "companies")})
DepartmentSetting ==
    Table({"company_id", "department_id"},
          {Ref("company_id", "companies"), Ref("department_id", "departments")})
DepartmentOeeSetting ==
    Table({"company_id", "department_id"},
          {Ref("company_id", "companies"), Ref("department_id", "departments"),
           Ref("created_by", "users")})
LocationDepartment ==
    Table({"location_id", "department_id"},
          {Ref("location_id", "locations"), Ref("department_id", "departments"),
           Ref("created_by", "users"), Ref("updated_by", "users")})
OperatorDepartment ==
    Table({"operator_id", "department_id"},
          {Ref("operator_id", "operators"), Ref("department_id", "departments")})
OperatorSession ==
    Table({"operator_id", "company_id"},
          {Ref("operator_id", "operators"), Ref("company_id", "companies")})
Invitation ==
    Table({"company_id", "invited_by"},
          {SetNull("company_id", "companies"), SetNull("invited_by", "users")})
OrganizationInvitation ==
    Table({"created_organization_id"},
          {Ref("created_organization_id", "companies")})
VerificationCode == Table({"user_id"}, {Cascade("user_id", "users")})
SystemConfiguration ==
    Table({"company_id", "updated_by"},
          {Cascade("companyId", "companies"), Ref("createdBy", "users"),
           Ref("updatedBy", "users")})

\* Billing
Subscription ==
    Table({"company_id", "plan_id"},
          {Cascade("companyId", "companies"), RestrictTo("planId", "plans")})
Transaction ==
    Table({"company_id", "subscription_id"},
          {Cascade("companyId", "companies"),
           SetNull("subscriptionId", "subscriptions")})

\* Work orders and what is recorded about them
WorkOrder ==
    Table({"company_id", "location_id", "status_id", "status_updated_by",
           "schedule_row_id"},
          {Cascade("companyId", "companies"), Cascade("locationId", "locations"),
           Ref("statusId", "work_order_statuses"), Ref("statusUpdatedBy", "users"),
           Ref("schedule_row_id", "schedule_data")})
WorkOrderStatus == Table({"company_id"}, {Cascade("companyId", "companies")})
WorkOrderCustomStatus ==
    Table({"company_id", "department_id"},
          {Ref("company_id", "companies"), Ref("department_id", "departments"),
           Ref("created_by", "users")})
ConditionalStatusRule ==
    Table({"company_id", "status_id"},
          {Ref("company_id", "companies"), Ref("status_id", "work_order_statuses"),
           Ref("created_by", "users")})
WorkOrderStatusHistory ==
    Table({"company_id", "work_order_id", "changed_by"},
          {Ref("company_id", "companies"), Ref("work_order_id", "work_order"),
           Ref("changed_by", "users")})
WorkOrderDowntime ==
    Table({"company_id", "work_order_id", "downtime_reason_id", "operator_id"},
          {Ref("company_id", "companies"), Ref("work_order_id", "work_order"),
           Ref("downtime_reason_id", "downtime_reasons"), Ref("operator_id", "users")})
WorkOrderOperator ==
    Table({"company_id", "work_order_id", "operator_id"},
          {Cascade("companyId", "companies"), Cascade("workOrderId", "work_order"),
           RestrictTo("operatorId", "users")})
TimeSegment ==
    Table({"company_id", "work_order_id", "operator_id", "operator_ass_id",
           "approved_by"},
          {Cascade("companyId", "companies"), Cascade("workOrderId", "work_order"),
           RestrictTo("operatorId", "users"), SetNull("operatorAssId", "users"),
           Ref("approvedBy", "users")})
QCRejection ==
    Table({"company_id", "work_order_id", "rejection_reason_id", "inspector_id",
           "resolved_by", "operator_id", "disposition_approved_by"},
          {Cascade("companyId", "companies"), Cascade("workOrderId", "work_order"),
           RestrictTo("rejectionReasonId", "rejection_reasons"),
           SetNull("inspectorId", "users"), SetNull("resolvedBy", "users"),
           SetNull("operatorId", "users"), SetNull("dispositionApprovedBy", "users")})
LocationStatus ==
    Table({"location_id", "status_id"},
          {Ref("location_id", "locations"), Ref("status_id", "work_order_statuses"),
           Ref("created_by", "users"), Ref("updated_by", "users")})
RejectionCategory == Table({"company_id"}, {Cascade("companyId", "companies")})
RejectionReason ==
    Table({"company_id", "category_id"},
          {Cascade("companyId", "companies"),
           Cascade("categoryId", "rejection_categories")})
DowntimeCategory ==
    Table({"company_id", "department_id"},
          {Ref("company_id", "companies"), Ref("department_id", "departments")})
DowntimeReason ==
    Table({"company_id", "category_id", "department_id"},
          {Ref("company_id", "companies"), Ref("category_id", "downtime_categories"),
           Ref("department_id", "departments")})
EquipmentEntity ==
    Table({"company_id", "location_id"},
          {Ref("company_id", "companies"), Ref("location_id", "locations")})
ProcessStep ==
    Table({"company_id", "department_id"},
          {Ref("company_id", "companies"), Ref("department_id", "departments")})

\* The schedule
ScheduleFile ==
    Table({"company_id", "uploaded_by"},
          {Cascade("companyId", "companies"), Ref("uploadedBy", "users")})
ScheduleData ==
    Table({"company_id", "schedule_file_id"},
          {Cascade("company_id", "companies"),
           SetNull("schedule_file_id", "schedule_files")})
CompanyColumnMapping == Table({"company_id"}, {Cascade("companyId", "companies")})
ColumnMappingHistory ==
    Table({"company_id", "mapping_id", "performed_by"},
          {Ref("company_id", "companies"), Ref("mapping_id", "company_column_mappings"),
           Ref("performed_by", "users")})
ScheduleApiKey ==
    Table({"company_id"},
          {Ref("company_id", "companies"), Ref("created_by", "users")})
ScheduleOperatorAssignment ==
    Table({"company_id", "schedule_data_id", "operator_id", "shift_id",
           "process_step_id", "assigned_by"},
          {Ref("company_id", "companies"), Ref("schedule_data_id", "schedule_data"),
           Ref("operator_id", "operators"), Ref("shift_id", "shifts"),
           Ref("process_step_id", "process_steps"), Ref("assigned_by", "users")})

\* Products
PartnumberInfo ==
    Table({"company_id", "location_id"},
          {Cascade("companyId", "companies"), SetNull("locationId", "locations")})
Product == Table({"company_id"}, {Cascade("companyId", "companies")})
ProductCategory ==
    Table({"company_id", "parent_category_id"},
          {Cascade("companyId", "companies"),
           SetNull("parentCategoryId", "product_categories")})
ProductCostHistory ==
    Table({"company_id", "product_id", "changed_by"},
          {Cascade("companyId", "companies"), Cascade("productId", "partnumber_info"),
           SetNull("changedBy", "users")})
ProductPricing ==
    Table({"company_id", "product_id"},
          {Cascade("companyId", "companies"), Cascade("productId", "partnumber_info")})
ProductVendor ==
    Table({"company_id", "product_id"},
          {Cascade("companyId", "companies"), Cascade("productId", "partnumber_info")})

Tables ==
    [companies |-> Table({}, {}), plans |-> Table({}, {}), locations |-> Location,
     users |-> User, operators |-> Operator, shifts |-> Shift,
     departments |-> Department, department_settings |-> DepartmentSetting,
     department_oee_settings |-> DepartmentOeeSetting,
     location_departments |-> LocationDepartment,
     operator_departments |-> OperatorDepartment,
     operator_sessions |-> OperatorSession, invitations |-> Invitation,
     organization_invitations |-> OrganizationInvitation,
     verification_codes |-> VerificationCode,
     system_configurations |-> SystemConfiguration, subscriptions |-> Subscription,
     transactions |-> Transaction, work_order |-> WorkOrder,
     work_order_statuses |-> WorkOrderStatus,
     work_order_custom_statuses |-> WorkOrderCustomStatus,
     conditional_status_rules |-> ConditionalStatusRule,
     work_order_status_history |-> WorkOrderStatusHistory,
     work_order_downtime |-> WorkOrderDowntime,
     work_order_operators |-> WorkOrderOperator, time_segments |-> TimeSegment,
     qc_rejections |-> QCRejection, location_statuses |-> LocationStatus,
     rejection_categories |-> RejectionCategory, rejection_reasons |-> RejectionReason,
     downtime_categories |-> DowntimeCategory, downtime_reasons |-> DowntimeReason,
     equipment |-> EquipmentEntity, process_steps |-> ProcessStep,
     schedule_files |-> ScheduleFile, schedule_data |-> ScheduleData,
     company_column_mappings |-> CompanyColumnMapping,
     column_mapping_history |-> ColumnMappingHistory,
     schedule_api_keys |-> ScheduleApiKey,
     schedule_operator_assignments |-> ScheduleOperatorAssignment,
     partnumber_info |-> PartnumberInfo, products |-> Product,
     product_categories |-> ProductCategory,
     product_cost_history |-> ProductCostHistory, product_pricing |-> ProductPricing,
     product_vendors |-> ProductVendor]

VARIABLES
    present,    \* the tables whose row is there: one of each is enough to refer to
    unset       \* the references of these rows that are null

referenceTables == <<present, unset>>

ReferenceOK ==
    /\ present \subseteq DOMAIN Tables
    /\ \A c \in unset : c[1] \in DOMAIN Tables /\ c[2] \in Tables[c[1]].columns

\* A row, and all that it refers to, directly or not.
Row(t) ==
    LET row[n \in Nat] ==
            IF n = 0 THEN {t}
            ELSE LET near == row[n - 1]
                 IN  near \cup {rel.target : rel \in UNION {Tables[u].relations : u \in near}}
    IN  row[Cardinality(DOMAIN Tables)]

ReferenceInit ==
    /\ present \in {Row(t) : t \in DOMAIN Tables}
    /\ unset = {}

-------------------------------------------------------------------------------
\* What PostgreSQL does with the foreign keys.

\* The references of a row that a foreign key watches over.
Held(t) == {rel \in Tables[t].relations :
               rel.column \in Tables[t].columns /\ <<t, rel.column>> \notin unset}

\* The row and those that a delete of it takes along.
Gone(t) ==
    LET gone[n \in Nat] ==
            IF n = 0 THEN {t}
            ELSE LET first == gone[n - 1]
                 IN  first \cup {u \in present :
                        \E rel \in Held(u) : rel.onDelete = "CASCADE" /\ rel.target \in first}
    IN  gone[Cardinality(DOMAIN Tables)]

\* The references that a delete of it would leave without a row.
Severed(t) ==
    UNION {{<<u, rel>> : rel \in {x \in Held(u) : x.target \in Gone(t)}} : u \in present \ Gone(t)}

Refused(t) == \E c \in Severed(t) : c[2].onDelete \in {"NO_ACTION", "RESTRICT"}

-------------------------------------------------------------------------------
\* The routes that delete a row: a work order is looked up first.  The other routes
\* called so clear a flag or set deletedAt (Catalogue, Departments).
Deletable == {"users", "operators", "equipment", "downtime_reasons", "work_order"}

DeleteBegin(r, t) ==
    /\ t = "work_order" => t \in present
    /\ Begin(r, "delete_row", [NoArg EXCEPT !.other = t])
    /\ UNCHANGED referenceTables

RowDelete(r) ==
    LET t == arg[r].other IN
    /\ pc[r] = "delete_row"
    /\ IF t \notin present \/ Refused(t) THEN UNCHANGED referenceTables
       ELSE /\ present' = present \ Gone(t)
            /\ unset' = {c \in unset : c[1] \notin Gone(t)}
                        \cup {<<c[1], c[2].column>> : c \in Severed(t)}
    /\ Finish(r)

ReferenceRequest(r) == \E t \in Deletable : DeleteBegin(r, t)

-------------------------------------------------------------------------------
\* What is recorded of the floor's work, and refers to the orders and people.
Records == {"work_order_status_history", "work_order_downtime", "column_mapping_history",
            "operator_sessions", "schedule_operator_assignments"}

\* A row goes only by a route for it, and a user's codes with the user; it is no
\* longer referred to by an invitation; and what a record refers to stays.
RowsKept ==
    /\ \A t \in present \ present' :
          \E r \in Requests :
              /\ pc[r] = "delete_row" /\ pc'[r] # pc[r]
              /\ arg[r].other = t \/ (t = "verification_codes" /\ arg[r].other = "users")
    /\ \A c \in unset' \ unset : c = <<"invitations", "invited_by">>
    /\ \A t \in Records \cap present' : \A rel \in Tables[t].relations : rel.target \in present'
===============================================================================
